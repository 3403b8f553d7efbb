-------------------------- MODULE DashboardProofs --------------------------
(***************************************************************************)
(* What a tab of the dashboard shows and keeps, for any number of things   *)
(* that it does, and other tabs do, at a time.                             *)
(*                                                                         *)
(* A session's tokens stay its user's because whatever may put tokens into *)
(* it, a request's retry or the refresh it waits for, was sent with tokens *)
(* of that user's: or a login came in between, and crossed says so.        *)
(***************************************************************************)
EXTENDS Dashboard, TLAPS

Entering == {"password", "code"}
Ops      == Requesting \cup Entering \cup {"none", "logout"}
Stages   == {"idle", "sent", "waiting", "discarding", "done"}
Answers  == {"none", "ok", "refused", "failed", "barred", "mfaRequired"}

Acts ==
    [op : Ops, pc : Stages, sent : Tokens \cup {None}, answer : Answers, retried : BOOLEAN]

Issued ==
    /\ family \in [Tokens -> Tokens \cup {None}]
    /\ live \subseteq Tokens /\ \A t \in live : family[t] # None

Screens ==
    /\ session \in Sessions
    /\ due \in BOOLEAN /\ error \in BOOLEAN /\ summary \in BOOLEAN
    /\ form \in Entering \cup Activities

Typed ==
    /\ Issued /\ Screens
    /\ stored \in Sessions /\ (stored # None => family[stored.tokens] # None)
    /\ unheard \in BOOLEAN
    /\ act \in [Activities -> Acts]

Active(a) == act[a].pc \notin {"idle", "done"}

\* What the activities are about at their stages.
OwnStages ==
    \A a \in Activities :
        /\ act[a].pc = "waiting" => act[a].op \in Requesting
        /\ act[a].pc = "discarding" => act[a].op \in Entering
        /\ act[a].op \in Entering /\ act[a].pc = "sent" /\ act[a].answer \in {"ok", "barred"} =>
              family[a] = a

\* The refresh: who waits, for what.
Promise ==
    /\ refreshing \in Activities \cup {None}
    /\ renewal \in [token : Tokens \cup {None}, answer : Answers]
    /\ refreshing = None <=> Waiters = {}
    /\ refreshing # None =>
          /\ renewal.token \in Tokens /\ family[renewal.token] # None
          /\ renewal.answer = "ok" => family[refreshing] = family[renewal.token]

\* The tokens that the session has, or may still lose or be given for.
Asks(a) == act[a].op \in Requesting /\ Active(a)

Uses(t) ==
    \/ t = stored.tokens
    \/ refreshing # None /\ t = renewal.token
    \/ \E a \in Activities : Asks(a) /\ t = act[a].sent

SameUser ==
    stored # None /\ crossed \cap Requesting = {} =>
        \A t \in Tokens \cup {None} : Uses(t) => t \in Tokens /\ family[t] = stored.user

\* A logout leaves nothing stored, until somebody logs in.
LogsOut(a) == act[a].op = "logout" /\ Active(a)

LogoutsEmpty ==
    "logout" \notin crossed => \A a \in Activities : LogsOut(a) => stored = None

\* What is shown is stored, or the news is on its way.
Shown == session # stored => unheard \/ "logout" \in crossed

IInv == Typed /\ OwnStages /\ Promise /\ SameUser /\ LogoutsEmpty /\ Shown

-----------------------------------------------------------------------------
\* The server's tokens: what is issued goes back to the same login for good.

KeepsFamilies ==
    /\ Issued'
    /\ \A t \in Tokens : family[t] # None => family'[t] = family[t]

LEMMA TokensKeep == Issued /\ UNCHANGED <<family, live>> => KeepsFamilies
BY DEF Issued, KeepsFamilies

LEMMA OpenKeeps ==
    ASSUME Issued, NEW a \in Activities, R!Open(a)
    PROVE  KeepsFamilies /\ family'[a] = a
BY NamesAssumption DEF Issued, KeepsFamilies, R!Open, R!Issue, Tokens

LEMMA TradeKeeps ==
    ASSUME Issued, NEW a \in Activities, NEW t \in live, R!Trade(t, a)
    PROVE  KeepsFamilies /\ family'[a] = family[t] /\ family[t] # None
BY NamesAssumption DEF Issued, KeepsFamilies, R!Trade, R!Issue, Tokens

LEMMA CloseKeeps ==
    ASSUME Issued, NEW closed, R!Close(closed)
    PROVE  KeepsFamilies
BY DEF Issued, KeepsFamilies, R!Close

-----------------------------------------------------------------------------
\* The parts, from what a step leaves.

\* Tokens of the user stay that.
LEMMA SameUserKept ==
    ASSUME IInv, KeepsFamilies, stored' \in Sessions, stored # None, stored'.user = stored.user,
           crossed \subseteq crossed',
           \A t \in Tokens \cup {None} : Uses(t)' =>
               Uses(t) \/ (t \in Tokens /\ (SameUser /\ crossed \cap Requesting = {} => family'[t] = stored.user))
    PROVE  SameUser'
<1> SUFFICES ASSUME stored' # None, crossed' \cap Requesting = {}, NEW t \in Tokens \cup {None}, Uses(t)'
             PROVE  t \in Tokens /\ family'[t] = stored'.user
  BY DEF SameUser
<1>1. crossed \cap Requesting = {} /\ SameUser
  BY DEF IInv
<1>2. CASE Uses(t)
  <2>1. t \in Tokens /\ family[t] = stored.user
    BY <1>1, <1>2 DEF SameUser
  <2>2. stored.user # None
    BY NamesAssumption DEF IInv, Typed, Sessions, Tokens
  <2> QED
    BY <2>1, <2>2 DEF KeepsFamilies
<1> QED
  BY <1>1, <1>2

\* Only a's record changes, and nobody waits for the refresh who did not.
Turn(a) ==
    /\ \A b \in Activities : b # a => act'[b] = act[b]
    /\ act' \in [Activities -> Acts]
    /\ act[a].pc # "waiting" /\ act'[a].pc # "waiting"
    /\ act'[a].pc = "discarding" => act'[a].op \in Entering
    /\ act'[a].op \in Entering /\ act'[a].pc = "sent" /\ act'[a].answer \in {"ok", "barred"} =>
          family'[a] = a

LEMMA TurnKeepsStages ==
    ASSUME IInv, KeepsFamilies, NEW a \in Activities, Turn(a)
    PROVE  OwnStages' /\ Waiters' = Waiters
<1>1. \A b \in Activities : b # a /\ act[b].op \in Entering /\ act[b].pc = "sent"
                            /\ act[b].answer \in {"ok", "barred"} => family'[b] = b
  BY NamesAssumption DEF IInv, OwnStages, KeepsFamilies, Tokens
<1>2. OwnStages'
  BY <1>1 DEF IInv, OwnStages, Turn
<1>3. Waiters' = Waiters
  BY DEF Turn, Waiters
<1> QED
  BY <1>2, <1>3

LEMMA PromiseKept ==
    ASSUME IInv, KeepsFamilies, Waiters' = Waiters, UNCHANGED <<refreshing, renewal>>
    PROVE  Promise'
<1>1. refreshing # None => refreshing \in Tokens
  BY DEF IInv, Promise, Tokens
<1>2. ASSUME refreshing # None
      PROVE  /\ renewal.token \in Tokens /\ family'[renewal.token] # None
             /\ renewal.answer = "ok" => family'[refreshing] = family'[renewal.token]
  BY <1>1, <1>2 DEF IInv, Promise, KeepsFamilies
<1> QED
  BY <1>2 DEF IInv, Promise

\* A step that leaves the storage and the refresh alone.
Still(a) ==
    /\ KeepsFamilies /\ Turn(a) /\ Screens'
    /\ UNCHANGED <<stored, unheard, refreshing, renewal, crossed>>
    /\ Asks(a)' => \/ Asks(a) /\ act'[a].sent = act[a].sent
                   \/ act'[a].sent = IF stored = None THEN None ELSE stored.tokens
    /\ LogsOut(a)' => LogsOut(a)
    /\ session' = session \/ (session' = None /\ (stored = None \/ LogsOut(a)))

LEMMA StillKeeps ==
    ASSUME IInv, NEW a \in Activities, Still(a)
    PROVE  IInv'
<1>1. OwnStages' /\ Waiters' = Waiters
  BY TurnKeepsStages DEF Still
<1>2. Typed'
  <2>1. stored # None => stored.tokens \in Tokens
    BY DEF IInv, Typed, Sessions
  <2> QED
    BY <2>1 DEF IInv, Typed, Still, Turn, KeepsFamilies
<1>3. Promise'
  BY <1>1, PromiseKept DEF Still
<1>4. SameUser'
  <2>1. CASE stored = None
    BY <2>1 DEF SameUser, Still
  <2>2. CASE stored # None
    <3>1. \A t \in Tokens \cup {None} : Uses(t)' => Uses(t)
      BY <2>2 DEF Uses, Still, Turn, Asks, Active
    <3>2. stored' = stored /\ crossed' = crossed /\ stored' \in Sessions
      BY DEF Still, IInv, Typed
    <3> QED
      BY <2>2, <3>1, <3>2, SameUserKept DEF Still
  <2> QED
    BY <2>1, <2>2
<1>5. LogoutsEmpty'
  BY DEF IInv, LogoutsEmpty, Still, Turn, LogsOut, Active
<1>6. Shown'
  BY DEF IInv, Shown, LogoutsEmpty, Still
<1> QED
  BY <1>1, <1>2, <1>3, <1>4, <1>5, <1>6 DEF IInv

\* A step that takes the session away, here or in another tab.
Ends ==
    /\ KeepsFamilies /\ Screens' /\ stored' = None
    /\ act' \in [Activities -> Acts] /\ OwnStages' /\ Promise'
    /\ UNCHANGED crossed
    /\ \/ session' = None /\ UNCHANGED unheard
       \/ unheard' = TRUE

LEMMA EndsKeeps ==
    ASSUME IInv, Ends
    PROVE  IInv'
<1>1. Typed'
  BY DEF IInv, Typed, Ends, Sessions, KeepsFamilies
<1>2. SameUser' /\ LogoutsEmpty' /\ Shown'
  BY DEF SameUser, LogoutsEmpty, Shown, Ends
<1> QED
  BY <1>1, <1>2 DEF IInv, Ends

-----------------------------------------------------------------------------
\* How an activity goes on.

LEMMA SendTurns ==
    ASSUME IInv, NEW a \in Activities, act[a].pc = "idle", NEW op \in Ops,
           NEW tokens \in Tokens \cup {None}, NEW again \in BOOLEAN, Sending(a, op, tokens, again)
    PROVE  Turn(a) /\ act'[a].op = op /\ act'[a].sent = tokens
<1>1. act \in [Activities -> Acts]
  BY DEF IInv, Typed
<1>2. /\ act' = [act EXCEPT ![a] = act'[a]]
      /\ act'[a] = [op |-> op, pc |-> "sent", sent |-> tokens, answer |-> "none", retried |-> again]
  BY <1>1 DEF Sending
<1>3. act'[a] \in Acts
  BY <1>2 DEF Acts, Stages, Answers
<1> QED
  BY <1>1, <1>2, <1>3 DEF Turn

LEMMA StoredTokens ==
    ASSUME IInv
    PROVE  (IF stored = None THEN None ELSE stored.tokens) \in Tokens \cup {None}
BY DEF IInv, Typed, Sessions

LEMMA OverIsAct == Over \in Acts /\ Over.pc = "done" /\ Over.op = "none"
BY DEF Over, Idle, Acts, Stages, Answers, Ops

LEMMA EndTurns ==
    ASSUME IInv, NEW a \in Activities, act[a].pc # "waiting", End(a)
    PROVE  Turn(a) /\ ~Active(a)'
<1>1. act \in [Activities -> Acts]
  BY DEF IInv, Typed
<1>2. act' = [act EXCEPT ![a] = Over]
  BY DEF End
<1>3. act'[a] = Over /\ act' \in [Activities -> Acts] /\ \A b \in Activities : b # a => act'[b] = act[b]
  BY <1>1, <1>2, OverIsAct
<1> QED
  BY <1>3, OverIsAct DEF Turn, Active

LEMMA AnswerTurns ==
    ASSUME IInv, NEW a \in Activities, act[a].pc = "sent", NEW what \in Answers,
           act' = [act EXCEPT ![a].answer = what],
           act[a].op \in Entering /\ what \in {"ok", "barred"} => family'[a] = a
    PROVE  Turn(a) /\ act'[a].op = act[a].op /\ act'[a].sent = act[a].sent /\ act'[a].pc = "sent"
<1>1. act \in [Activities -> Acts]
  BY DEF IInv, Typed
<1>2. /\ act'[a] = [act[a] EXCEPT !.answer = what]
      /\ \A b \in Activities : b # a => act'[b] = act[b]
  BY <1>1
<1>3. act'[a] \in Acts /\ act'[a].op = act[a].op /\ act'[a].sent = act[a].sent
      /\ act'[a].pc = "sent" /\ act'[a].answer = what
  BY <1>1, <1>2 DEF Acts
<1>4. act' \in [Activities -> Acts]
  BY <1>1, <1>2, <1>3
<1> QED
  BY <1>2, <1>3, <1>4 DEF Turn

LEMMA GotoTurns ==
    ASSUME IInv, NEW a \in Activities, act[a].pc = "sent", act[a].op \in Entering,
           Goto(a, "discarding")
    PROVE  Turn(a) /\ act'[a].op = act[a].op
<1>1. act \in [Activities -> Acts]
  BY DEF IInv, Typed
<1>2. /\ act'[a] = [act[a] EXCEPT !.pc = "discarding"]
      /\ \A b \in Activities : b # a => act'[b] = act[b]
  BY <1>1 DEF Goto
<1>3. act'[a] \in Acts /\ act'[a].op = act[a].op /\ act'[a].pc = "discarding"
  BY <1>1, <1>2 DEF Acts, Stages
<1>4. act' \in [Activities -> Acts]
  BY <1>1, <1>2, <1>3 DEF Goto
<1> QED
  BY <1>2, <1>3, <1>4 DEF Turn

-----------------------------------------------------------------------------
\* The steps that leave the storage and the refresh alone.

LEMMA StartsKeep ==
    ASSUME IInv, NEW a \in Activities, RunEffect(a) \/ Call(a) \/ Login(a)
    PROVE  IInv'
<1>1. KeepsFamilies /\ UNCHANGED <<stored, unheard, refreshing, renewal, crossed, session>>
  BY TokensKeep DEF RunEffect, Call, Login, server, screen, promise, IInv, Typed
<1>2. Screens'
  BY DEF RunEffect, Call, Login, screen, IInv, Typed, Screens
<1>3. CASE RunEffect(a) \/ Call(a)
  <2> DEFINE tokens == IF stored = None THEN None ELSE stored.tokens
  <2>1. \E op \in Requesting : act[a].pc = "idle" /\ Sending(a, op, tokens, FALSE)
    BY <1>3 DEF RunEffect, Call, Started, Requesting
  <2>2. PICK op \in Requesting : act[a].pc = "idle" /\ Sending(a, op, tokens, FALSE)
    BY <2>1
  <2>3. tokens \in Tokens \cup {None} /\ op \in Ops /\ op # "logout"
    BY StoredTokens DEF Ops, Requesting
  <2> HIDE DEF tokens
  <2>4. Turn(a) /\ act'[a].op = op /\ act'[a].sent = tokens
    BY <2>2, <2>3, SendTurns
  <2>5. Still(a)
    BY <1>1, <1>2, <2>3, <2>4 DEF Still, LogsOut, tokens
  <2> QED
    BY <2>5, StillKeeps
<1>4. CASE Login(a)
  <2>1. act[a].pc = "idle" /\ form \in Ops /\ form \in Entering /\ Sending(a, form, None, FALSE)
    BY <1>4 DEF Login, Ops, Entering
  <2>2. Turn(a) /\ act'[a].op = form
    BY <2>1, SendTurns
  <2>3. Still(a)
    BY <1>1, <1>2, <2>1, <2>2 DEF Still, LogsOut, Asks, Requesting, Entering
  <2> QED
    BY <2>3, StillKeeps
<1> QED
  BY <1>3, <1>4

LEMMA ServesKeep ==
    ASSUME IInv, NEW a \in Activities,
           Serve(a) \/ ServeLogin(a) \/ ServeLogout(a) \/ LoseAnswer(a)
    PROVE  IInv'
<1>1. UNCHANGED <<stored, unheard, refreshing, renewal, crossed, session>> /\ Screens'
  BY DEF Serve, ServeLogin, ServeLogout, LoseAnswer, screen, promise, IInv, Typed, Screens
<1>2. Issued
  BY DEF IInv, Typed
<1>3. ASSUME act[a].pc = "sent", NEW what \in Answers, act' = [act EXCEPT ![a].answer = what],
             act[a].op \in Entering /\ what \in {"ok", "barred"} => family'[a] = a,
             KeepsFamilies
      PROVE  IInv'
  <2>1. Turn(a) /\ act'[a].op = act[a].op /\ act'[a].sent = act[a].sent
    BY <1>3, AnswerTurns
  <2>2. Still(a)
    BY <1>1, <1>3, <2>1 DEF Still, Asks, LogsOut, Active
  <2> QED
    BY <2>2, StillKeeps
<1>4. CASE Serve(a)
  <2>1. /\ act[a].pc = "sent" /\ act[a].op \notin Entering
        /\ \E what \in {"refused", "ok"} : act' = [act EXCEPT ![a].answer = what]
    BY <1>4 DEF Serve, Comes, Entering
  <2>2. KeepsFamilies
    BY <1>2, <1>4, TokensKeep DEF Serve, server
  <2> QED
    BY <1>3, <2>1, <2>2 DEF Answers
<1>5. CASE ServeLogin(a)
  <2>1. act[a].pc = "sent"
    BY <1>5 DEF ServeLogin, Comes
  <2>2. CASE \E how \in {"ok", "barred"} : Comes(a, how) /\ R!Open(a)
    BY <1>2, <1>3, <2>1, <2>2, OpenKeeps DEF Comes, Answers
  <2>3. CASE (Comes(a, "refused") \/ Comes(a, "mfaRequired")) /\ UNCHANGED <<family, live>>
    BY <1>2, <1>3, <2>1, <2>3, TokensKeep DEF Comes, Answers
  <2> QED
    BY <1>5, <2>2, <2>3 DEF ServeLogin
<1>6. CASE ServeLogout(a)
  <2>1. KeepsFamilies
    BY <1>2, <1>6, CloseKeeps DEF ServeLogout
  <2>2. act[a].pc = "sent" /\ act[a].op \notin Entering /\ act' = [act EXCEPT ![a].answer = "ok"]
    BY <1>6 DEF ServeLogout, Comes, Entering
  <2> QED
    BY <1>3, <2>1, <2>2 DEF Answers
<1>7. CASE LoseAnswer(a)
  <2>1. KeepsFamilies
    BY <1>2, <1>7, TokensKeep DEF LoseAnswer, server
  <2>2. act[a].pc = "sent" /\ act' = [act EXCEPT ![a].answer = "failed"]
    BY <1>7 DEF LoseAnswer
  <2> QED
    BY <1>3, <2>1, <2>2 DEF Answers
<1> QED
  BY <1>4, <1>5, <1>6, <1>7

\* After an answer that changes no more than the screen the activity is over.
LEMMA EndingsKeep ==
    ASSUME IInv, NEW a \in Activities,
           \/ Loaded(a) \/ Unreachable(a) \/ Finished(a) \/ AskCode(a) \/ LoginFails(a)
           \/ Discarded(a) \/ LoggedOut(a)
    PROVE  IInv'
<1>1. /\ UNCHANGED <<stored, unheard, refreshing, renewal, crossed>>
      /\ act[a].pc # "waiting" /\ End(a)
  BY DEF Loaded, Unreachable, Finished, AskCode, LoginFails, Discarded, LoggedOut, Answered, promise
<1>2. Issued /\ OwnStages /\ Screens /\ act \in [Activities -> Acts]
  BY DEF IInv, Typed
<1>3. KeepsFamilies
  <2>1. CASE Discarded(a)
    BY <1>2, <2>1, CloseKeeps DEF Discarded
  <2> QED
    BY <1>2, <2>1, TokensKeep DEF Loaded, Unreachable, Finished, AskCode, LoginFails, LoggedOut, server
<1>4. Turn(a) /\ ~Active(a)'
  BY <1>1, EndTurns
<1>5. Screens' /\ (session' = session \/ (session' = None /\ (stored = None \/ LogsOut(a))))
  <2>1. CASE Loaded(a) \/ Finished(a)
    BY <1>2, <2>1 DEF Loaded, Finished, screen, Screens
  <2>2. CASE Unreachable(a)
    BY <1>2, <2>2 DEF Unreachable, Caught, Hidden, Show, Screens, Sessions
  <2>3. CASE AskCode(a)
    BY <1>2, <2>3 DEF AskCode, Screens, Entering
  <2>4. CASE LoginFails(a)
    BY <1>2, <2>4 DEF LoginFails, FormFails, Answered, Screens, Entering
  <2>5. CASE Discarded(a)
    BY <1>2, <2>5 DEF Discarded, FormFails, OwnStages, Screens
  <2>6. CASE LoggedOut(a)
    BY <1>2, <2>6 DEF LoggedOut, Show, Answered, LogsOut, Active, Screens, Sessions
  <2> QED
    BY <2>1, <2>2, <2>3, <2>4, <2>5, <2>6
<1>6. Still(a)
  BY <1>1, <1>3, <1>4, <1>5 DEF Still, Asks, LogsOut
<1> QED
  BY <1>6, StillKeeps

LEMMA BarredKeeps ==
    ASSUME IInv, NEW a \in Activities, Barred(a)
    PROVE  IInv'
<1>1. /\ UNCHANGED <<stored, unheard, refreshing, renewal, crossed, session>> /\ Screens'
      /\ act[a].pc = "sent" /\ act[a].op \in Entering /\ Goto(a, "discarding")
  BY DEF Barred, Answered, screen, promise, IInv, Typed, Screens, Entering
<1>2. KeepsFamilies
  BY TokensKeep DEF IInv, Typed, Barred, server
<1>3. Turn(a) /\ act'[a].op = act[a].op
  BY <1>1, GotoTurns
<1>4. Still(a)
  BY <1>1, <1>2, <1>3 DEF Still, Asks, LogsOut, Entering, Requesting
<1> QED
  BY <1>4, StillKeeps

-----------------------------------------------------------------------------
\* The steps that take the session away, but for a refused refresh.

LEMMA EndingsOfSessionKeep ==
    ASSUME IInv, NEW a \in Activities, Logout(a) \/ GiveUp(a) \/ LoginRefused(a)
    PROVE  IInv'
<1>1. /\ KeepsFamilies /\ stored' = None /\ session' = None
      /\ UNCHANGED <<unheard, crossed, refreshing, renewal>>
  BY TokensKeep DEF Logout, GiveUp, LoginRefused, Announce, Show, server, promise, IInv, Typed
<1>2. Screens'
  <2>1. Screens
    BY DEF IInv, Typed
  <2>2. CASE Logout(a) \/ GiveUp(a)
    BY <2>1, <2>2 DEF Logout, GiveUp, Announce, Show, Screens, Sessions
  <2>3. CASE LoginRefused(a)
    BY <2>1, <2>3 DEF LoginRefused, FormFails, Answered, Screens, Sessions, Entering
  <2> QED
    BY <2>2, <2>3
<1>3. Turn(a)
  <2>1. CASE Logout(a)
    <3> DEFINE tokens == IF stored = None THEN None ELSE stored.tokens
    <3>1. act[a].pc = "idle" /\ Sending(a, "logout", tokens, FALSE)
      BY <2>1 DEF Logout, Started
    <3>2. tokens \in Tokens \cup {None} /\ "logout" \in Ops
      BY StoredTokens DEF Ops
    <3> HIDE DEF tokens
    <3> QED
      BY <3>1, <3>2, SendTurns
  <2>2. CASE GiveUp(a) \/ LoginRefused(a)
    BY <2>2, EndTurns DEF GiveUp, LoginRefused, Refused, Answered
  <2> QED
    BY <2>1, <2>2
<1>4. OwnStages' /\ Waiters' = Waiters
  BY <1>1, <1>3, TurnKeepsStages
<1>5. Promise'
  BY <1>1, <1>4, PromiseKept
<1> QED
  BY <1>1, <1>2, <1>3, <1>4, <1>5, EndsKeeps DEF Ends, Turn

LEMMA LogoutElsewhereKeeps ==
    ASSUME IInv, LogoutElsewhere
    PROVE  IInv'
<1>1. /\ KeepsFamilies /\ stored' = None /\ unheard' = TRUE
      /\ UNCHANGED <<session, due, form, error, summary, crossed, refreshing, renewal, act>>
  BY CloseKeeps DEF LogoutElsewhere, screen, promise, IInv, Typed
<1>2. OwnStages' /\ Waiters' = Waiters
  BY <1>1, NamesAssumption DEF IInv, OwnStages, Waiters, KeepsFamilies, Tokens
<1>3. Promise'
  BY <1>1, <1>2, PromiseKept
<1>4. Screens' /\ act' \in [Activities -> Acts]
  BY <1>1 DEF IInv, Typed, Screens
<1> QED
  BY <1>1, <1>2, <1>3, <1>4, EndsKeeps DEF Ends

-----------------------------------------------------------------------------
\* The steps that store a session.

\* Whoever is under way when a login is stored is in crossed from then on.
LEMMA LoginStored ==
    ASSUME IInv, NEW a \in Activities, KeepsFamilies, family'[a] = a, StoreLogin(a),
           Turn(a), ~Active(a)', UNCHANGED <<refreshing, renewal>>, Screens',
           unheard' \in BOOLEAN, session' = stored' \/ unheard' = TRUE
    PROVE  IInv'
<1>1. OwnStages' /\ Waiters' = Waiters
  BY TurnKeepsStages
<1>2. Promise'
  BY <1>1, PromiseKept
<1>3. a \in Tokens /\ a # None /\ stored' = [tokens |-> a, user |-> a]
  BY NamesAssumption DEF Tokens, StoreLogin, Session
<1>4. Typed'
  BY <1>3 DEF Typed, KeepsFamilies, Sessions, Turn
<1>5. \A b \in Activities : b # a /\ Active(b) => act[b].op \in crossed'
  BY DEF StoreLogin, UnderWay, Active
<1>6. SameUser'
  <2> SUFFICES ASSUME crossed' \cap Requesting = {}, NEW t \in Tokens \cup {None}, Uses(t)'
               PROVE  t = a
    BY <1>3 DEF SameUser
  <2>1. \A b \in Activities : b # a => ~Asks(b)
    BY <1>5 DEF Asks
  <2>2. \A b \in Activities : ~Asks(b)'
    BY <2>1 DEF Asks, Active, Turn
  <2>3. Waiters = {}
    BY <2>1 DEF Waiters, Turn, IInv, OwnStages, Asks, Active
  <2>4. refreshing' = None
    BY <2>3 DEF IInv, Promise
  <2> QED
    BY <1>3, <2>2, <2>4 DEF Uses
<1>7. LogoutsEmpty'
  BY <1>5 DEF LogoutsEmpty, LogsOut, Active, Turn
<1>8. Shown'
  BY DEF Shown
<1> QED
  BY <1>1, <1>2, <1>4, <1>6, <1>7, <1>8 DEF IInv

LEMMA LoginsKeep ==
    ASSUME IInv, NEW a \in Activities, LoggedIn(a) \/ LoginElsewhere(a)
    PROVE  IInv'
<1>1. Issued /\ Screens /\ unheard \in BOOLEAN
  BY DEF IInv, Typed
<1>2. CASE LoggedIn(a)
  <2>1. /\ KeepsFamilies /\ family[a] = a /\ family' = family
        /\ StoreLogin(a) /\ End(a) /\ act[a].pc = "sent"
        /\ UNCHANGED <<refreshing, renewal, unheard>> /\ session' = stored'
    BY <1>1, <1>2, TokensKeep DEF LoggedIn, Answered, server, promise, StoreLogin, Show,
                                  IInv, OwnStages, Entering
  <2>2. Screens'
    BY <1>1, <1>2, NamesAssumption DEF LoggedIn, Show, Session, Screens, Sessions, Tokens, Entering
  <2> QED
    BY <1>1, <2>1, <2>2, EndTurns, LoginStored
<1>3. CASE LoginElsewhere(a)
  <2>1. /\ StoreLogin(a) /\ End(a) /\ act[a].pc = "idle" /\ R!Open(a)
        /\ UNCHANGED <<refreshing, renewal>> /\ unheard' = TRUE /\ Screens'
    BY <1>1, <1>3 DEF LoginElsewhere, promise, screen, Screens
  <2> QED
    BY <1>1, <2>1, OpenKeeps, EndTurns, LoginStored
<1> QED
  BY <1>2, <1>3

LEMMA RefreshElsewhereKeeps ==
    ASSUME IInv, NEW a \in Activities, RefreshElsewhere(a)
    PROVE  IInv'
<1>1. /\ act[a].pc = "idle" /\ End(a) /\ stored # None /\ stored.tokens \in live
      /\ R!Trade(stored.tokens, a) /\ stored' = [stored EXCEPT !.tokens = a] /\ unheard' = TRUE
      /\ UNCHANGED <<session, due, form, error, summary, refreshing, renewal, crossed>>
      /\ stored \in Sessions
  BY DEF RefreshElsewhere, screen, promise, IInv, Typed
<1>2. KeepsFamilies /\ family'[a] = family[stored.tokens] /\ family[stored.tokens] # None
  BY <1>1, TradeKeeps DEF IInv, Typed
<1>3. Turn(a) /\ ~Active(a)'
  BY <1>1, EndTurns
<1>4. OwnStages' /\ Waiters' = Waiters
  BY <1>2, <1>3, TurnKeepsStages
<1>5. Promise'
  BY <1>1, <1>2, <1>4, PromiseKept
<1>6. /\ stored' \in Sessions /\ stored'.user = stored.user /\ stored'.tokens = a
      /\ stored.tokens \in Tokens /\ a \in Tokens
  BY <1>1 DEF Sessions, Tokens
<1>7. Typed'
  BY <1>1, <1>2, <1>3, <1>6 DEF IInv, Typed, Screens, KeepsFamilies, Turn
<1>8. SameUser'
  <2>1. SameUser /\ crossed \cap Requesting = {} => family'[a] = stored.user
    BY <1>1, <1>2, <1>6 DEF SameUser, Uses
  <2>2. \A t \in Tokens \cup {None} : Uses(t)' => Uses(t) \/ t = a
    BY <1>1, <1>3, <1>6 DEF Uses, Asks, Active, Turn
  <2> QED
    BY <1>1, <1>2, <1>6, <2>1, <2>2, SameUserKept
<1>9. LogoutsEmpty' /\ Shown'
  BY <1>1, <1>3 DEF IInv, LogoutsEmpty, LogsOut, Active, Turn, Shown
<1> QED
  BY <1>4, <1>5, <1>7, <1>8, <1>9 DEF IInv

-----------------------------------------------------------------------------
\* The refresh.

LEMMA RefreshKeeps ==
    ASSUME IInv, NEW a \in Activities, Refresh(a)
    PROVE  IInv'
<1>1. /\ act[a].op \in Requesting /\ act[a].pc = "sent" /\ stored # None
      /\ refreshing' = Performer(a)
      /\ renewal' = IF Performer(a) = a THEN [token |-> stored.tokens, answer |-> "none"] ELSE renewal
      /\ act' = [act EXCEPT ![a].pc = "waiting"]
      /\ UNCHANGED <<family, live, stored, session, due, form, error, summary, unheard, crossed>>
  BY DEF Refresh, Refused, Answered, Requesting, Goto, server, screen
<1>2. Typed /\ act \in [Activities -> Acts]
  BY DEF IInv, Typed
<1>3. /\ act'[a] = [act[a] EXCEPT !.pc = "waiting"]
      /\ \A b \in Activities : b # a => act'[b] = act[b]
  BY <1>1, <1>2
<1>4. act'[a] \in Acts /\ act'[a].op = act[a].op /\ act'[a].sent = act[a].sent /\ act'[a].pc = "waiting"
  BY <1>2, <1>3 DEF Acts, Stages
<1>5. act' \in [Activities -> Acts]
  BY <1>1, <1>2, <1>3, <1>4
<1>6. Typed'
  BY <1>1, <1>2, <1>5 DEF Typed, Issued, Screens
<1>7. OwnStages'
  BY <1>1, <1>3, <1>4 DEF IInv, OwnStages, Entering, Requesting
<1>8. stored.tokens \in Tokens /\ family[stored.tokens] # None
  BY <1>1, <1>2 DEF Typed, Sessions
<1>9. Promise'
  <2>1. refreshing' \in Activities /\ refreshing' # None /\ a \in Waiters'
    BY <1>1, <1>4, NamesAssumption DEF Performer, IInv, Promise, Waiters
  <2>2. CASE Performer(a) = a
    <3>1. renewal' = [token |-> stored.tokens, answer |-> "none"]
      BY <1>1, <2>2
    <3>2. renewal'.token = stored.tokens /\ renewal'.answer = "none"
      BY <3>1
    <3>3. renewal' \in [token : Tokens \cup {None}, answer : Answers]
      BY <1>8, <3>1 DEF Answers
    <3> QED
      BY <1>1, <1>8, <2>1, <3>2, <3>3 DEF Promise
  <2>3. CASE Performer(a) # a
    BY <1>1, <2>1, <2>3 DEF IInv, Promise, Performer
  <2> QED
    BY <2>2, <2>3
<1>10. SameUser'
  <2>1. KeepsFamilies
    BY <1>1, <1>2, TokensKeep DEF Typed
  <2>2. \A t \in Tokens \cup {None} : Uses(t)' => Uses(t)
    BY <1>1, <1>3, <1>4 DEF Uses, Performer, Asks, Active
  <2>3. stored' = stored /\ stored' \in Sessions /\ crossed' = crossed
    BY <1>1, <1>2 DEF Typed
  <2> QED
    BY <1>1, <2>1, <2>2, <2>3, SameUserKept
<1>11. LogoutsEmpty'
  BY <1>1, <1>3, <1>4 DEF IInv, LogoutsEmpty, LogsOut, Active, Requesting
<1>12. Shown'
  BY <1>1 DEF IInv, Shown
<1> QED
  BY <1>6, <1>7, <1>9, <1>10, <1>11, <1>12 DEF IInv

\* Those who waited go on, each with [after], and nobody waits.
LEMMA SettledWakes ==
    ASSUME IInv, NEW after \in [Activities -> Acts], Settled(after),
           \A a \in Waiters : after[a].pc \notin {"waiting", "discarding"}
                              /\ after[a].op \notin Entering
    PROVE  /\ act' \in [Activities -> Acts] /\ OwnStages' /\ Promise'
           /\ \A a \in Activities : act'[a] = IF a \in Waiters THEN after[a] ELSE act[a]
           /\ KeepsFamilies /\ UNCHANGED <<family, summary, unheard, crossed>>
<1>1. /\ act' = [a \in Activities |-> IF a \in Waiters THEN after[a] ELSE act[a]]
      /\ refreshing' = None /\ renewal' = NoRenewal
      /\ UNCHANGED <<family, live, summary, unheard, crossed>>
  BY DEF Settled, server
<1>2. \A a \in Activities : act'[a] = IF a \in Waiters THEN after[a] ELSE act[a]
  BY <1>1
<1>3. act' \in [Activities -> Acts]
  BY <1>1 DEF IInv, Typed
<1>4. OwnStages'
  BY <1>1, <1>2 DEF IInv, OwnStages
<1>5. Waiters' = {}
  BY <1>2 DEF Waiters
<1>6. Promise'
  BY <1>1, <1>5 DEF Promise, NoRenewal, Answers
<1>7. KeepsFamilies
  BY <1>1, TokensKeep DEF IInv, Typed
<1> QED
  BY <1>1, <1>2, <1>3, <1>4, <1>6, <1>7

LEMMA RenewedKeeps ==
    ASSUME IInv, Renewed
    PROVE  IInv'
<1> DEFINE after == [a \in Activities |->
                       [act[a] EXCEPT !.pc = "sent", !.sent = refreshing,
                                      !.answer = "none", !.retried = TRUE]]
<1>1. /\ refreshing # None /\ renewal.answer = "ok" /\ stored # None
      /\ stored' = [stored EXCEPT !.tokens = refreshing] /\ session' = stored'
      /\ due' = (stored' # None) /\ form' = IF stored' # None THEN "password" ELSE form
      /\ UNCHANGED error /\ Settled(after)
  BY DEF Renewed, Continues, Announce, Show
<1>2. Typed /\ act \in [Activities -> Acts] /\ stored \in [tokens : Tokens, user : Tokens]
  BY <1>1 DEF IInv, Typed, Sessions
<1>3. refreshing \in Activities /\ refreshing \in Tokens
  BY <1>1 DEF IInv, Promise, Tokens
<1>4. \A a \in Activities : after[a] \in Acts /\ after[a].op = act[a].op
                            /\ after[a].pc = "sent" /\ after[a].sent = refreshing
  BY <1>2, <1>3 DEF Acts, Stages, Answers
<1>5. after \in [Activities -> Acts]
  BY <1>4
<1>6. \A a \in Waiters : a \in Activities /\ act[a].op \in Requesting
  BY DEF Waiters, IInv, OwnStages
<1> HIDE DEF after
<1>7. /\ act' \in [Activities -> Acts] /\ OwnStages' /\ Promise'
      /\ \A a \in Activities : act'[a] = IF a \in Waiters THEN after[a] ELSE act[a]
      /\ KeepsFamilies /\ UNCHANGED <<family, summary, unheard, crossed>>
  <2>1. \A a \in Waiters : after[a].pc \notin {"waiting", "discarding"} /\ after[a].op \notin Entering
    BY <1>4, <1>6 DEF Entering, Requesting
  <2> QED
    BY <1>1, <1>5, <2>1, SettledWakes
<1>8. /\ stored' \in [tokens : Tokens, user : Tokens] /\ stored' \in Sessions
      /\ stored'.tokens = refreshing /\ stored'.user = stored.user
  BY <1>1, <1>2, <1>3 DEF Sessions
<1>9. /\ renewal.token \in Tokens /\ family[renewal.token] # None
      /\ family[refreshing] = family[renewal.token]
  BY <1>1 DEF IInv, Promise
<1>10. Typed'
  <2>1. Screens'
    BY <1>1, <1>2, <1>7, <1>8 DEF Typed, Screens, Entering
  <2>2. unheard' \in BOOLEAN /\ family'[stored'.tokens] # None
    BY <1>2, <1>7, <1>8, <1>9 DEF Typed
  <2> QED
    BY <1>7, <1>8, <2>1, <2>2 DEF Typed, KeepsFamilies
<1>11. SameUser'
  <2>1. \A t \in Tokens \cup {None} : Uses(t)' => Uses(t) \/ t = refreshing
    <3>1. \A a \in Activities : Asks(a)' => (Asks(a) /\ act'[a].sent = act[a].sent) \/ act'[a].sent = refreshing
      BY <1>4, <1>7 DEF Asks, Active
    <3>2. refreshing' = None
      BY <1>1 DEF Settled
    <3> QED
      BY <1>8, <3>1, <3>2 DEF Uses
  <2>2. SameUser /\ crossed \cap Requesting = {} => family'[refreshing] = stored.user
    BY <1>1, <1>7, <1>9 DEF SameUser, Uses
  <2>3. crossed' = crossed
    BY <1>7
  <2> QED
    BY <1>1, <1>3, <1>7, <1>8, <2>1, <2>2, <2>3, SameUserKept
<1>12. LogoutsEmpty' /\ Shown'
  <2>1. \A a \in Activities : LogsOut(a)' => LogsOut(a)
    BY <1>4, <1>6, <1>7 DEF LogsOut, Active, Requesting
  <2> QED
    BY <1>1, <1>7, <2>1 DEF IInv, LogoutsEmpty, Shown
<1> QED
  BY <1>7, <1>10, <1>11, <1>12 DEF IInv

LEMMA NotRenewedKeeps ==
    ASSUME IInv, NotRenewed
    PROVE  IInv'
<1> DEFINE after == [a \in Activities |-> Over]
<1>1. refreshing # None /\ Settled(after)
  BY DEF NotRenewed
<1>2. after \in [Activities -> Acts] /\ \A a \in Activities : after[a] = Over
  BY OverIsAct
<1> HIDE DEF after
<1>3. /\ act' \in [Activities -> Acts] /\ OwnStages' /\ Promise'
      /\ \A a \in Activities : act'[a] = IF a \in Waiters THEN after[a] ELSE act[a]
      /\ KeepsFamilies /\ UNCHANGED <<family, summary, unheard, crossed>>
  <2>1. \A a \in Waiters : after[a].pc \notin {"waiting", "discarding"} /\ after[a].op \notin Entering
    BY <1>2, OverIsAct DEF Waiters, Entering
  <2> QED
    BY <1>1, <1>2, <2>1, SettledWakes
<1>4. Typed /\ Screens
  BY DEF IInv, Typed
<1>5. CASE Clears(renewal.answer)
  <2>1. stored' = None /\ Announce(None) /\ UNCHANGED error
    BY <1>5 DEF NotRenewed
  <2>2. Screens'
    BY <1>3, <1>4, <2>1 DEF Announce, Show, Screens, Sessions
  <2> QED
    BY <1>3, <2>1, <2>2, EndsKeeps DEF Ends, Announce, Show
<1>6. CASE ~Clears(renewal.answer)
  <2>1. stored' = stored /\ Caught(Waiters, stored)
    BY <1>6 DEF NotRenewed
  <2>2. Screens' /\ (session' = session \/ (session' = None /\ stored = None))
    BY <1>3, <1>4, <2>1 DEF Caught, Hidden, Show, Screens, Sessions
  <2>3. Typed'
    BY <1>3, <1>4, <2>1, <2>2 DEF Typed, Screens, KeepsFamilies
  <2>4. \A a \in Activities : /\ Asks(a)' => Asks(a) /\ act'[a].sent = act[a].sent
                              /\ LogsOut(a)' => LogsOut(a)
    BY <1>2, <1>3, OverIsAct DEF Asks, LogsOut, Active
  <2>5. SameUser'
    <3>1. refreshing' = None
      BY <1>1 DEF Settled
    <3>2. \A t \in Tokens \cup {None} : Uses(t)' => Uses(t)
      BY <2>1, <2>4, <3>1 DEF Uses
    <3>3. stored' \in Sessions /\ crossed' = crossed
      BY <1>3, <2>3 DEF Typed
    <3> QED
      BY <1>3, <2>1, <3>2, <3>3, SameUserKept DEF SameUser
  <2>6. LogoutsEmpty' /\ Shown'
    BY <1>3, <2>1, <2>2, <2>4 DEF IInv, LogoutsEmpty, Shown
  <2> QED
    BY <1>3, <2>3, <2>5, <2>6 DEF IInv
<1> QED
  BY <1>5, <1>6

\* The server's part in it, and what the network loses of that.
LEMMA ServeRefreshKeeps ==
    ASSUME IInv, ServeRefresh \/ LoseRefresh
    PROVE  IInv'
<1>1. /\ refreshing # None
      /\ UNCHANGED <<stored, session, due, form, error, summary, unheard, refreshing, act, crossed>>
  BY DEF ServeRefresh, LoseRefresh, screen
<1>2. Typed /\ Issued /\ Screens
  BY DEF IInv, Typed
<1>3. refreshing \in Activities /\ renewal \in [token : Tokens \cup {None}, answer : Answers]
      /\ renewal.token \in Tokens /\ family[renewal.token] # None
  BY <1>1 DEF IInv, Promise
<1>4. /\ KeepsFamilies
      /\ \E how \in Answers : renewal' = [renewal EXCEPT !.answer = how]
                              /\ (how = "ok" => family'[refreshing] = family[renewal.token])
  <2>1. CASE ServeRefresh /\ renewal.token \in live
    <3>1. R!Trade(renewal.token, refreshing) /\ renewal' = [renewal EXCEPT !.answer = "ok"]
      BY <2>1 DEF ServeRefresh
    <3> QED
      BY <1>2, <1>3, <2>1, <3>1, TradeKeeps DEF Answers
  <2>2. CASE ServeRefresh /\ renewal.token \notin live
    BY <1>2, <2>2, TokensKeep DEF ServeRefresh, Answers
  <2>3. CASE LoseRefresh
    BY <1>2, <2>3, TokensKeep DEF LoseRefresh, server, Answers
  <2> QED
    BY <2>1, <2>2, <2>3
<1>5. /\ renewal' \in [token : Tokens \cup {None}, answer : Answers] /\ renewal'.token = renewal.token
      /\ renewal'.answer = "ok" => family'[refreshing] = family[renewal.token]
  BY <1>3, <1>4
<1>6. Promise'
  <2>1. Waiters' = Waiters
    BY <1>1 DEF Waiters
  <2>2. family'[renewal.token] = family[renewal.token]
    BY <1>3, <1>4 DEF KeepsFamilies
  <2> QED
    BY <1>1, <1>3, <1>5, <2>1, <2>2 DEF IInv, Promise
<1>7. OwnStages'
  BY <1>1, <1>4, NamesAssumption DEF IInv, OwnStages, KeepsFamilies, Tokens
<1>8. Typed'
  BY <1>1, <1>2, <1>4 DEF Typed, Screens, KeepsFamilies, Sessions
<1>9. SameUser'
  <2>1. CASE stored = None
    BY <1>1, <2>1 DEF SameUser
  <2>2. CASE stored # None
    <3>1. \A t \in Tokens \cup {None} : Uses(t)' => Uses(t)
      BY <1>1, <1>5 DEF Uses, Asks, Active
    <3>2. stored' \in Sessions /\ crossed' = crossed /\ stored' = stored
      BY <1>1, <1>8 DEF Typed
    <3> QED
      BY <1>4, <2>2, <3>1, <3>2, SameUserKept
  <2> QED
    BY <2>1, <2>2
<1>10. LogoutsEmpty' /\ Shown'
  BY <1>1 DEF IInv, LogoutsEmpty, LogsOut, Active, Shown
<1> QED
  BY <1>6, <1>7, <1>8, <1>9, <1>10 DEF IInv

-----------------------------------------------------------------------------
\* The steps that leave the activities and the refresh alone.

LEMMA SurroundingsKeep ==
    ASSUME IInv,
           \/ ReturnToLogin \/ StorageEvent \/ EndSessions \/ UNCHANGED vars
           \/ \E p \in Tokens : Expire(p)
    PROVE  IInv'
<1>1. UNCHANGED <<stored, refreshing, renewal, act, crossed>>
  BY DEF ReturnToLogin, StorageEvent, EndSessions, Expire, vars, promise
<1>2. Typed /\ Issued /\ Screens
  BY DEF IInv, Typed
<1>3. KeepsFamilies
  <2>1. CASE EndSessions
    BY <1>2, <2>1, CloseKeeps DEF EndSessions
  <2> QED
    BY <1>2, <2>1, TokensKeep DEF ReturnToLogin, StorageEvent, Expire, vars, server
<1>4. Screens' /\ unheard' \in BOOLEAN /\ (session' = stored' \/ (session' = session /\ unheard' = unheard))
  <2>1. CASE StorageEvent
    BY <1>2, <2>1 DEF StorageEvent, Show, Typed, Screens, Entering
  <2>2. CASE ReturnToLogin
    BY <1>2, <2>2 DEF ReturnToLogin, Typed, Screens, Entering
  <2>3. CASE EndSessions \/ UNCHANGED vars \/ \E p \in Tokens : Expire(p)
    BY <1>2, <2>3 DEF EndSessions, Expire, vars, screen, Typed, Screens
  <2> QED
    BY <2>1, <2>2, <2>3
<1>5. OwnStages' /\ Waiters' = Waiters
  BY <1>1, <1>3, NamesAssumption DEF IInv, OwnStages, Waiters, KeepsFamilies, Tokens
<1>6. Promise'
  BY <1>1, <1>3, <1>5, PromiseKept
<1>7. Typed'
  BY <1>1, <1>2, <1>3, <1>4 DEF Typed, KeepsFamilies, Sessions
<1>8. SameUser'
  <2>1. CASE stored = None
    BY <1>1, <2>1 DEF SameUser
  <2>2. CASE stored # None
    <3>1. \A t \in Tokens \cup {None} : Uses(t)' => Uses(t)
      BY <1>1 DEF Uses, Asks, Active
    <3>2. stored' \in Sessions /\ crossed' = crossed /\ stored' = stored
      BY <1>1, <1>7 DEF Typed
    <3> QED
      BY <1>3, <2>2, <3>1, <3>2, SameUserKept
  <2> QED
    BY <2>1, <2>2
<1>9. LogoutsEmpty' /\ Shown'
  BY <1>1, <1>4 DEF IInv, LogoutsEmpty, LogsOut, Active, Shown
<1> QED
  BY <1>5, <1>6, <1>7, <1>8, <1>9 DEF IInv

-----------------------------------------------------------------------------
LEMMA InitInv == Init => IInv
<1> SUFFICES ASSUME Init PROVE IInv
  OBVIOUS
<1>1. /\ stored = [tokens |-> First, user |-> First] /\ session = stored
      /\ family = [t \in Tokens |-> IF t = First THEN First ELSE None] /\ live = {First}
      /\ act = [a \in Activities |-> Idle] /\ First \in Tokens
      /\ refreshing = None /\ renewal = NoRenewal /\ crossed = {}
  BY DEF Init, R!Init, Session, Tokens
<1>2. Idle \in Acts /\ Idle.pc = "idle" /\ Idle.op = "none"
  BY DEF Idle, Acts, Ops, Stages, Answers
<1>3. family[First] = First /\ First # None
  BY <1>1, NamesAssumption
<1>4. Typed
  <2>1. Issued
    BY <1>1, <1>3 DEF Issued
  <2>2. stored \in Sessions /\ session \in Sessions
    BY <1>1 DEF Sessions
  <2>3. Screens /\ unheard \in BOOLEAN
    BY <2>2 DEF Init, Screens, Entering
  <2> QED
    BY <1>1, <1>2, <1>3, <2>1, <2>2, <2>3 DEF Typed
<1>5. \A a \in Activities : act[a] = Idle
  BY <1>1
<1>6. OwnStages /\ Promise /\ LogoutsEmpty /\ Shown
  BY <1>1, <1>2, <1>5 DEF OwnStages, Promise, Waiters, NoRenewal, Answers, LogoutsEmpty, LogsOut,
                          Shown, Entering
<1>7. SameUser
  BY <1>1, <1>2, <1>3, <1>5 DEF SameUser, Uses, Asks, Requesting
<1> QED
  BY <1>4, <1>6, <1>7 DEF IInv

LEMMA NextKeeps == IInv /\ [Next]_vars => IInv'
<1> SUFFICES ASSUME IInv, [Next]_vars PROVE IInv'
  OBVIOUS
<1>1. ASSUME NEW a \in Activities,
             \/ RunEffect(a) \/ Call(a) \/ Login(a) \/ Logout(a)
             \/ Serve(a) \/ ServeLogin(a) \/ ServeLogout(a) \/ LoseAnswer(a)
             \/ LoginElsewhere(a) \/ RefreshElsewhere(a)
             \/ Loaded(a) \/ Unreachable(a) \/ Finished(a) \/ Refresh(a) \/ GiveUp(a)
             \/ LoggedIn(a) \/ AskCode(a) \/ LoginFails(a) \/ LoginRefused(a)
             \/ Barred(a) \/ Discarded(a) \/ LoggedOut(a)
      PROVE  IInv'
  BY <1>1, StartsKeep, ServesKeep, EndingsKeep, BarredKeeps, EndingsOfSessionKeep, LoginsKeep,
     RefreshElsewhereKeeps, RefreshKeeps
<1>2. CASE ServeRefresh \/ LoseRefresh
  BY <1>2, ServeRefreshKeeps
<1>3. CASE Renewed
  BY <1>3, RenewedKeeps
<1>4. CASE NotRenewed
  BY <1>4, NotRenewedKeeps
<1>5. CASE LogoutElsewhere
  BY <1>5, LogoutElsewhereKeeps
<1>6. CASE \/ ReturnToLogin \/ StorageEvent \/ EndSessions \/ UNCHANGED vars
           \/ \E p \in Tokens : Expire(p)
  BY <1>6, SurroundingsKeep
<1> QED
  BY <1>1, <1>2, <1>3, <1>4, <1>5, <1>6 DEF Next

\* Whatever the tab, the server, the network and the other tabs do.
THEOREM DashboardInvariant == Spec => []IInv
BY InitInv, NextKeeps, PTL DEF Spec

\* The stored session and the copy on the screen are whole, the tokens in it have
\* been issued, and refreshAuthSession leaves nobody waiting for a refresh that is
\* over.
THEOREM DashboardTypeCorrect == Spec => []TypeOK
<1>1. IInv => TypeOK
  <2> SUFFICES ASSUME IInv PROVE TypeOK
    OBVIOUS
  <2>1. \A a \in Activities : act[a].pc \in Stages
    BY DEF IInv, Typed, Acts
  <2> QED
    BY <2>1 DEF IInv, Typed, Issued, Screens, Promise, TypeOK, Stages, Entering
<1> QED
  BY <1>1, DashboardInvariant, PTL

\* App.jsx shows the session that is stored as soon as nothing is on its way,
\* however many tabs there are and whatever they have done, if no login crossed a
\* logout.
THEOREM ScreenShowsStored == Spec => []ScreenIsStored
<1>1. IInv => ScreenIsStored
  BY DEF IInv, Shown, ScreenIsStored, Quiet
<1> QED
  BY <1>1, DashboardInvariant, PTL

\* The tokens that a refresh puts into the stored session are those of the user
\* whose profile stays there, if no login crossed a request.
THEOREM TokensStayTheUsers == Spec => []TokensOfUser
<1>1. IInv => TokensOfUser
  <2> SUFFICES ASSUME IInv, stored # None, crossed \cap Requesting = {}
               PROVE  family[stored.tokens] = stored.user
    BY DEF TokensOfUser
  <2> QED
    BY DEF IInv, Typed, Sessions, SameUser, Uses
<1> QED
  BY <1>1, DashboardInvariant, PTL

\* The steps after which a session is stored.
LEMMA StoresAgain ==
    ASSUME IInv, NEW a \in Activities,
           LoginElsewhere(a) \/ RefreshElsewhere(a) \/ LoggedIn(a) \/ Renewed
    PROVE  stored' # None
<1>1. a \in Tokens
  BY DEF Tokens
<1>2. stored \in Sessions /\ (Renewed => refreshing \in Tokens /\ stored # None)
  BY DEF IInv, Typed, Promise, Renewed, Continues, Tokens
<1>3. CASE LoginElsewhere(a) \/ LoggedIn(a)
  <2>1. stored' = [tokens |-> a, user |-> a]
    BY <1>3 DEF LoginElsewhere, LoggedIn, StoreLogin, Session
  <2> QED
    BY <1>1, <2>1, SessionsAssumption
<1>4. CASE RefreshElsewhere(a)
  <2>1. stored # None /\ stored' = [stored EXCEPT !.tokens = a]
    BY <1>4 DEF RefreshElsewhere
  <2>2. stored' \in [tokens : Tokens, user : Tokens]
    BY <1>1, <1>2, <2>1 DEF Sessions
  <2> QED
    BY <2>2, SessionsAssumption
<1>5. CASE Renewed
  <2>1. stored' = [stored EXCEPT !.tokens = refreshing]
    BY <1>2, <1>5 DEF Renewed
  <2>2. stored' \in [tokens : Tokens, user : Tokens]
    BY <1>2, <1>5, <2>1 DEF Sessions
  <2> QED
    BY <2>2, SessionsAssumption
<1> QED
  BY <1>3, <1>4, <1>5

\* What clearStoredSession is called for: a logout, a refused login, or tokens of
\* this very session that the server has refused.  Neither a request that fails
\* nor a refresh that does, nor another session's, ends it.
THEOREM SessionsEndForCause == Spec => EndsForCause
<1> DEFINE Cause == \/ LogoutElsewhere \/ \E a \in Activities : Logout(a) \/ LoginRefused(a)
                    \/ \E a \in Activities : Refused(a) /\ family[act[a].sent] = stored.user
                    \/ renewal.answer = "refused" /\ family[renewal.token] = stored.user
<1>1. IInv /\ [Next]_vars => [stored # None /\ stored' = None /\ crossed \cap Requesting = {} => Cause]_vars
  <2> SUFFICES ASSUME IInv, Next, stored # None, stored' = None, crossed \cap Requesting = {}
               PROVE  Cause
    OBVIOUS
  <2>1. \A t \in Tokens \cup {None} : Uses(t) => family[t] = stored.user
    BY DEF IInv, SameUser
  <2>2. \/ LogoutElsewhere \/ NotRenewed \/ Renewed
        \/ \E a \in Activities : \/ Logout(a) \/ LoginRefused(a) \/ GiveUp(a)
                                 \/ LoginElsewhere(a) \/ RefreshElsewhere(a) \/ LoggedIn(a)
    BY DEF Next, RunEffect, Call, Login, Serve, ServeLogin, ServeLogout, LoseAnswer, Loaded,
           Unreachable, Finished, Refresh, AskCode, LoginFails, Barred, Discarded, LoggedOut,
           ReturnToLogin, ServeRefresh, LoseRefresh, StorageEvent, EndSessions, Expire
  <2>3. ASSUME NEW a \in Activities, GiveUp(a)
        PROVE  Refused(a) /\ family[act[a].sent] = stored.user
    <3>1. Refused(a) /\ Asks(a)
      BY <2>3 DEF GiveUp, Refused, Answered, Asks, Active, Requesting
    <3>2. act[a].sent \in Tokens \cup {None}
      BY DEF IInv, Typed, Acts
    <3> QED
      BY <2>1, <3>1, <3>2 DEF Uses
  <2>4. ASSUME NotRenewed
        PROVE  renewal.answer = "refused" /\ family[renewal.token] = stored.user
    <3>1. refreshing # None /\ renewal.answer = "refused"
      BY <2>4 DEF NotRenewed, Clears
    <3>2. renewal.token \in Tokens /\ Uses(renewal.token)
      BY <3>1 DEF IInv, Promise, Uses
    <3> QED
      BY <2>1, <3>1, <3>2
  <2>5. ~Renewed
    <3> SUFFICES ASSUME Renewed PROVE FALSE
      OBVIOUS
    <3>1. refreshing \in Activities
      BY DEF IInv, Promise, Renewed
    <3> QED
      BY <3>1, StoresAgain
  <2> QED
    BY <2>2, <2>3, <2>4, <2>5, StoresAgain
<1>2. Spec => [][stored # None /\ stored' = None /\ crossed \cap Requesting = {} => Cause]_vars
  BY <1>1, DashboardInvariant, PTL DEF Spec
<1> QED
  BY <1>2 DEF EndsForCause
=============================================================================
