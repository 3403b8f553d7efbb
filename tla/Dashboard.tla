----------------------------- MODULE Dashboard -----------------------------
(***************************************************************************)
(* One tab of the analysts' dashboard: the session in the browser's        *)
(* storage, the copy of it that App.jsx shows, its login form, its         *)
(* overview, and the requests that api.js makes, refreshes and retries.    *)
(* Other tabs change the storage too, and a storage event tells this one.  *)
(*                                                                         *)
(* As in Client, a pair of tokens is named after the activity that         *)
(* obtained it and the server's side is Rotation.  What runs between two   *)
(* awaits is one step.  The five requests of a load are one: the first     *)
(* refusal decides.                                                        *)
(***************************************************************************)
CONSTANTS
    Activities,  \* what the tab does: each is made at most once
    First,       \* the pair that is stored at the start
    None

ASSUME NamesAssumption == First # None /\ None \notin Activities /\ First \notin Activities

Tokens == Activities \cup {First}

ASSUME SessionsAssumption == None \notin [tokens : Tokens, user : Tokens]

VARIABLES
    family, live, expired,  \* the server's tokens, as in Client
    stored,      \* the stored session: its tokens, the login of its profile; or None
    session,     \* App's copy of it
    due,         \* the effect on [session] is to run
    unheard,     \* a storage event is on its way
    form,        \* LoginPage: "password", "code", or the activity it waits for
    error, summary,   \* App: the error is shown, there is data to show
    refreshing, renewal,  \* refreshPromise: who awaits it first, token and answer
    act,         \* the activities
    crossed      \* history: what was under way when a login was stored

server  == <<family, live, expired>>
screen  == <<session, due, form, error, summary>>
promise == <<refreshing, renewal>>
vars == <<server, stored, screen, unheard, promise, act, crossed>>

R == INSTANCE Rotation

Session(tokens, user) == [tokens |-> tokens, user |-> user]
NoRenewal == [token |-> None, answer |-> "none"]
Idle == [op |-> "none", pc |-> "idle", sent |-> None, answer |-> "none", retried |-> FALSE]

Init ==
    /\ R!Init /\ expired = {}
    /\ stored = Session(First, First)
    /\ session = stored /\ due = TRUE /\ unheard = FALSE
    /\ form = "password" /\ error = FALSE /\ summary = FALSE
    /\ refreshing = None /\ renewal = NoRenewal
    /\ act = [a \in Activities |-> Idle]
    /\ crossed = {}

-----------------------------------------------------------------------------
\* Activities and the screen.

Sending(a, op, tokens, again) ==
    act' = [act EXCEPT ![a] = [op |-> op, pc |-> "sent", sent |-> tokens,
                               answer |-> "none", retried |-> again]]

Started(a, op) == act[a].pc = "idle" /\ Sending(a, op, IF stored = None THEN None ELSE stored.tokens, FALSE)

Goto(a, stage) == act' = [act EXCEPT ![a].pc = stage]

Over == [Idle EXCEPT !.pc = "done"]

End(a) == act' = [act EXCEPT ![a] = Over]

UnderWay == {a \in Activities : act[a].pc \notin {"idle", "done"}}

\* setSession: the effect follows; without a session the login form is mounted
\* anew, or stays.
Show(s) ==
    /\ session' = s
    /\ due' = (s # None)
    /\ form' = IF s # None THEN "password" ELSE form

Hidden == UNCHANGED <<session, due, form>>

Announce_Silent(s) == Hidden

\* saveStoredSession, clearStoredSession: AUTH_SESSION_EVENT, synchronizeSession.
Announce(s) == Show(s)

StoreLogin_TokensOnly(a) ==
    /\ stored' = IF stored = None THEN Session(a, a) ELSE [stored EXCEPT !.tokens = a]
    /\ crossed' = crossed \cup {act[b].op : b \in UnderWay \ {a}}

\* A login is stored, here or in another tab.
StoreLogin(a) ==
    /\ stored' = Session(a, a)
    /\ crossed' = crossed \cup {act[b].op : b \in UnderWay \ {a}}

-----------------------------------------------------------------------------
\* What the tab does.

\* The effect on [session]: loadDashboard, which first takes the error away.
RunEffect(a) ==
    /\ due /\ session # None
    /\ Started(a, "load")
    /\ due' = FALSE /\ error' = FALSE
    /\ UNCHANGED <<server, stored, session, form, summary, unheard, promise, crossed>>

\* A page's request.  Reports are fetched without the wrapper, and no answer
\* to them has an effect here.
Call(a) ==
    /\ session # None
    /\ Started(a, "call")
    /\ UNCHANGED <<server, stored, screen, unheard, promise, crossed>>

Login(a) ==
    /\ session = None /\ form \in {"password", "code"}
    /\ act[a].pc = "idle"
    /\ Sending(a, form, None, FALSE)
    /\ form' = a
    /\ UNCHANGED <<server, stored, session, due, error, summary, unheard, promise, crossed>>

ReturnToLogin ==
    /\ session = None /\ form = "code"
    /\ form' = "password"
    /\ UNCHANGED <<server, stored, session, due, error, summary, unheard, promise, act, crossed>>

\* handleLogout up to its await.
Logout(a) ==
    /\ session # None
    /\ Started(a, "logout")
    /\ stored' = None
    /\ Announce(None)
    /\ UNCHANGED <<server, error, summary, unheard, promise, crossed>>

-----------------------------------------------------------------------------
\* The server and the network.  An answer that nobody waits for comes too late.

Comes(a, what) ==
    /\ act[a].pc = "sent" /\ act[a].answer = "none"
    /\ act' = [act EXCEPT ![a].answer = what]

Serve(a) ==
    /\ act[a].op \in {"load", "call"}
    /\ Comes(a, IF act[a].sent \in expired \cup {None} THEN "refused" ELSE "ok")
    /\ UNCHANGED <<server, stored, screen, unheard, promise, crossed>>

\* A password may ask for a code; a role that has no business here gets tokens.
ServeLogin(a) ==
    /\ act[a].op \in {"password", "code"}
    /\ \/ \E how \in {"ok", "barred"} : Comes(a, how) /\ R!Open(a)
       \/ Comes(a, "refused") /\ UNCHANGED <<family, live>>
       \/ act[a].op = "password" /\ Comes(a, "mfaRequired") /\ UNCHANGED <<family, live>>
    /\ UNCHANGED <<expired, stored, screen, unheard, promise, crossed>>

ServeLogout(a) ==
    /\ act[a].op = "logout"
    /\ Comes(a, "ok")
    /\ R!Close({act[a].sent} \cap live)
    /\ UNCHANGED <<expired, stored, screen, unheard, promise, crossed>>

ServeRefresh ==
    /\ refreshing # None /\ renewal.answer = "none"
    /\ IF renewal.token \in live
       THEN R!Trade(renewal.token, refreshing) /\ renewal' = [renewal EXCEPT !.answer = "ok"]
       ELSE renewal' = [renewal EXCEPT !.answer = "refused"] /\ UNCHANGED <<family, live>>
    /\ UNCHANGED <<expired, stored, screen, unheard, refreshing, act, crossed>>

\* fetch throws, before or after the server has done its part.
LoseAnswer(a) ==
    /\ act[a].pc = "sent" /\ act[a].answer # "failed"
    /\ act' = [act EXCEPT ![a].answer = "failed"]
    /\ UNCHANGED <<server, stored, screen, unheard, promise, crossed>>

LoseRefresh ==
    /\ refreshing # None /\ renewal.answer # "failed"
    /\ renewal' = [renewal EXCEPT !.answer = "failed"]
    /\ UNCHANGED <<server, stored, screen, unheard, refreshing, act, crossed>>

\* Time passes: an access token that somebody may still send is refused.
Expire(p) ==
    /\ p \notin expired
    /\ \/ stored # None /\ p = stored.tokens
       \/ \E a \in UnderWay : p = act[a].sent
    /\ expired' = expired \cup {p}
    /\ UNCHANGED <<family, live, stored, screen, unheard, promise, act, crossed>>

EndSessions ==
    /\ live # {} /\ R!Close(live)
    /\ UNCHANGED <<expired, stored, screen, unheard, promise, act, crossed>>

-----------------------------------------------------------------------------
\* Other tabs.

LoginElsewhere(a) ==
    /\ act[a].pc = "idle" /\ R!Open(a)
    /\ StoreLogin(a)
    /\ End(a)
    /\ unheard' = TRUE
    /\ UNCHANGED <<expired, screen, promise>>

LogoutElsewhere ==
    /\ stored # None
    /\ R!Close({stored.tokens} \cap live)
    /\ stored' = None /\ unheard' = TRUE
    /\ UNCHANGED <<expired, screen, promise, act, crossed>>

RefreshElsewhere(a) ==
    /\ act[a].pc = "idle" /\ stored # None /\ stored.tokens \in live
    /\ R!Trade(stored.tokens, a)
    /\ stored' = [stored EXCEPT !.tokens = a]
    /\ End(a)
    /\ unheard' = TRUE
    /\ UNCHANGED <<expired, screen, promise, crossed>>

StorageEvent ==
    /\ unheard /\ unheard' = FALSE
    /\ Show(stored)
    /\ UNCHANGED <<server, stored, error, summary, promise, act, crossed>>

-----------------------------------------------------------------------------
\* Answers.

Answered(a, op, how) == act[a].op = op /\ act[a].pc = "sent" /\ act[a].answer = how

Loaded(a) ==
    /\ Answered(a, "load", "ok")
    /\ summary' = TRUE
    /\ End(a)
    /\ UNCHANGED <<server, stored, session, due, form, error, unheard, promise, crossed>>

\* The catch of loadDashboard, for the loads among those that failed.
Caught(failed, left) ==
    IF \E a \in failed : act[a].op = "load"
    THEN IF left = None THEN Show(None) /\ UNCHANGED error
         ELSE Hidden /\ error' = TRUE
    ELSE Hidden /\ UNCHANGED error

Unreachable(a) ==
    /\ act[a].pc = "sent" /\ act[a].answer = "failed" /\ act[a].op \in {"load", "call"}
    /\ Caught({a}, stored)
    /\ End(a)
    /\ UNCHANGED <<server, stored, summary, unheard, promise, crossed>>

Finished(a) ==
    /\ Answered(a, "call", "ok")
    /\ End(a)
    /\ UNCHANGED <<server, stored, screen, unheard, promise, crossed>>

Refused(a) == \E op \in {"load", "call"} : Answered(a, op, "refused")

\* refreshAuthSession: joins the refresh that is under way.
Performer(a) == IF refreshing = None THEN a ELSE refreshing

Refresh(a) ==
    /\ Refused(a) /\ ~act[a].retried /\ stored # None
    /\ refreshing' = Performer(a)
    /\ renewal' = IF Performer(a) = a THEN [token |-> stored.tokens, answer |-> "none"] ELSE renewal
    /\ Goto(a, "waiting")
    /\ UNCHANGED <<server, stored, screen, unheard, crossed>>

\* A 401 for good: whatever session is stored goes.
GiveUp(a) ==
    /\ Refused(a) /\ (act[a].retried \/ stored = None)
    /\ stored' = None
    /\ Announce(None)
    /\ UNCHANGED error
    /\ End(a)
    /\ UNCHANGED <<server, summary, unheard, promise, crossed>>

Waiters == {a \in Activities : act[a].pc = "waiting"}

Settled(after) ==
    /\ refreshing # None /\ refreshing' = None /\ renewal' = NoRenewal
    /\ act' = [a \in Activities |-> IF a \in Waiters THEN after[a] ELSE act[a]]
    /\ UNCHANGED <<server, summary, unheard, crossed>>

Continues_Unchecked == renewal.answer = "ok"

\* "The session ended while refreshing" otherwise.
Continues == renewal.answer = "ok" /\ stored # None

\* The tokens go into the session that is stored now; everyone tries again.
Renewed ==
    LET new == IF stored = None THEN Session(refreshing, None)
               ELSE [stored EXCEPT !.tokens = refreshing] IN
    /\ refreshing # None /\ Continues
    /\ stored' = new
    /\ Announce(new)
    /\ UNCHANGED error
    /\ Settled([a \in Activities |->
                  [act[a] EXCEPT !.pc = "sent", !.sent = refreshing,
                                 !.answer = "none", !.retried = TRUE]])

Clears_Always(how) == TRUE

\* Only an answer of the server ends the session.
Clears(how) == how = "refused"

NotRenewed ==
    /\ refreshing # None /\ renewal.answer # "none" /\ ~Continues
    /\ IF Clears(renewal.answer)
       THEN stored' = None /\ Announce(None) /\ UNCHANGED error
       ELSE UNCHANGED stored /\ Caught(Waiters, stored)
    /\ Settled([a \in Activities |-> Over])

\* The form's activity fails: it may be tried again, if it is still mounted.
FormFails(a) == form' = IF form = a THEN act[a].op ELSE form

LoggedIn(a) ==
    /\ \E op \in {"password", "code"} : Answered(a, op, "ok")
    /\ StoreLogin(a)
    /\ Show(Session(a, a)) /\ error' = FALSE
    /\ End(a)
    /\ UNCHANGED <<server, summary, unheard, promise>>

AskCode(a) ==
    /\ Answered(a, "password", "mfaRequired")
    /\ form' = IF form = a THEN "code" ELSE form
    /\ End(a)
    /\ UNCHANGED <<server, stored, session, due, error, summary, unheard, promise, crossed>>

LoginFails(a) ==
    /\ \E op \in {"password", "code"} : Answered(a, op, "failed")
    /\ FormFails(a)
    /\ End(a)
    /\ UNCHANGED <<server, stored, session, due, error, summary, unheard, promise, crossed>>

\* apiRequest clears the storage after any 401, one for a wrong password included.
LoginRefused(a) ==
    /\ \E op \in {"password", "code"} : Answered(a, op, "refused")
    /\ stored' = None
    /\ session' = None /\ due' = FALSE
    /\ FormFails(a)
    /\ End(a)
    /\ UNCHANGED <<server, error, summary, unheard, promise, crossed>>

\* The tokens of a role that is not allowed are handed back before the form says so.
Barred(a) ==
    /\ \E op \in {"password", "code"} : Answered(a, op, "barred")
    /\ Goto(a, "discarding")
    /\ UNCHANGED <<server, stored, screen, unheard, promise, crossed>>

Discarded(a) ==
    /\ act[a].pc = "discarding"
    /\ \E served \in BOOLEAN :
          R!Close(IF served THEN {a} \cap live ELSE {}) /\ UNCHANGED expired
    /\ FormFails(a)
    /\ End(a)
    /\ UNCHANGED <<stored, session, due, error, summary, unheard, promise, crossed>>

\* handleLogout after its await: setSession(null), whoever has come meanwhile.
LoggedOut(a) ==
    /\ \E how \in {"ok", "failed"} : Answered(a, "logout", how)
    /\ Show(None)
    /\ End(a)
    /\ UNCHANGED <<server, stored, error, summary, unheard, promise, crossed>>

-----------------------------------------------------------------------------
Next ==
    \/ \E a \in Activities :
          \/ RunEffect(a) \/ Call(a) \/ Login(a) \/ Logout(a)
          \/ Serve(a) \/ ServeLogin(a) \/ ServeLogout(a) \/ LoseAnswer(a)
          \/ LoginElsewhere(a) \/ RefreshElsewhere(a)
          \/ Loaded(a) \/ Unreachable(a) \/ Finished(a) \/ Refresh(a) \/ GiveUp(a)
          \/ LoggedIn(a) \/ AskCode(a) \/ LoginFails(a) \/ LoginRefused(a) \/ Barred(a) \/ Discarded(a)
          \/ LoggedOut(a)
    \/ ReturnToLogin \/ ServeRefresh \/ LoseRefresh \/ Renewed \/ NotRenewed
    \/ LogoutElsewhere \/ StorageEvent \/ EndSessions
    \/ \E p \in Tokens : Expire(p)

Spec == Init /\ [][Next]_vars

-----------------------------------------------------------------------------
\* Properties.

Sessions == [tokens : Tokens, user : Tokens] \cup {None}

\* Sessions are whole, tokens have been issued, and everyone who waits for the
\* refresh is woken by it.
TypeOK ==
    /\ stored \in Sessions /\ session \in Sessions
    /\ due \in BOOLEAN /\ unheard \in BOOLEAN /\ error \in BOOLEAN /\ summary \in BOOLEAN
    /\ form \in {"password", "code"} \cup Activities
    /\ live \subseteq Tokens /\ \A t \in live : family[t] # None
    /\ stored # None => family[stored.tokens] # None
    /\ refreshing = None <=> Waiters = {}
    /\ \A a \in Activities : act[a].pc \in {"idle", "sent", "waiting", "discarding", "done"}

Quiet == UnderWay = {} /\ ~due /\ ~unheard

\* When nothing is under way the screen shows the session that is stored, in
\* whatever tab and order sessions came and went, unless somebody logged in
\* before the logout of an earlier session was answered.
ScreenIsStored == Quiet /\ "logout" \notin crossed => session = stored

Requesting == {"load", "call"}

\* The stored tokens are those of the user whose profile is stored with them,
\* unless somebody logged in while requests of an earlier session were under way.
TokensOfUser ==
    stored # None /\ crossed \cap Requesting = {} => family[stored.tokens] = stored.user

\* A session ends by a logout, by a login that is refused in this tab, or because
\* the server has refused one of its own tokens: an outage ends none.  The
\* exception is as before.
EndsForCause ==
    [][stored # None /\ stored' = None /\ crossed \cap Requesting = {} =>
          \/ LogoutElsewhere \/ \E a \in Activities : Logout(a) \/ LoginRefused(a)
          \/ \E a \in Activities : Refused(a) /\ family[act[a].sent] = stored.user
          \/ renewal.answer = "refused" /\ family[renewal.token] = stored.user]_vars
=============================================================================
