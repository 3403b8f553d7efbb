------------------------------- MODULE Client -------------------------------
(***************************************************************************)
(* The session of the customers' frontend: a pair of tokens that every tab *)
(* of a browser reads from the same storage, renews on a 401 and gives up  *)
(* at a logout.  Each activity of a tab (a call of the API, a login, a     *)
(* logout) is made at most once; what runs between two awaits is one step. *)
(* The server's side is Rotation, which Sessions implements.  A pair of    *)
(* tokens is named after the activity whose login or refresh obtained it.  *)
(***************************************************************************)
CONSTANTS
    Tabs,
    Activities,
    First,       \* the pair that is stored at the start
    None         \* no pair

ASSUME NamesAssumption == First # None /\ None \notin Activities /\ First \notin Activities

Tokens == Activities \cup {First}

VARIABLES
    family, live,   \* the refresh tokens as the server knows them
    expired,        \* the access tokens that the guard refuses
    stored,         \* the pair in the storage that the tabs share
    refreshing,     \* refreshPromise of each tab: the activity that performs it
    call,           \* what each activity is and its tab
    pc,             \* the await each activity is at
    sent,           \* the pair its request carries
    answer,         \* what has come back for that request
    attempted,      \* the pair that was stored at its first 401
    renewal         \* the refresh request it performs: its token, its answer

server == <<family, live>>
tab == <<call, pc, sent, answer, attempted, renewal>>
vars == <<family, live, expired, stored, refreshing, call, pc, sent, answer, attempted, renewal>>

R == INSTANCE Rotation

NoRenewal == [token |-> None, answer |-> "none"]

Init ==
    /\ R!Init
    /\ expired = {}
    /\ stored = First
    /\ refreshing = [t \in Tabs |-> None]
    /\ call \in [Activities -> [op : {"call", "login", "logout"}, tab : Tabs]]
    /\ pc = [a \in Activities |-> "idle"]
    /\ sent = [a \in Activities |-> None]
    /\ answer = [a \in Activities |-> "none"]
    /\ attempted = [a \in Activities |-> None]
    /\ renewal = [a \in Activities |-> NoRenewal]

(***************************************************************************)
(* When a tab's refresh settles, the activities that await it continue     *)
(* before the tab does anything else.                                      *)
(***************************************************************************)
Free(t) == \A a \in Activities : call[a].tab = t => pc[a] \notin {"again", "rejected"}

At(a, op, stage) == call[a].op = op /\ pc[a] = stage /\ Free(call[a].tab)

Goto(a, stage) == pc' = [pc EXCEPT ![a] = stage]

Send(a, pair) ==
    /\ sent' = [sent EXCEPT ![a] = pair]
    /\ answer' = [answer EXCEPT ![a] = "none"]
    /\ Goto(a, "sent")

\* An answer for which nobody waits any more comes too late.
InTime(came, what) == IF came = "failed" THEN "failed" ELSE what

Comes(a, what) ==
    /\ pc[a] # "idle" /\ answer[a] \in {"none", "failed"}
    /\ answer' = [answer EXCEPT ![a] = InTime(@, what)]

-----------------------------------------------------------------------------
\* What tabs start.  The pages call the API only while there is a session.

Call(a) ==
    /\ At(a, "call", "idle") /\ stored # None
    /\ Send(a, stored)
    /\ UNCHANGED <<server, expired, stored, refreshing, call, attempted, renewal>>

Login(a) ==
    /\ At(a, "login", "idle")
    /\ Send(a, None)
    /\ UNCHANGED <<server, expired, stored, refreshing, call, attempted, renewal>>

\* "Local logout is authoritative even when the server is unavailable."
Logout(a) ==
    /\ At(a, "logout", "idle") /\ stored # None
    /\ stored' = None
    /\ Send(a, stored)
    /\ UNCHANGED <<server, expired, refreshing, call, attempted, renewal>>

-----------------------------------------------------------------------------
\* The server, and the network on the way back.

ServeCall(a) ==
    /\ call[a].op = "call" /\ pc[a] = "sent"
    /\ Comes(a, IF sent[a] \in expired THEN "refused" ELSE "ok")
    /\ UNCHANGED <<server, expired, stored, refreshing, call, pc, sent, attempted, renewal>>

ServeLogin(a) ==
    /\ call[a].op = "login"
    /\ Comes(a, "ok")
    /\ R!Open(a)
    /\ UNCHANGED <<expired, stored, refreshing, call, pc, sent, attempted, renewal>>

ServeLogout(a) ==
    /\ call[a].op = "logout"
    /\ Comes(a, "ok")
    /\ R!Close({sent[a]} \cap live)
    /\ UNCHANGED <<expired, stored, refreshing, call, pc, sent, attempted, renewal>>

Renewed(a, what) ==
    renewal' = [renewal EXCEPT ![a] = [token |-> @.token, answer |-> what]]

ServeRefresh(a) ==
    /\ renewal[a].token # None /\ renewal[a].answer \in {"none", "failed"}
    /\ IF renewal[a].token \in live
       THEN /\ R!Trade(renewal[a].token, a)
            /\ Renewed(a, InTime(renewal[a].answer, "ok"))
       ELSE /\ Renewed(a, InTime(renewal[a].answer, "refused"))
            /\ UNCHANGED server
    /\ UNCHANGED <<expired, stored, refreshing, call, pc, sent, answer, attempted>>

\* No answer arrives, or none before the timeout, whether the server has done
\* what it was asked to, never does it or does it later.
LoseAnswer(a) ==
    /\ pc[a] = "sent" /\ answer[a] # "failed"
    /\ answer' = [answer EXCEPT ![a] = "failed"]
    /\ UNCHANGED <<server, expired, stored, refreshing, call, pc, sent, attempted, renewal>>

LoseRefresh(a) ==
    /\ refreshing[call[a].tab] = a /\ renewal[a].answer # "failed"
    /\ Renewed(a, "failed")
    /\ UNCHANGED <<server, expired, stored, refreshing, call, pc, sent, answer, attempted>>

Expire(p) ==
    /\ family[p] # None /\ p \notin expired
    /\ expired' = expired \cup {p}
    /\ UNCHANGED <<server, stored, refreshing, tab>>

\* Somebody changes the password or revokes sessions, or refresh tokens expire.
EndSessions ==
    /\ \E closed \in SUBSET live : closed # {} /\ R!Close(closed)
    /\ UNCHANGED <<expired, stored, refreshing, tab>>

-----------------------------------------------------------------------------
\* Answers.  Only a 401 has any effect on the session.

Finished(a) ==
    /\ At(a, "call", "sent") /\ answer[a] \in {"ok", "failed"}
    /\ Goto(a, "done")
    /\ UNCHANGED <<server, expired, stored, refreshing, call, sent, answer, attempted, renewal>>

LoggedIn(a) ==
    /\ At(a, "login", "sent") /\ answer[a] # "none"
    /\ stored' = IF answer[a] = "ok" THEN a ELSE stored
    /\ Goto(a, "done")
    /\ UNCHANGED <<server, expired, refreshing, call, sent, answer, attempted, renewal>>

LoggedOut(a) ==
    /\ At(a, "logout", "sent") /\ answer[a] # "none"
    /\ Goto(a, "done")
    /\ UNCHANGED <<server, expired, stored, refreshing, call, sent, answer, attempted, renewal>>

Refused(a) == At(a, "call", "sent") /\ answer[a] = "refused"

\* A request that was retried already, or whose session has gone meanwhile: the
\* session that is stored now is expired.
GiveUp(a) ==
    /\ Refused(a) /\ (attempted[a] # None \/ stored = None)
    /\ stored' = None
    /\ Goto(a, "done")
    /\ UNCHANGED <<server, expired, refreshing, call, sent, answer, attempted, renewal>>

Performer_Anew(a) == a

\* refreshPromise ??= performRefresh(): the tab's refresh is joined if there is one.
Performer(a) == IF refreshing[call[a].tab] = None THEN a ELSE refreshing[call[a].tab]

Refresh(a) ==
    /\ Refused(a) /\ attempted[a] = None /\ stored # None
    /\ attempted' = [attempted EXCEPT ![a] = stored]
    /\ refreshing' = [refreshing EXCEPT ![call[a].tab] = Performer(a)]
    /\ renewal' = IF Performer(a) = a
                  THEN [renewal EXCEPT ![a] = [token |-> stored, answer |-> "none"]]
                  ELSE renewal
    /\ Goto(a, "waiting")
    /\ UNCHANGED <<server, expired, stored, call, sent, answer>>

-----------------------------------------------------------------------------
\* The end of performRefresh, and the activities that awaited it.

StillStored_Any(a) == stored # None

\* "A logout or a newer login may have happened while the refresh was pending."
StillStored(a) == stored = renewal[a].token

Resolved_Unchecked(a) == IF StillStored(a) THEN a ELSE stored

\* The session that the promise resolves to.
Resolved(a) ==
    IF renewal[a].answer # "ok" THEN None
    ELSE IF StillStored(a) THEN a ELSE stored

Waiters(t) == {a \in Activities : call[a].tab = t /\ pc[a] = "waiting"}

Settle(t) ==
    LET a == refreshing[t] IN
    /\ a # None /\ renewal[a].answer # "none" /\ Free(t)
    /\ refreshing' = [refreshing EXCEPT ![t] = None]
    /\ stored' = IF Resolved(a) = a THEN a ELSE stored
    /\ pc' = [w \in Activities |->
                 IF w \notin Waiters(t) THEN pc[w]
                 ELSE IF Resolved(a) = None THEN "rejected" ELSE "again"]
    /\ sent' = [w \in Activities |-> IF w \in Waiters(t) THEN Resolved(a) ELSE sent[w]]
    /\ answer' = [w \in Activities |->
                     IF w \in Waiters(t) THEN renewal[a].answer ELSE answer[w]]
    /\ UNCHANGED <<server, expired, call, attempted, renewal>>

\* The interceptor puts the pair that is stored now in place of the resolved one.
Retry(a) ==
    /\ pc[a] = "again"
    /\ Send(a, IF stored = None THEN sent[a] ELSE stored)
    /\ UNCHANGED <<server, expired, stored, refreshing, call, attempted, renewal>>

\* expireSession(message, attemptedRefreshToken)
Reject(a) ==
    /\ pc[a] = "rejected"
    /\ stored' = IF stored = attempted[a] THEN None ELSE stored
    /\ Goto(a, "done")
    /\ UNCHANGED <<server, expired, refreshing, call, sent, answer, attempted, renewal>>

-----------------------------------------------------------------------------
Next ==
    \/ \E a \in Activities :
          \/ Call(a) \/ Login(a) \/ Logout(a)
          \/ ServeCall(a) \/ ServeLogin(a) \/ ServeLogout(a) \/ ServeRefresh(a)
          \/ LoseAnswer(a) \/ LoseRefresh(a)
          \/ Finished(a) \/ LoggedIn(a) \/ LoggedOut(a)
          \/ GiveUp(a) \/ Refresh(a) \/ Retry(a) \/ Reject(a)
    \/ \E t \in Tabs : Settle(t)
    \/ \E p \in Tokens : Expire(p)
    \/ EndSessions

Spec == Init /\ [][Next]_vars

-----------------------------------------------------------------------------
\* Properties.

\* Every variable keeps to its columns' types; live tokens have been issued.
Columns ==
    /\ family \in [Tokens -> Tokens \cup {None}]
    /\ live \subseteq Tokens /\ \A t \in live : family[t] # None
    /\ renewal \in [Activities -> [token : Tokens \cup {None},
                                   answer : {"none", "ok", "refused", "failed"}]]
    /\ stored \in Tokens \cup {None}
    /\ sent \in [Activities -> Tokens \cup {None}]
    /\ refreshing \in [Tabs -> Activities \cup {None}]
    /\ call \in [Activities -> [op : {"call", "login", "logout"}, tab : Tabs]]

\* Pairs are in the storage and with activities only once the server has issued
\* them, and an activity waits exactly for the refresh that its tab performs.
TypeOK ==
    /\ Columns
    /\ stored # None => family[stored] # None
    /\ expired \subseteq {p \in Tokens : family[p] # None}
    /\ \A a \in Activities :
          /\ sent[a] # None => family[sent[a]] # None
          /\ answer[a] \in {"none", "ok", "refused", "failed"}
          /\ pc[a] \in {"idle", "sent", "waiting", "again", "rejected", "done"}
          /\ pc[a] = "waiting" => refreshing[call[a].tab] # None
    /\ \A t \in Tabs :
          refreshing[t] # None =>
              /\ call[refreshing[t]].tab = t /\ pc[refreshing[t]] = "waiting"
              /\ family[renewal[refreshing[t]].token] # None

\* A logout or a newer login wins over every refresh and call that is under way
\* in any tab: only a login starts a session, and only a refresh of the session
\* that is stored replaces its tokens.
NewestLoginStays ==
    [][stored' # stored /\ stored' # None =>
          \/ \E a \in Activities : LoggedIn(a) /\ stored' = a
          \/ stored # None /\ family[stored'] = family[stored]]_vars

\* One tab never presents a refresh token twice, however many of its calls are
\* refused at once and whatever answers are lost: the server would take the
\* second for a reuse and refuse it.
PresentedOnce ==
    \A a, b \in Activities :
        /\ call[a].tab = call[b].tab
        /\ renewal[a].token # None /\ renewal[a].token = renewal[b].token
        => a = b

\* The inductive invariant behind NewestLoginStays: a refresh that the server has
\* answered gave a pair of the same login as the one presented.
RenewalsKeepLogin ==
    \A a \in Activities : renewal[a].answer = "ok" =>
        /\ renewal[a].token \in Tokens
        /\ family[renewal[a].token] # None
        /\ family[a] = family[renewal[a].token]

IInv == Columns /\ RenewalsKeepLogin

\* What PresentedOnce rests on.  A pair is in the storage for one spell only: it
\* gets there when its login is answered or its refresh settles.
Fresh(a) ==
    \/ call[a].op = "login" /\ pc[a] # "done"
    \/ call[a].op # "login" /\ renewal[a].token = None
    \/ refreshing[call[a].tab] = a

StoredForOneSpell ==
    \A a \in Activities : Fresh(a) =>
        /\ stored # a
        /\ \A b \in Activities : renewal[b].token # a

\* An activity performs at most one refresh, of the pair stored at its first 401.
OneRefreshEach ==
    /\ \A a \in Activities : renewal[a].token # None =>
          /\ renewal[a].token = attempted[a]
          /\ family[renewal[a].token] # None
          /\ call[a].op = "call"
    /\ \A t \in Tabs : refreshing[t] # None => renewal[refreshing[t]].token # None

\* A pair whose refresh is over is not stored, unless the activity that performed
\* it is about to give that pair up.
GivenUp ==
    \A a \in Activities :
        /\ renewal[a].token # None /\ stored = renewal[a].token
        => refreshing[call[a].tab] = a \/ pc[a] = "rejected"

Answered ==
    /\ pc \in [Activities -> {"idle", "sent", "waiting", "again", "rejected", "done"}]
    /\ answer \in [Activities -> {"none", "ok", "refused", "failed"}]
    /\ attempted \in [Activities -> Tokens \cup {None}]
    /\ \A a \in Activities :
          /\ call[a].op = "login" /\ answer[a] = "ok" => family[a] # None
          /\ pc[a] = "waiting" => call[a].op = "call"

TabsInv ==
    /\ IInv /\ TypeOK /\ Answered
    /\ StoredForOneSpell /\ OneRefreshEach /\ GivenUp /\ PresentedOnce

=============================================================================
