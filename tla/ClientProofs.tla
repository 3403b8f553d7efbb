---------------------------- MODULE ClientProofs ----------------------------
(***************************************************************************)
(* In any number of tabs and activities, only a login starts a session: no *)
(* refresh or call that is under way brings an earlier one back.           *)
(* A tab presents each refresh token to the server at most once.           *)
(***************************************************************************)
EXTENDS Client, TLAPS

LEMMA InitInvariant == Init => IInv
BY NamesAssumption
DEF Init, IInv, Columns, RenewalsKeepLogin, R!Init, Tokens, NoRenewal

-----------------------------------------------------------------------------
\* What the server does to the families of tokens: those issued keep theirs.

KeepsFamilies ==
    /\ family' \in [Tokens -> Tokens \cup {None}]
    /\ \A t \in Tokens : family[t] # None => family'[t] = family[t]
    /\ live' \subseteq Tokens /\ \A t \in live' : family'[t] # None

LEMMA OpenKeeps ==
    ASSUME Columns, NEW a \in Activities, R!Open(a)
    PROVE  KeepsFamilies
BY NamesAssumption DEF Columns, KeepsFamilies, R!Open, R!Issue, Tokens

LEMMA TradeKeeps ==
    ASSUME Columns, NEW a \in Activities, NEW t \in live, R!Trade(t, a)
    PROVE  KeepsFamilies /\ family'[a] = family[t] /\ family'[t] = family[t]
BY NamesAssumption DEF Columns, KeepsFamilies, R!Trade, R!Issue, Tokens

LEMMA CloseKeeps ==
    ASSUME Columns, NEW closed, R!Close(closed)
    PROVE  KeepsFamilies
BY DEF Columns, KeepsFamilies, R!Close

LEMMA SameKeeps ==
    ASSUME Columns, UNCHANGED server
    PROVE  KeepsFamilies
BY DEF Columns, KeepsFamilies, server

-----------------------------------------------------------------------------
\* Steps that leave the answers of refreshes alone keep the invariant.

Settled ==
    /\ stored' \in Tokens \cup {None}
    /\ sent' \in [Activities -> Tokens \cup {None}]
    /\ refreshing' \in [Tabs -> Activities \cup {None}]
    /\ call' = call

LEMMA SameRenewals ==
    ASSUME IInv, KeepsFamilies, Settled, renewal' = renewal
    PROVE  IInv'
<1>1. Columns'
    BY DEF IInv, Columns, KeepsFamilies, Settled
<1>2. RenewalsKeepLogin'
    <2> SUFFICES ASSUME NEW a \in Activities, renewal[a].answer = "ok"
                 PROVE  /\ renewal[a].token \in Tokens
                        /\ family'[renewal[a].token] # None
                        /\ family'[a] = family'[renewal[a].token]
        BY DEF RenewalsKeepLogin
    <2>1. /\ renewal[a].token \in Tokens
          /\ family[renewal[a].token] # None
          /\ family[a] = family[renewal[a].token]
        BY DEF IInv, RenewalsKeepLogin
    <2> QED
        BY <2>1 DEF KeepsFamilies, Tokens
<1> QED
    BY <1>1, <1>2 DEF IInv

\* One refresh gets another answer; an accepted one gave a pair of the login of
\* the pair that was presented.
LEMMA OneRenewal ==
    ASSUME IInv, KeepsFamilies, Settled, NEW a \in Activities,
           NEW token \in Tokens \cup {None},
           NEW what \in {"none", "ok", "refused", "failed"},
           renewal' = [renewal EXCEPT ![a] = [token |-> token, answer |-> what]],
           what = "ok" => /\ token \in Tokens /\ family'[token] # None
                          /\ family'[a] = family'[token]
    PROVE  IInv'
<1>1. Columns'
    BY DEF IInv, Columns, KeepsFamilies, Settled
<1>2. RenewalsKeepLogin'
    <2> SUFFICES ASSUME NEW b \in Activities, renewal'[b].answer = "ok"
                 PROVE  /\ renewal'[b].token \in Tokens
                        /\ family'[renewal'[b].token] # None
                        /\ family'[b] = family'[renewal'[b].token]
        BY DEF RenewalsKeepLogin
    <2>1. CASE b = a
        BY <2>1 DEF IInv, Columns
    <2>2. CASE b # a
        <3>1. renewal'[b] = renewal[b]
            BY <2>2 DEF IInv, Columns
        <3>2. /\ renewal[b].token \in Tokens
              /\ family[renewal[b].token] # None
              /\ family[b] = family[renewal[b].token]
            BY <3>1 DEF IInv, RenewalsKeepLogin
        <3> QED
            BY <3>1, <3>2 DEF KeepsFamilies, Tokens
    <2> QED
        BY <2>1, <2>2
<1> QED
    BY <1>1, <1>2 DEF IInv

-----------------------------------------------------------------------------
\* The server's answer to a refresh, in time or too late.
LEMMA ServeRefreshInvariant ==
    ASSUME IInv, NEW a \in Activities, ServeRefresh(a)
    PROVE  IInv'
<1> DEFINE token == renewal[a].token
           came  == renewal[a].answer
<1>1. token \in Tokens /\ came \in {"none", "failed"}
    BY DEF ServeRefresh, IInv, Columns
<1>2. Settled
    BY DEF ServeRefresh, Settled, IInv, Columns
<1>3. CASE token \in live
    <2>1. /\ R!Trade(token, a)
          /\ renewal' = [renewal EXCEPT ![a] =
                            [token |-> token, answer |-> InTime(came, "ok")]]
        BY <1>3 DEF ServeRefresh, Renewed, IInv, Columns
    <2>2. /\ KeepsFamilies /\ family'[a] = family[token] /\ family'[token] = family[token]
          /\ family[token] # None
        BY <1>3, <2>1, TradeKeeps DEF IInv, Columns
    <2> QED
        BY <1>1, <1>2, <2>1, <2>2, OneRenewal DEF InTime
<1>4. CASE token \notin live
    <2>1. /\ UNCHANGED server
          /\ renewal' = [renewal EXCEPT ![a] =
                            [token |-> token, answer |-> InTime(came, "refused")]]
        BY <1>4 DEF ServeRefresh, Renewed, IInv, Columns
    <2> QED
        BY <1>1, <1>2, <2>1, SameKeeps, OneRenewal DEF InTime, IInv
<1> QED
    BY <1>3, <1>4

LEMMA RefreshInvariant ==
    ASSUME IInv, NEW a \in Activities, Refresh(a)
    PROVE  IInv'
<1>1. Performer(a) \in Activities
    BY DEF Performer, IInv, Columns
<1>2. KeepsFamilies
    BY SameKeeps DEF Refresh, IInv
<1>3. Settled
    BY <1>1 DEF Refresh, Settled, IInv, Columns
<1>4. CASE renewal' = renewal
    BY <1>2, <1>3, <1>4, SameRenewals
<1>5. CASE renewal' = [renewal EXCEPT ![a] = [token |-> stored, answer |-> "none"]]
    BY <1>2, <1>3, <1>5, OneRenewal DEF IInv, Columns
<1> QED
    BY <1>4, <1>5 DEF Refresh

LEMMA LoseRefreshInvariant ==
    ASSUME IInv, NEW a \in Activities, LoseRefresh(a)
    PROVE  IInv'
<1>1. KeepsFamilies /\ Settled
    BY SameKeeps DEF LoseRefresh, Settled, IInv, Columns
<1>2. /\ renewal[a].token \in Tokens \cup {None}
      /\ renewal' = [renewal EXCEPT ![a] =
                        [token |-> renewal[a].token, answer |-> "failed"]]
    BY DEF LoseRefresh, Renewed, IInv, Columns
<1> QED
    BY <1>1, <1>2, OneRenewal

-----------------------------------------------------------------------------
LEMMA SettleInvariant ==
    ASSUME IInv, NEW t \in Tabs, Settle(t)
    PROVE  IInv'
<1>1. refreshing[t] \in Activities
    BY DEF Settle, IInv, Columns
<1>2. Resolved(refreshing[t]) \in Tokens \cup {None}
    BY <1>1 DEF Resolved, IInv, Columns, Tokens
<1>3. Settled
    BY <1>1, <1>2 DEF Settle, Settled, IInv, Columns, Tokens
<1> QED
    BY <1>3, SameKeeps, SameRenewals DEF Settle, IInv

\* Every other step.
LEMMA OtherInvariant ==
    ASSUME IInv, NEW a \in Activities,
           \/ Call(a) \/ Login(a) \/ Logout(a)
           \/ ServeCall(a) \/ ServeLogin(a) \/ ServeLogout(a) \/ LoseAnswer(a)
           \/ Finished(a) \/ LoggedIn(a) \/ LoggedOut(a)
           \/ GiveUp(a) \/ Retry(a) \/ Reject(a)
    PROVE  IInv'
<1>1. renewal' = renewal
    BY DEF Call, Login, Logout, ServeCall, ServeLogin, ServeLogout, LoseAnswer,
           Finished, LoggedIn, LoggedOut, GiveUp, Retry, Reject
<1>2. KeepsFamilies
    <2>1. CASE ServeLogin(a)
        BY <2>1, OpenKeeps DEF ServeLogin, IInv
    <2>2. CASE ServeLogout(a)
        BY <2>2, CloseKeeps DEF ServeLogout, IInv
    <2>3. CASE UNCHANGED server
        BY <2>3, SameKeeps DEF IInv
    <2> QED
        BY <2>1, <2>2, <2>3
        DEF Call, Login, Logout, ServeCall, LoseAnswer, Finished, LoggedIn, LoggedOut,
            GiveUp, Retry, Reject
<1>3. /\ stored' \in Tokens \cup {None}
      /\ refreshing' \in [Tabs -> Activities \cup {None}]
      /\ call' = call
    BY DEF IInv, Columns, Tokens, Call, Login, Logout, ServeCall, ServeLogin,
           ServeLogout, LoseAnswer, Finished, LoggedIn, LoggedOut, GiveUp, Retry, Reject
<1>4. sent' \in [Activities -> Tokens \cup {None}]
    BY DEF IInv, Columns, Send, Call, Login, Logout, ServeCall, ServeLogin,
           ServeLogout, LoseAnswer, Finished, LoggedIn, LoggedOut, GiveUp, Retry, Reject
<1> QED
    BY <1>1, <1>2, <1>3, <1>4, SameRenewals DEF Settled

LEMMA NextInvariant == IInv /\ [Next]_vars => IInv'
<1> SUFFICES ASSUME IInv, [Next]_vars
             PROVE  IInv'
    OBVIOUS
<1>1. ASSUME NEW a \in Activities, ServeRefresh(a) \/ LoseRefresh(a) \/ Refresh(a)
      PROVE  IInv'
    BY <1>1, ServeRefreshInvariant, LoseRefreshInvariant, RefreshInvariant
<1>2. ASSUME NEW a \in Activities,
             \/ Call(a) \/ Login(a) \/ Logout(a)
             \/ ServeCall(a) \/ ServeLogin(a) \/ ServeLogout(a) \/ LoseAnswer(a)
             \/ Finished(a) \/ LoggedIn(a) \/ LoggedOut(a)
             \/ GiveUp(a) \/ Retry(a) \/ Reject(a)
      PROVE  IInv'
    BY <1>2, OtherInvariant
<1>3. ASSUME NEW t \in Tabs, Settle(t)
      PROVE  IInv'
    BY <1>3, SettleInvariant
<1>4. ASSUME NEW p \in Tokens, Expire(p)
      PROVE  IInv'
    BY <1>4, SameKeeps, SameRenewals DEF Expire, tab, Settled, IInv, Columns
<1>5. CASE EndSessions
    BY <1>5, CloseKeeps, SameRenewals DEF EndSessions, tab, Settled, IInv, Columns
<1>6. CASE UNCHANGED vars
    BY <1>6, SameKeeps, SameRenewals DEF vars, server, Settled, IInv, Columns
<1> QED
    BY <1>1, <1>2, <1>3, <1>4, <1>5, <1>6 DEF Next

\* The invariant, for any number of tabs and activities: a refresh that was
\* answered gave a pair of the login whose pair was presented.
THEOREM ClientInvariance == Spec => []IInv
<1> QED
    BY InitInvariant, NextInvariant, PTL DEF Spec

-----------------------------------------------------------------------------
\* What may take the place of the stored pair.
Replaces ==
    stored' # stored /\ stored' # None =>
        \/ \E a \in Activities : LoggedIn(a) /\ stored' = a
        \/ stored # None /\ family[stored'] = family[stored]

LEMMA SettleReplaces ==
    ASSUME IInv, NEW t \in Tabs, Settle(t)
    PROVE  Replaces
<1> SUFFICES ASSUME stored' # stored, stored' # None
             PROVE  stored # None /\ family[stored'] = family[stored]
    BY DEF Replaces
<1>1. /\ refreshing[t] \in Activities
      /\ stored' = refreshing[t] /\ Resolved(refreshing[t]) = refreshing[t]
    BY DEF Settle, IInv, Columns
<1>2. renewal[refreshing[t]].answer = "ok" /\ stored = renewal[refreshing[t]].token
    BY <1>1, NamesAssumption DEF Resolved, StillStored
<1> QED
    BY <1>1, <1>2, NamesAssumption DEF IInv, RenewalsKeepLogin, Tokens

LEMMA NextReplaces == IInv /\ [Next]_vars => Replaces
<1> SUFFICES ASSUME IInv, [Next]_vars
             PROVE  Replaces
    OBVIOUS
<1>1. ASSUME NEW t \in Tabs, Settle(t)
      PROVE  Replaces
    BY <1>1, SettleReplaces
<1>2. ASSUME NEW a \in Activities, LoggedIn(a)
      PROVE  Replaces
    BY <1>2 DEF LoggedIn, Replaces
<1>3. CASE stored' = stored
    BY <1>3 DEF Replaces
<1>4. CASE stored' = None
    BY <1>4 DEF Replaces
<1>5. ASSUME NEW a \in Activities, Logout(a) \/ GiveUp(a) \/ Reject(a)
      PROVE  stored' = stored \/ stored' = None
    BY <1>5 DEF Logout, GiveUp, Reject
<1>6. ASSUME NEW a \in Activities,
             \/ Call(a) \/ Login(a) \/ ServeCall(a) \/ ServeLogin(a) \/ ServeLogout(a)
             \/ ServeRefresh(a) \/ LoseAnswer(a) \/ LoseRefresh(a) \/ Finished(a)
             \/ LoggedOut(a) \/ Refresh(a) \/ Retry(a)
      PROVE  stored' = stored
    BY <1>6 DEF Call, Login, ServeCall, ServeLogin, ServeLogout, ServeRefresh,
                LoseAnswer, LoseRefresh, Finished, LoggedOut, Refresh, Retry
<1>7. ASSUME \/ \E p \in Tokens : Expire(p)
             \/ EndSessions
             \/ UNCHANGED vars
      PROVE  stored' = stored
    BY <1>7 DEF Expire, EndSessions, vars
<1> QED
    BY <1>1, <1>2, <1>3, <1>4, <1>5, <1>6, <1>7 DEF Next

\* A logout or a newer login, in whatever tab, wins over every refresh and every
\* call that is under way.
THEOREM NewestLoginWins == Spec => NewestLoginStays
<1>1. IInv /\ [Next]_vars =>
        (stored' # stored /\ stored' # None =>
            \/ \E a \in Activities : LoggedIn(a) /\ stored' = a
            \/ stored # None /\ family[stored'] = family[stored])
    BY NextReplaces DEF Replaces
<1> QED
    BY <1>1, ClientInvariance, PTL DEF Spec, NewestLoginStays

-----------------------------------------------------------------------------
(***************************************************************************)
(* A tab presents each refresh token once.  The pair that is stored now    *)
(* was not presented by the tab, or its refresh is still under way, or the *)
(* activity that performed it is about to give the pair up; and a pair     *)
(* that has left the storage never comes back (TabsInv).                   *)
(***************************************************************************)
LEMMA InitTabs == Init => TabsInv
<1> SUFFICES ASSUME Init PROVE TabsInv
    OBVIOUS
<1>1. IInv
    BY InitInvariant
<1>2. /\ \A a \in Activities : renewal[a].token = None /\ stored # a
      /\ \A t \in Tabs : refreshing[t] = None
    BY NamesAssumption DEF Init, NoRenewal, Tokens
<1>3. TypeOK
    BY <1>1, NamesAssumption DEF TypeOK, IInv, Init, R!Init, Tokens
<1>4. Answered
    BY DEF Answered, Init
<1>5. StoredForOneSpell /\ OneRefreshEach /\ GivenUp /\ PresentedOnce
    BY <1>2, NamesAssumption
    DEF StoredForOneSpell, OneRefreshEach, GivenUp, PresentedOnce
<1> QED
    BY <1>1, <1>3, <1>4, <1>5 DEF TabsInv

\* What TabsInv says of refreshes.
Spells == StoredForOneSpell /\ OneRefreshEach /\ GivenUp /\ PresentedOnce

\* A step that begins and ends no refresh and no login.
Quiet ==
    /\ call' = call /\ refreshing' = refreshing /\ attempted' = attempted
    /\ \A a \in Activities : renewal'[a].token = renewal[a].token
    /\ stored' = stored \/ stored' = None
    /\ \A a \in Activities :
          /\ call[a].op = "login" /\ pc[a] = "done" => pc'[a] = "done"
          /\ pc[a] = "rejected" => pc'[a] = "rejected" \/ stored' = None \/ stored' # attempted[a]

LEMMA QuietSpells ==
    ASSUME TabsInv, KeepsFamilies, Quiet
    PROVE  Spells'
<1> USE NamesAssumption DEF TabsInv
<1>1. ASSUME NEW a \in Activities, Fresh(a)'
      PROVE  /\ stored' # a
             /\ \A b \in Activities : renewal'[b].token # a
    <2>1. Fresh(a)
        BY <1>1 DEF Fresh, Quiet
    <2> QED
        BY <2>1 DEF StoredForOneSpell, Quiet
<1>2. OneRefreshEach'
    <2>1. ASSUME NEW a \in Activities, renewal'[a].token # None
          PROVE  /\ renewal'[a].token = attempted'[a]
                 /\ family'[renewal'[a].token] # None
                 /\ call'[a].op = "call"
        <3>1. renewal[a].token \in Tokens /\ family[renewal[a].token] # None
            BY <2>1 DEF OneRefreshEach, Quiet, IInv, Columns
        <3> QED
            BY <2>1, <3>1 DEF OneRefreshEach, Quiet, KeepsFamilies
    <2>2. ASSUME NEW t \in Tabs, refreshing'[t] # None
          PROVE  renewal'[refreshing'[t]].token # None
        BY <2>2 DEF OneRefreshEach, Quiet, IInv, Columns
    <2> QED
        BY <2>1, <2>2 DEF OneRefreshEach
<1>3. ASSUME NEW a \in Activities, renewal'[a].token # None, stored' = renewal'[a].token
      PROVE  refreshing'[call'[a].tab] = a \/ pc'[a] = "rejected"
    <2>1. stored = renewal[a].token /\ renewal[a].token # None /\ stored' = stored
        BY <1>3 DEF Quiet
    <2>2. attempted[a] = stored
        BY <2>1 DEF OneRefreshEach
    <2> QED
        BY <2>1, <2>2 DEF GivenUp, Quiet
<1>4. PresentedOnce'
    BY DEF PresentedOnce, Quiet
<1> QED
    BY <1>1, <1>2, <1>3, <1>4 DEF Spells, StoredForOneSpell, GivenUp

\* The steps that are quiet: all but a login's answer, a refresh's beginning and
\* its end.
LEMMA QuietSteps ==
    ASSUME TabsInv,
           \/ \E a \in Activities :
                \/ Call(a) \/ Login(a) \/ Logout(a)
                \/ ServeCall(a) \/ ServeLogin(a) \/ ServeLogout(a) \/ ServeRefresh(a)
                \/ LoseAnswer(a) \/ LoseRefresh(a)
                \/ Finished(a) \/ LoggedOut(a) \/ GiveUp(a) \/ Retry(a) \/ Reject(a)
           \/ \E p \in Tokens : Expire(p)
           \/ EndSessions
           \/ UNCHANGED vars
    PROVE  Quiet
<1> USE DEF TabsInv, Answered, IInv, Columns
<1>1. ASSUME NEW a \in Activities,
             \/ Call(a) \/ Login(a) \/ Logout(a) \/ Finished(a) \/ LoggedOut(a)
             \/ GiveUp(a) \/ Retry(a) \/ Reject(a)
      PROVE  Quiet
    <2>1. /\ call' = call /\ refreshing' = refreshing /\ attempted' = attempted
          /\ renewal' = renewal
          /\ stored' = stored \/ stored' = None
        BY <1>1 DEF Call, Login, Logout, Finished, LoggedOut, GiveUp, Retry, Reject
    <2>2. /\ pc' = [pc EXCEPT ![a] = "sent"] \/ pc' = [pc EXCEPT ![a] = "done"]
          /\ pc[a] # "done"
          /\ pc[a] = "rejected" => stored' = None \/ stored' # attempted[a]
        BY <1>1
        DEF Call, Login, Logout, Finished, LoggedOut, GiveUp, Refused, Retry, Reject,
            Send, Goto, At
    <2> QED
        BY <2>1, <2>2 DEF Quiet
<1>2. ASSUME NEW a \in Activities,
             \/ ServeCall(a) \/ ServeLogin(a) \/ ServeLogout(a) \/ ServeRefresh(a)
             \/ LoseAnswer(a) \/ LoseRefresh(a)
      PROVE  Quiet
    <2>1. /\ UNCHANGED <<call, refreshing, attempted, pc, stored>>
          /\ \/ renewal' = renewal
             \/ \E what : Renewed(a, what)
        BY <1>2
        DEF ServeCall, ServeLogin, ServeLogout, ServeRefresh, LoseAnswer, LoseRefresh
    <2>2. ASSUME NEW what, Renewed(a, what), NEW b \in Activities
          PROVE  renewal'[b].token = renewal[b].token
        <3>1. CASE b = a
            <4>1. renewal'[a] = [token |-> renewal[a].token, answer |-> what]
                BY <2>2 DEF Renewed
            <4> QED
                BY <4>1, <3>1
        <3>2. CASE b # a
            BY <2>2, <3>2 DEF Renewed
        <3> QED
            BY <3>1, <3>2
    <2>3. \A b \in Activities : renewal'[b].token = renewal[b].token
        BY <2>1, <2>2
    <2> QED
        BY <2>1, <2>3 DEF Quiet
<1>3. ASSUME \/ \E p \in Tokens : Expire(p)
             \/ EndSessions
             \/ UNCHANGED vars
      PROVE  Quiet
    BY <1>3 DEF Quiet, Expire, EndSessions, tab, vars
<1> QED
    BY <1>1, <1>2, <1>3

\* An accepted login stores a pair that was never stored.
LEMMA LoggedInSpells ==
    ASSUME TabsInv, NEW a \in Activities, LoggedIn(a)
    PROVE  Spells'
<1> USE NamesAssumption DEF TabsInv, Answered, IInv, Columns
<1>1. CASE stored' = stored
    <2>1. KeepsFamilies
        BY SameKeeps DEF LoggedIn
    <2>2. Quiet
        BY <1>1 DEF Quiet, LoggedIn, Goto, At
    <2> QED
        BY <2>1, <2>2, QuietSpells
<1>2. CASE stored' = a
    <2>1. Fresh(a) /\ refreshing[call[a].tab] # a
        BY DEF LoggedIn, At, Fresh, TypeOK
    <2>2. /\ \A b \in Activities : renewal[b].token # a
          /\ pc' = [pc EXCEPT ![a] = "done"]
          /\ UNCHANGED <<family, live, refreshing, call, attempted, renewal>>
          /\ call[a].op = "login"
        BY <2>1 DEF StoredForOneSpell, LoggedIn, At, Goto, server
    <2>3. ASSUME NEW c \in Activities, Fresh(c)'
          PROVE  /\ stored' # c
                 /\ \A b \in Activities : renewal'[b].token # c
        <3>1. c # a /\ Fresh(c)
            BY <2>1, <2>2, <2>3 DEF Fresh
        <3> QED
            BY <3>1, <1>2, <2>2 DEF StoredForOneSpell
    <2>4. GivenUp'
        BY <1>2, <2>2 DEF GivenUp
    <2>5. OneRefreshEach' /\ PresentedOnce'
        BY <2>2 DEF OneRefreshEach, PresentedOnce
    <2> QED
        BY <2>3, <2>4, <2>5 DEF Spells, StoredForOneSpell
<1> QED
    BY <1>1, <1>2 DEF LoggedIn

\* A tab refreshes the stored pair only when it never presented it before.
LEMMA RefreshSpells ==
    ASSUME TabsInv, NEW a \in Activities, Refresh(a)
    PROVE  Spells'
<1> USE NamesAssumption DEF TabsInv, Answered, IInv, Columns
<1> DEFINE t == call[a].tab
<1>1. /\ pc[a] = "sent" /\ call[a].op = "call" /\ t \in Tabs
      /\ attempted[a] = None /\ stored \in Tokens /\ stored # None /\ renewal[a].token = None
      /\ attempted' = [attempted EXCEPT ![a] = stored]
      /\ pc' = [pc EXCEPT ![a] = "waiting"]
      /\ UNCHANGED <<family, live, stored, call>>
      /\ \A b \in Activities : call[b].tab = t => pc[b] # "rejected"
    BY DEF Refresh, Refused, At, Free, Goto, OneRefreshEach, server
<1>2. refreshing[t] # a
    BY <1>1 DEF TypeOK
<1>3. CASE refreshing[t] # None
    <2>1. refreshing' = refreshing /\ renewal' = renewal
        BY <1>2, <1>3 DEF Refresh, Performer
    <2>2. \A c \in Activities : Fresh(c)' => Fresh(c)
        BY <1>1, <2>1 DEF Fresh
    <2>3. StoredForOneSpell'
        BY <1>1, <2>1, <2>2 DEF StoredForOneSpell
    <2>4. OneRefreshEach' /\ GivenUp' /\ PresentedOnce'
        BY <1>1, <2>1 DEF OneRefreshEach, GivenUp, PresentedOnce
    <2> QED
        BY <2>3, <2>4 DEF Spells
<1>4. CASE refreshing[t] = None
    <2>1. /\ refreshing' = [refreshing EXCEPT ![t] = a]
          /\ renewal' = [renewal EXCEPT ![a] = [token |-> stored, answer |-> "none"]]
        BY <1>4 DEF Refresh, Performer
    <2>2. /\ renewal'[a].token = stored
          /\ \A b \in Activities : b # a => renewal'[b] = renewal[b]
        BY <2>1
    <2>3. ASSUME NEW c \in Activities, Fresh(c)'
          PROVE  /\ stored' # c
                 /\ \A b \in Activities : renewal'[b].token # c
        <3>1. Fresh(c)
            BY <1>1, <2>1, <2>2, <2>3 DEF Fresh
        <3> QED
            BY <3>1, <1>1, <2>2 DEF StoredForOneSpell
    <2>4. OneRefreshEach'
        <3>1. ASSUME NEW b \in Activities, renewal'[b].token # None
              PROVE  /\ renewal'[b].token = attempted'[b]
                     /\ family'[renewal'[b].token] # None
                     /\ call'[b].op = "call"
            BY <1>1, <2>2, <3>1 DEF OneRefreshEach, TypeOK
        <3>2. ASSUME NEW u \in Tabs, refreshing'[u] # None
              PROVE  renewal'[refreshing'[u]].token # None
            <4>1. CASE refreshing'[u] = a
                BY <1>1, <2>2, <4>1
            <4>2. CASE refreshing'[u] # a
                <5>1. refreshing'[u] = refreshing[u] /\ refreshing[u] \in Activities
                    BY <3>2, <4>2, <2>1
                <5> QED
                    BY <5>1, <4>2, <2>2 DEF OneRefreshEach
            <4> QED
                BY <4>1, <4>2
        <3> QED
            BY <3>1, <3>2 DEF OneRefreshEach
    <2>5. GivenUp'
        BY <1>1, <1>4, <2>1, <2>2 DEF GivenUp
    <2>6. ASSUME NEW b \in Activities, call[b].tab = t, renewal[b].token = stored
          PROVE  FALSE
        <3>1. refreshing[call[b].tab] = b \/ pc[b] = "rejected"
            BY <2>6, <1>1 DEF GivenUp
        <3> QED
            BY <3>1, <2>6, <1>1, <1>4
    <2>7. PresentedOnce'
        BY <1>1, <2>2, <2>6 DEF PresentedOnce
    <2> QED
        BY <2>3, <2>4, <2>5, <2>7 DEF Spells, StoredForOneSpell
<1> QED
    BY <1>3, <1>4

\* A refresh that settles replaces the presented pair by one that was never
\* stored, or leaves every activity that awaited it to be rejected.
LEMMA SettleSpells ==
    ASSUME TabsInv, NEW t \in Tabs, Settle(t)
    PROVE  Spells'
<1> USE NamesAssumption DEF TabsInv, Answered, IInv, Columns
<1> DEFINE a == refreshing[t]
<1>1. /\ a \in Activities /\ call[a].tab = t /\ pc[a] = "waiting"
      /\ renewal[a].token # None /\ call[a].op = "call"
      /\ refreshing' = [refreshing EXCEPT ![t] = None]
      /\ stored' = stored \/ (stored' = a /\ Resolved(a) = a)
      /\ Fresh(a)
      /\ UNCHANGED <<family, live, call, attempted, renewal>>
    BY DEF Settle, TypeOK, OneRefreshEach, Fresh, server
<1>2. /\ \A b \in Activities : pc'[b] = pc[b] \/ pc[b] = "waiting"
      /\ \A b \in Activities : call[b].tab # t => pc'[b] = pc[b]
      /\ \A b \in Activities : call[b].tab = t => pc[b] # "rejected"
      /\ Resolved(a) = None => pc'[a] = "rejected"
    BY <1>1 DEF Settle, Free, Waiters
<1>3. ASSUME NEW c \in Activities, Fresh(c)'
      PROVE  /\ stored' # c
             /\ \A b \in Activities : renewal'[b].token # c
    <2>1. Fresh(c) /\ c # a
        BY <1>1, <1>2, <1>3 DEF Fresh
    <2> QED
        BY <2>1, <1>1 DEF StoredForOneSpell
<1>4. OneRefreshEach' /\ PresentedOnce'
    BY <1>1 DEF OneRefreshEach, PresentedOnce
<1>5. ASSUME NEW b \in Activities, renewal'[b].token # None, stored' = renewal'[b].token
      PROVE  refreshing'[call'[b].tab] = b \/ pc'[b] = "rejected"
    <2>1. renewal[b].token # a
        BY <1>1 DEF StoredForOneSpell
    <2>2. stored' = stored /\ stored = renewal[b].token
        BY <1>1, <1>5, <2>1
    <2>3. CASE call[b].tab # t
        BY <2>2, <2>3, <1>1, <1>2, <1>5 DEF GivenUp
    <2>4. CASE call[b].tab = t
        <3>1. b = a
            BY <2>2, <2>4, <1>1, <1>2, <1>5 DEF GivenUp
        <3>2. Resolved(a) = None
            BY <2>1, <2>2, <3>1, <1>1 DEF Resolved, StillStored, Settle, StoredForOneSpell
        <3> QED
            BY <3>1, <3>2, <1>2
    <2> QED
        BY <2>3, <2>4
<1> QED
    BY <1>3, <1>4, <1>5 DEF Spells, StoredForOneSpell, GivenUp

-----------------------------------------------------------------------------
\* The pairs that are stored, sent and expired have been issued.

Pairs ==
    /\ stored # None => family[stored] # None
    /\ expired \subseteq {p \in Tokens : family[p] # None}
    /\ \A a \in Activities : sent[a] # None => family[sent[a]] # None

\* What a step stores and sends.
Carries ==
    /\ stored' \in {stored, None} \/ (stored' \in Tokens /\ family'[stored'] # None)
    /\ \A b \in Activities : sent'[b] \in {sent[b], stored, stored', None}
    /\ expired' = expired \/ \E p \in Tokens : Expire(p)

LEMMA CarriesPairs ==
    ASSUME TabsInv, KeepsFamilies, IInv', Carries
    PROVE  Pairs'
<1> USE NamesAssumption DEF TabsInv, IInv, Columns
<1>1. /\ stored # None => family'[stored] # None
      /\ stored' # None => family'[stored'] # None
    BY DEF Carries, KeepsFamilies, TypeOK
<1>2. ASSUME NEW p \in expired'
      PROVE  p \in Tokens /\ family'[p] # None
    <2>1. p \in Tokens /\ family[p] # None
        BY <1>2 DEF Carries, Expire, TypeOK
    <2> QED
        BY <2>1 DEF KeepsFamilies
<1>3. ASSUME NEW b \in Activities, sent'[b] # None
      PROVE  family'[sent'[b]] # None
    <2>1. CASE sent'[b] = sent[b]
        <3>1. sent[b] \in Tokens /\ family[sent[b]] # None
            BY <1>3, <2>1 DEF TypeOK
        <3> QED
            BY <2>1, <3>1 DEF KeepsFamilies
    <2>2. CASE sent'[b] # sent[b]
        BY <1>1, <1>3, <2>2 DEF Carries
    <2> QED
        BY <2>1, <2>2
<1> QED
    BY <1>1, <1>2, <1>3 DEF Pairs

LEMMA StepCarries ==
    ASSUME TabsInv, Next
    PROVE  KeepsFamilies /\ Carries
<1> USE NamesAssumption DEF TabsInv, IInv, Columns
<1>1. ASSUME NEW a \in Activities, ServeLogin(a) \/ ServeLogout(a) \/ ServeRefresh(a)
      PROVE  KeepsFamilies /\ Carries
    <2>1. KeepsFamilies
        BY <1>1, OpenKeeps, CloseKeeps, TradeKeeps, SameKeeps
        DEF ServeLogin, ServeLogout, ServeRefresh
    <2>2. Carries
        BY <1>1 DEF Carries, ServeLogin, ServeLogout, ServeRefresh
    <2> QED
        BY <2>1, <2>2
<1>2. ASSUME NEW a \in Activities,
             \/ Call(a) \/ Login(a) \/ Logout(a) \/ ServeCall(a)
             \/ LoseAnswer(a) \/ LoseRefresh(a)
             \/ Finished(a) \/ LoggedOut(a) \/ GiveUp(a) \/ Refresh(a) \/ Retry(a)
             \/ Reject(a)
      PROVE  KeepsFamilies /\ Carries
    <2>1. /\ UNCHANGED <<family, live, expired>>
          /\ stored' \in {stored, None}
          /\ \A b \in Activities : sent'[b] \in {sent[b], stored, None}
        BY <1>2
        DEF Call, Login, Logout, ServeCall, LoseAnswer, LoseRefresh, Finished, LoggedOut,
            GiveUp, Refresh, Retry, Reject, Send, server
    <2> QED
        BY <2>1, SameKeeps DEF Carries, server
<1>3. ASSUME NEW a \in Activities, LoggedIn(a)
      PROVE  KeepsFamilies /\ Carries
    <2>1. /\ UNCHANGED <<family, live, expired, sent>>
          /\ stored' = stored \/ (stored' = a /\ family[a] # None)
        BY <1>3 DEF LoggedIn, At, Answered, server
    <2> QED
        BY <2>1, SameKeeps DEF Carries, server, Tokens
<1>4. ASSUME NEW t \in Tabs, Settle(t)
      PROVE  KeepsFamilies /\ Carries
    <2>1. /\ refreshing[t] \in Activities
          /\ UNCHANGED <<family, live, expired>>
          /\ stored' = IF Resolved(refreshing[t]) = refreshing[t]
                       THEN refreshing[t] ELSE stored
          /\ \A b \in Activities : sent'[b] \in {sent[b], Resolved(refreshing[t])}
        BY <1>4 DEF Settle, server
    <2>2. Resolved(refreshing[t]) \in {None, stored, stored'}
        BY <2>1 DEF Resolved
    <2>3. stored' # stored => family[stored'] # None /\ stored' \in Tokens
        BY <2>1 DEF Resolved, RenewalsKeepLogin, Tokens
    <2> QED
        BY <2>1, <2>2, <2>3, SameKeeps DEF Carries, server
<1>5. ASSUME NEW p \in Tokens, Expire(p)
      PROVE  KeepsFamilies /\ Carries
    BY <1>5, SameKeeps DEF Expire, Carries, tab
<1>6. CASE EndSessions
    BY <1>6, CloseKeeps DEF EndSessions, Carries, tab
<1> QED
    BY <1>1, <1>2, <1>3, <1>4, <1>5, <1>6 DEF Next

-----------------------------------------------------------------------------
\* An activity waits for the refresh that its tab performs, and a login that was
\* accepted has a pair.

Waits ==
    /\ \A a \in Activities :
          pc[a] = "waiting" => refreshing[call[a].tab] # None
    /\ \A t \in Tabs :
          refreshing[t] # None =>
              /\ call[refreshing[t]].tab = t /\ pc[refreshing[t]] = "waiting"
              /\ family[renewal[refreshing[t]].token] # None

\* A step of an activity that does not wait, and goes elsewhere.
Elsewhere ==
    /\ call' = call /\ refreshing' = refreshing
    /\ \A a \in Activities : renewal'[a].token = renewal[a].token
    /\ \A a \in Activities : pc'[a] = "waiting" <=> pc[a] = "waiting"

LEMMA ElsewhereWaits ==
    ASSUME TabsInv, KeepsFamilies, Elsewhere
    PROVE  Waits'
<1> USE NamesAssumption DEF TabsInv, IInv, Columns
<1>1. ASSUME NEW t \in Tabs, refreshing'[t] # None
      PROVE  /\ call'[refreshing'[t]].tab = t /\ pc'[refreshing'[t]] = "waiting"
             /\ family'[renewal'[refreshing'[t]].token] # None
    <2>1. /\ refreshing'[t] = refreshing[t] /\ refreshing[t] \in Activities
          /\ renewal[refreshing[t]].token \in Tokens
          /\ call[refreshing[t]].tab = t /\ pc[refreshing[t]] = "waiting"
          /\ family[renewal[refreshing[t]].token] # None
        BY <1>1 DEF Elsewhere, TypeOK, OneRefreshEach
    <2> QED
        BY <2>1 DEF Elsewhere, KeepsFamilies
<1>2. ASSUME NEW a \in Activities, pc'[a] = "waiting"
      PROVE  refreshing'[call'[a].tab] # None
    BY <1>2 DEF Elsewhere, TypeOK
<1> QED
    BY <1>1, <1>2 DEF Waits

LEMMA StepWaits ==
    ASSUME TabsInv, Next
    PROVE  Waits'
<1> USE NamesAssumption DEF TabsInv, IInv, Columns
<1>1. KeepsFamilies
    BY StepCarries
<1>2. ASSUME NEW a \in Activities,
             \/ Call(a) \/ Login(a) \/ Logout(a) \/ Finished(a) \/ LoggedIn(a)
             \/ LoggedOut(a) \/ GiveUp(a) \/ Retry(a) \/ Reject(a)
      PROVE  Waits'
    <2>1. /\ UNCHANGED <<call, refreshing, renewal>>
          /\ pc' = [pc EXCEPT ![a] = "sent"] \/ pc' = [pc EXCEPT ![a] = "done"]
          /\ pc[a] # "waiting"
        BY <1>2
        DEF Call, Login, Logout, Finished, LoggedIn, LoggedOut, GiveUp, Refused, Retry,
            Reject, Send, Goto, At
    <2>2. Elsewhere
        BY <2>1 DEF Elsewhere, Answered
    <2> QED
        BY <1>1, <2>2, ElsewhereWaits
<1>3. ASSUME \/ \E a \in Activities :
                  \/ ServeCall(a) \/ ServeLogin(a) \/ ServeLogout(a) \/ ServeRefresh(a)
                  \/ LoseAnswer(a) \/ LoseRefresh(a)
             \/ \E p \in Tokens : Expire(p)
             \/ EndSessions
      PROVE  Waits'
    <2>1. Quiet
        BY <1>3, QuietSteps
    <2>2. pc' = pc
        BY <1>3
        DEF ServeCall, ServeLogin, ServeLogout, ServeRefresh, LoseAnswer, LoseRefresh,
            Expire, EndSessions, tab
    <2>3. Elsewhere
        BY <2>1, <2>2 DEF Elsewhere, Quiet
    <2> QED
        BY <1>1, <2>3, ElsewhereWaits
<1>4. ASSUME NEW a \in Activities, Refresh(a)
      PROVE  Waits'
    <2> DEFINE t == call[a].tab
    <2>1. /\ pc[a] = "sent" /\ t \in Tabs /\ call' = call /\ UNCHANGED <<family, live>>
          /\ stored # None /\ stored \in Tokens /\ family[stored] # None
          /\ pc' = [pc EXCEPT ![a] = "waiting"]
        BY <1>4 DEF Refresh, Refused, At, Goto, server, TypeOK
    <2>2. CASE refreshing[t] # None
        <3>1. refreshing[t] # a /\ refreshing' = refreshing /\ renewal' = renewal
            BY <1>4, <2>1, <2>2 DEF Refresh, Performer, TypeOK
        <3> QED
            BY <2>1, <2>2, <3>1 DEF Waits, TypeOK, Answered
    <2>3. CASE refreshing[t] = None
        <3>1. /\ refreshing' = [refreshing EXCEPT ![t] = a]
              /\ renewal' = [renewal EXCEPT ![a] = [token |-> stored, answer |-> "none"]]
            BY <1>4, <2>3 DEF Refresh, Performer
        <3>2. ASSUME NEW u \in Tabs, u # t, refreshing'[u] # None
              PROVE  /\ call'[refreshing'[u]].tab = u /\ pc'[refreshing'[u]] = "waiting"
                     /\ family'[renewal'[refreshing'[u]].token] # None
            <4>1. refreshing'[u] = refreshing[u] /\ refreshing[u] \in Activities
                BY <3>1, <3>2
            <4>2. /\ call[refreshing[u]].tab = u /\ pc[refreshing[u]] = "waiting"
                  /\ family[renewal[refreshing[u]].token] # None
                BY <3>2, <4>1 DEF TypeOK
            <4>3. refreshing[u] # a
                BY <4>2, <2>1
            <4> QED
                BY <2>1, <3>1, <4>1, <4>2, <4>3 DEF Answered
        <3>3. /\ call'[refreshing'[t]].tab = t /\ pc'[refreshing'[t]] = "waiting"
              /\ family'[renewal'[refreshing'[t]].token] # None
            BY <2>1, <3>1 DEF Answered
        <3>4. \A b \in Activities : pc'[b] = "waiting" => refreshing'[call'[b].tab] # None
            BY <2>1, <3>1 DEF TypeOK, Answered
        <3> QED
            BY <3>2, <3>3, <3>4 DEF Waits
    <2> QED
        BY <2>2, <2>3
<1>5. ASSUME NEW t \in Tabs, Settle(t)
      PROVE  Waits'
    <2>1. /\ UNCHANGED <<family, live, call, renewal>>
          /\ refreshing' = [refreshing EXCEPT ![t] = None]
          /\ \A b \in Activities : call[b].tab # t => pc'[b] = pc[b]
          /\ \A b \in Activities : call[b].tab = t => pc'[b] # "waiting"
        BY <1>5 DEF Settle, Waiters, server
    <2>2. ASSUME NEW u \in Tabs, refreshing'[u] # None
          PROVE  /\ call'[refreshing'[u]].tab = u /\ pc'[refreshing'[u]] = "waiting"
                 /\ family'[renewal'[refreshing'[u]].token] # None
        <3>1. u # t /\ refreshing'[u] = refreshing[u] /\ refreshing[u] \in Activities
            BY <2>1, <2>2
        <3>2. /\ call[refreshing[u]].tab = u /\ pc[refreshing[u]] = "waiting"
              /\ family[renewal[refreshing[u]].token] # None
            BY <2>2, <3>1 DEF TypeOK
        <3> QED
            BY <2>1, <3>1, <3>2
    <2>3. ASSUME NEW b \in Activities, pc'[b] = "waiting"
          PROVE  refreshing'[call'[b].tab] # None
        BY <2>1, <2>3 DEF TypeOK
    <2> QED
        BY <2>2, <2>3 DEF Waits
<1> QED
    BY <1>2, <1>3, <1>4, <1>5 DEF Next

LEMMA StepAnswered ==
    ASSUME TabsInv, Next
    PROVE  Answered'
<1> USE NamesAssumption DEF TabsInv, IInv, Columns
<1>1. KeepsFamilies
    BY StepCarries
<1>2. ASSUME /\ call' = call
             /\ pc' \in [Activities -> {"idle", "sent", "waiting", "again", "rejected", "done"}]
             /\ answer' \in [Activities -> {"none", "ok", "refused", "failed"}]
             /\ attempted' \in [Activities -> Tokens \cup {None}],
             \A b \in Activities :
                /\ pc'[b] = "waiting" => pc[b] = "waiting" \/ call[b].op = "call"
                /\ call[b].op = "login" /\ answer'[b] = "ok" =>
                       answer[b] = "ok" \/ family'[b] # None
      PROVE  Answered'
    BY <1>1, <1>2 DEF Answered, KeepsFamilies, Tokens
<1>3. ASSUME NEW a \in Activities,
             \/ Call(a) \/ Login(a) \/ Logout(a) \/ Finished(a) \/ LoggedIn(a)
             \/ LoggedOut(a) \/ GiveUp(a) \/ Retry(a) \/ Reject(a) \/ Refresh(a)
      PROVE  Answered'
    <2>1. /\ call' = call
          /\ attempted' = attempted \/ attempted' = [attempted EXCEPT ![a] = stored]
          /\ answer' = answer \/ answer' = [answer EXCEPT ![a] = "none"]
          /\ \/ pc' = [pc EXCEPT ![a] = "sent"]
             \/ pc' = [pc EXCEPT ![a] = "done"]
             \/ pc' = [pc EXCEPT ![a] = "waiting"] /\ call[a].op = "call"
        BY <1>3
        DEF Call, Login, Logout, Finished, LoggedIn, LoggedOut, GiveUp, Refused, Retry,
            Reject, Refresh, Send, Goto, At
    <2>2. attempted' \in [Activities -> Tokens \cup {None}]
        BY <2>1 DEF Answered
    <2>3. answer' \in [Activities -> {"none", "ok", "refused", "failed"}]
        BY <2>1 DEF Answered
    <2>4. pc' \in [Activities -> {"idle", "sent", "waiting", "again", "rejected", "done"}]
        BY <2>1 DEF Answered
    <2>5. \A b \in Activities :
             /\ pc'[b] = "waiting" => pc[b] = "waiting" \/ call[b].op = "call"
             /\ answer'[b] = "ok" => answer[b] = "ok"
        BY <2>1 DEF Answered
    <2> QED
        BY <1>2, <2>1, <2>2, <2>3, <2>4, <2>5
<1>4. ASSUME NEW a \in Activities,
             \/ ServeCall(a) \/ ServeLogin(a) \/ ServeLogout(a) \/ ServeRefresh(a)
             \/ LoseAnswer(a) \/ LoseRefresh(a)
      PROVE  Answered'
    <2>1. /\ call' = call /\ attempted' = attempted /\ pc' = pc
          /\ \/ answer' = answer
             \/ answer' = [answer EXCEPT ![a] = "failed"]
             \/ /\ \E what \in {"ok", "refused"} :
                      answer' = [answer EXCEPT ![a] = InTime(answer[a], what)]
                /\ call[a].op = "login" => family'[a] = a
        BY <1>4
        DEF ServeCall, ServeLogin, ServeLogout, ServeRefresh, LoseAnswer, LoseRefresh,
            Comes, R!Open, R!Issue, Tokens
    <2>2. answer' \in [Activities -> {"none", "ok", "refused", "failed"}]
        BY <2>1 DEF Answered, InTime
    <2>3. \A b \in Activities :
             call[b].op = "login" /\ answer'[b] = "ok" => answer[b] = "ok" \/ family'[b] # None
        BY <2>1 DEF Answered
    <2> QED
        BY <1>2, <2>1, <2>2, <2>3 DEF Answered
<1>5. ASSUME NEW t \in Tabs, Settle(t)
      PROVE  Answered'
    <2>1. /\ refreshing[t] \in Activities
          /\ call' = call /\ attempted' = attempted
          /\ pc' \in [Activities -> {"idle", "sent", "waiting", "again", "rejected", "done"}]
          /\ answer' \in [Activities -> {"none", "ok", "refused", "failed"}]
          /\ \A b \in Activities :
                /\ pc'[b] = "waiting" => pc[b] = "waiting"
                /\ answer'[b] = answer[b] \/ pc[b] = "waiting"
        BY <1>5 DEF Settle, Answered, Waiters
    <2> QED
        BY <1>2, <2>1 DEF Answered
<1>6. ASSUME (\E p \in Tokens : Expire(p)) \/ EndSessions
      PROVE  Answered'
    BY <1>2, <1>6 DEF Expire, EndSessions, tab, Answered
<1> QED
    BY <1>3, <1>4, <1>5, <1>6 DEF Next

-----------------------------------------------------------------------------
LEMMA NextTabs == TabsInv /\ [Next]_vars => TabsInv'
<1> SUFFICES ASSUME TabsInv, [Next]_vars
             PROVE  TabsInv'
    OBVIOUS
<1>1. IInv'
    BY NextInvariant DEF TabsInv
<1>2. CASE UNCHANGED vars
    BY <1>2
    DEF vars, TabsInv, TypeOK, IInv, Columns, RenewalsKeepLogin, Answered,
        StoredForOneSpell, Fresh, OneRefreshEach, GivenUp, PresentedOnce
<1>3. CASE Next
    <2>1. KeepsFamilies /\ Carries
        BY <1>3, StepCarries
    <2>2. Pairs' /\ Waits' /\ Answered'
        BY <1>1, <1>3, <2>1, CarriesPairs, StepWaits, StepAnswered
    <2>3. Spells'
        <3>1. ASSUME NEW a \in Activities, LoggedIn(a) \/ Refresh(a)
              PROVE  Spells'
            BY <3>1, LoggedInSpells, RefreshSpells
        <3>2. ASSUME NEW t \in Tabs, Settle(t)
              PROVE  Spells'
            BY <3>2, SettleSpells
        <3>3. ASSUME Quiet
              PROVE  Spells'
            BY <2>1, <3>3, QuietSpells
        <3> QED
            BY <1>3, <3>1, <3>2, <3>3, QuietSteps DEF Next
    <2>4. TypeOK'
        BY <1>1, <2>2 DEF TypeOK, IInv, Pairs, Waits, Answered
    <2> QED
        BY <1>1, <2>2, <2>3, <2>4 DEF TabsInv, Spells
<1> QED
    BY <1>2, <1>3

LEMMA TabsInvariance == Spec => []TabsInv
<1> QED
    BY InitTabs, NextTabs, PTL DEF Spec

\* Pairs are in the storage and with requests only once the server has issued them,
\* and an activity waits exactly for the refresh that its tab performs.
THEOREM ClientTypeCorrect == Spec => []TypeOK
<1>1. TabsInv => TypeOK
    BY DEF TabsInv
<1> QED
    BY <1>1, TabsInvariance, PTL

\* However many calls of a tab are refused at once, and whatever answers are lost,
\* the tab presents each refresh token to the server at most once.
THEOREM TokensPresentedOnce == Spec => []PresentedOnce
<1>1. TabsInv => PresentedOnce
    BY DEF TabsInv
<1> QED
    BY <1>1, TabsInvariance, PTL
=============================================================================
