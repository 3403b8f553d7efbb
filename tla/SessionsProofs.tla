--------------------------- MODULE SessionsProofs ---------------------------
(***************************************************************************)
(* What holds of Sessions for every set of requests, passwords, devices    *)
(* and roles, whichever operations the requests ask for.                   *)
(*                                                                         *)
(* Every step of every handler is first summed up by Step(r): what it may  *)
(* do to the request's progress, to what requests have read, to the user   *)
(* row and to the tokens.  The rest argues from Step alone.                *)
(***************************************************************************)
EXTENDS Sessions, TLAPS

ProgressStep(r) ==
    /\ pc[r] # "done"
    /\ pc' \in [Requests -> Stages]
    /\ \A q \in Requests \ {r} : pc'[q] = pc[q]

ReadStep ==
    /\ seen' = [q \in Requests |-> seen'[q]]
    /\ \A q \in Requests :
          seen'[q].version = seen[q].version \/ seen'[q].version = user.tokenVersion

UserStep ==
    \/ user' = user
    \/ user'.tokenVersion = user.tokenVersion + 1 /\ access' = access

\* Rows at most get a revokedAt.
Closes ==
    /\ access' = access
    /\ refresh' = [s \in Sessions |-> refresh'[s]]
    /\ \A s \in Sessions :
          \/ refresh'[s] = refresh[s]
          \/ refresh[s].state = "live" /\ refresh'[s] = WithState("revoked", s)

Opens(r) ==
    /\ user' = user /\ pc[r] = "insert" /\ pc'[r] = "done"
    /\ refresh' = [refresh EXCEPT ![r] = Row("live", call[r].device, r, call[r].password)]
    /\ access' = [access EXCEPT ![r] = Claims(r)]

Trades(r) ==
    LET t == call[r].token IN
    /\ user' = user /\ pc'[r] = "done"
    /\ t \in Unrevoked
    /\ refresh' = [Revoked({t}) EXCEPT ![r] = WithState("live", t)]
    /\ access' = [access EXCEPT ![r] = Claims(r)]

Step(r) ==
    ProgressStep(r) /\ ReadStep /\ UserStep /\ (Closes \/ Opens(r) \/ Trades(r))

-----------------------------------------------------------------------------

\* Goto and Answer move the request on and touch no other.
LEMMA GotoMoves ==
    ASSUME pc \in [Requests -> Stages], NEW r \in Requests, pc[r] # "done",
           NEW stage \in Stages, Goto(r, stage)
    PROVE  ProgressStep(r)
BY DEF Goto, ProgressStep

LEMMA AnswerMoves ==
    ASSUME pc \in [Requests -> Stages], NEW r \in Requests, pc[r] # "done",
           NEW how, Answer(r, how)
    PROVE  ProgressStep(r) /\ pc'[r] = "done"
BY DEF Answer, ProgressStep, Stages

\* Revoking rows closes them and does nothing else.
LEMMA RevokedCloses ==
    ASSUME NEW rows, refresh' = Revoked(rows), access' = access
    PROVE  Closes
BY DEF Revoked, Closes

LEMMA KeptCloses ==
    ASSUME Rows, refresh' = refresh, access' = access
    PROVE  Closes
BY DEF Rows, Closes

\* Reading the user, or the rows an update will touch.
LEMMA ReadReads ==
    ASSUME Versions, NEW r \in Requests,
           Read(r) \/ (\E rows : See(r, rows)) \/ seen' = seen
    PROVE  ReadStep
BY DEF Versions, Read, See, ReadStep

-----------------------------------------------------------------------------

\* Steps that leave the user row and the tokens alone.
LEMMA QuietSteps ==
    ASSUME IInv, NEW r \in Requests,
           \/ Login(r) \/ Attempt(r) \/ Count(r) \/ LogLock(r)
           \/ KnowDevice(r) \/ RegisterDevice(r) \/ MfaLogin(r) \/ FindDeviceRows(r)
           \/ Refresh(r) \/ Authenticate(r) \/ ChangePassword(r) \/ RevokeDevice(r)
           \/ RevokeAll(r) \/ ForgotPassword(r) \/ FindResetRows(r) \/ ReplaceResetRows(r)
           \/ ResetPassword(r) \/ UpdateStatus(r) \/ UpdateRole(r) \/ Begin(r)
           \/ Abort(r)
    PROVE  Step(r)
<1>1. UserStep /\ Closes
    BY KeptCloses DEF IInv, UserStep, account, tokens, Login, Attempt, Count, LogLock,
       KnowDevice, RegisterDevice, MfaLogin, FindDeviceRows, Refresh, Authenticate,
       ChangePassword,
       RevokeDevice, RevokeAll, ForgotPassword, FindResetRows, ReplaceResetRows, ResetPassword, UpdateStatus, UpdateRole, Begin, Abort
<1>2. ReadStep
    BY ReadReads DEF IInv, Login, Attempt, Count, LogLock, KnowDevice, RegisterDevice,
       MfaLogin, FindDeviceRows, Refresh, Authenticate, ChangePassword,
       RevokeDevice, RevokeAll, ForgotPassword, FindResetRows, ReplaceResetRows, ResetPassword, UpdateStatus, UpdateRole, Begin, Abort
<1>3. ProgressStep(r)
    <2>1. CASE Login(r)
        BY <2>1, GotoMoves, AnswerMoves DEF IInv, Stages, Login, Ask
    <2>2. CASE Attempt(r)
        BY <2>2, GotoMoves, AnswerMoves DEF IInv, Stages, Attempt, Stay
    <2>3. CASE Count(r)
        BY <2>3, GotoMoves, AnswerMoves DEF IInv, Stages, Count, Stay
    <2>4. CASE LogLock(r)
        BY <2>4, GotoMoves, AnswerMoves DEF IInv, Stages, LogLock, Stay
    <2>5. CASE KnowDevice(r)
        BY <2>5, GotoMoves, AnswerMoves DEF IInv, Stages, KnowDevice, Stay,
           PasswordVerified, Challenge
    <2>6. CASE RegisterDevice(r)
        BY <2>6, GotoMoves, AnswerMoves DEF IInv, Stages, RegisterDevice, Stay,
           PasswordVerified, Challenge
    <2>7. CASE MfaLogin(r)
        BY <2>7, GotoMoves, AnswerMoves DEF IInv, Stages, MfaLogin, Ask
    <2>8. CASE FindDeviceRows(r)
        BY <2>8, GotoMoves, AnswerMoves DEF IInv, Stages, FindDeviceRows, Stay
    <2>9. CASE Refresh(r)
        BY <2>9, GotoMoves, AnswerMoves DEF IInv, Stages, Refresh, Ask
    <2>10. CASE Authenticate(r)
        BY <2>10, GotoMoves, AnswerMoves DEF IInv, Stages, Authenticate, Ask
    <2>11. CASE ChangePassword(r)
        BY <2>11, GotoMoves, AnswerMoves DEF IInv, Stages, ChangePassword, Handle, Stay
    <2>12. CASE RevokeDevice(r)
        BY <2>12, GotoMoves, AnswerMoves DEF IInv, Stages, RevokeDevice, Handle, Stay
    <2>13. CASE RevokeAll(r)
        BY <2>13, GotoMoves, AnswerMoves DEF IInv, Stages, RevokeAll, Handle, Stay
    <2>14. CASE ForgotPassword(r)
        BY <2>14, GotoMoves, AnswerMoves DEF IInv, Stages, ForgotPassword, Ask
    <2>15. CASE FindResetRows(r)
        BY <2>15, GotoMoves, AnswerMoves DEF IInv, Stages, FindResetRows, Stay
    <2>16. CASE ReplaceResetRows(r)
        BY <2>16, GotoMoves, AnswerMoves DEF IInv, Stages, ReplaceResetRows, Stay
    <2>17. CASE ResetPassword(r)
        BY <2>17, GotoMoves, AnswerMoves DEF IInv, Stages, ResetPassword, Ask
    <2>18. CASE UpdateStatus(r)
        BY <2>18, GotoMoves, AnswerMoves DEF IInv, Stages, UpdateStatus, Ask
    <2>19. CASE UpdateRole(r)
        BY <2>19, GotoMoves, AnswerMoves DEF IInv, Stages, UpdateRole, Ask
    <2>20. CASE Begin(r)
        BY <2>20, GotoMoves, AnswerMoves DEF IInv, Stages, Begin, Stay
    <2>21. CASE Abort(r)
        BY <2>21, GotoMoves, AnswerMoves DEF IInv, Stages, Abort, Stay
    <2> QED
        BY <2>1, <2>2, <2>3, <2>4, <2>5, <2>6, <2>7, <2>8, <2>9, <2>10, <2>11, <2>12,
           <2>13, <2>14, <2>15, <2>16, <2>17, <2>18, <2>19, <2>20, <2>21
<1> QED
    BY <1>1, <1>2, <1>3 DEF Step

\* issueSession reads the version.
LEMMA VersionStep ==
    ASSUME IInv, NEW r \in Requests, ReadVersion(r)
    PROVE  Step(r)
<1>1. UserStep /\ Closes
    BY KeptCloses DEF IInv, UserStep, ReadVersion, account, tokens
<1>2. ReadStep
    BY DEF IInv, Versions, ReadVersion, ReadStep
<1>3. ProgressStep(r)
    BY GotoMoves DEF IInv, Stages, ReadVersion, Stay
<1> QED
    BY <1>1, <1>2, <1>3 DEF Step

\* Steps that revoke rows.
LEMMA RevokingSteps ==
    ASSUME IInv, NEW r \in Requests,
           RevokeDeviceRows(r) \/ Logout(r) \/ RevokeSession(r)
    PROVE  Step(r)
<1>1. Closes
    BY RevokedCloses DEF RevokeDeviceRows, Logout, RevokeSession
<1>2. UserStep /\ ReadStep
    BY ReadReads DEF IInv, UserStep, account, RevokeDeviceRows, Logout, RevokeSession
<1>3. ProgressStep(r)
    <2>1. CASE RevokeDeviceRows(r)
        BY <2>1, GotoMoves, AnswerMoves DEF IInv, Stages, RevokeDeviceRows, Stay
    <2>2. CASE Logout(r)
        BY <2>2, AnswerMoves DEF IInv, Logout, Ask
    <2>3. CASE RevokeSession(r)
        BY <2>3, AnswerMoves DEF IInv, RevokeSession, Handle, Stay
    <2> QED
        BY <2>1, <2>2, <2>3
<1> QED
    BY <1>1, <1>2, <1>3 DEF Step

\* Steps that change the user row; each increments the version.
LEMMA UserSteps ==
    ASSUME IInv, NEW r \in Requests, Lock(r) \/ ChangeRole(r) \/ Commit(r)
    PROVE  Step(r)
<1>1. UserStep
    BY DEF UserStep, Lock, ChangeRole, Commit, WithRole, Changed, Account, tokens
<1>2. Closes
    BY KeptCloses, RevokedCloses
    DEF IInv, Lock, ChangeRole, Commit, RevokedBy, tokens
<1>3. ReadStep
    BY ReadReads DEF IInv, Lock, ChangeRole, Commit
<1>4. ProgressStep(r)
    <2>1. CASE Lock(r)
        BY <2>1, GotoMoves DEF IInv, Stages, Lock, Stay
    <2>2. CASE ChangeRole(r)
        BY <2>2, AnswerMoves DEF IInv, ChangeRole, Stay
    <2>3. CASE Commit(r)
        BY <2>3, AnswerMoves DEF IInv, Commit, Stay
    <2> QED
        BY <2>1, <2>2, <2>3
<1> QED
    BY <1>1, <1>2, <1>3, <1>4 DEF Step

\* The two steps that insert a row.
LEMMA InsertingSteps ==
    ASSUME IInv, NEW r \in Requests, InsertSession(r) \/ Rotate(r)
    PROVE  Step(r)
<1>1. UserStep /\ ReadStep
    BY ReadReads DEF IInv, UserStep, InsertSession, Rotate, account
<1>2. ProgressStep(r) /\ pc'[r] = "done"
    BY AnswerMoves DEF IInv, InsertSession, Rotate, Stay
<1>3. CASE InsertSession(r)
    BY <1>1, <1>2, <1>3 DEF Step, Opens, InsertSession, Stay, account
<1>4. CASE Rotate(r)
    <2>1. CASE StillUnrevoked(call[r].token)
        BY <1>1, <1>2, <1>4, <2>1 DEF Step, Trades, Rotate, StillUnrevoked, account
    <2>2. CASE ~StillUnrevoked(call[r].token)
        BY <1>1, <1>2, <1>4, <2>2, KeptCloses DEF IInv, Step, Rotate
    <2> QED
        BY <2>1, <2>2
<1> QED
    BY <1>3, <1>4

LEMMA ServeStep ==
    ASSUME IInv, NEW r \in Requests, Serve(r)
    PROVE  Step(r)
BY QuietSteps, VersionStep, RevokingSteps, UserSteps, InsertingSteps DEF Serve

\* Time passing touches neither the user nor the tokens nor any request.
LEMMA TimeStep ==
    ASSUME (\E s \in ShortLived : Expire(s)) \/ AttemptAges
    PROVE  UNCHANGED <<user, refresh, access, pc, seen, call>>
BY DEF Expire, AttemptAges, account, tokens, server

-----------------------------------------------------------------------------

LEMMA InitIInv == Init => IInv
BY IdsAssumption
DEF Init, IInv, Rows, Unspent, Versions, Stages, Row, NoRow, NoToken, Nothing,
    Account, Sessions

\* A step keeps the rows well formed.
LEMMA StepRows ==
    ASSUME IInv, NEW r \in Requests, Step(r)
    PROVE  Rows'
<1>1. CASE Closes
    BY <1>1 DEF IInv, Rows, Closes, WithState, Row
<1>2. CASE Opens(r)
    BY <1>2 DEF IInv, Rows, Opens, Row, Sessions
<1>3. CASE Trades(r)
    BY <1>3 DEF IInv, Rows, Trades, Unrevoked, Revoked, WithState, Row, Sessions
<1> QED
    BY <1>1, <1>2, <1>3 DEF Step

\* Only the request that inserts a row is over afterwards.
LEMMA StepUnspent ==
    ASSUME IInv, NEW r \in Requests, Step(r)
    PROVE  Unspent'
<1> SUFFICES ASSUME NEW q \in Requests, pc'[q] # "done"
             PROVE  refresh'[q] = NoRow /\ access'[q] = NoToken
    BY DEF Unspent
<1>1. refresh[q] = NoRow /\ access[q] = NoToken
    BY DEF Step, ProgressStep, IInv, Unspent
<1>2. CASE Closes
    BY <1>1, <1>2 DEF Closes, NoRow, Row, Sessions
<1>3. CASE Opens(r)
    BY <1>1, <1>3 DEF Opens, Sessions, IInv, Rows, Versions
<1>4. CASE Trades(r)
    <2>1. q # r /\ q \in Sessions /\ refresh[q].state # "live"
        BY <1>1, <1>4 DEF Trades, Sessions, NoRow, Row
    <2>2. refresh'[q] = refresh[q]
        BY <1>4, <2>1 DEF Trades, Revoked
    <2>3. access'[q] = access[q]
        BY <1>4, <2>1 DEF Trades, IInv, Versions
    <2> QED
        BY <1>1, <2>2, <2>3
<1> QED
    BY <1>2, <1>3, <1>4 DEF Step

\* Versions only grow, and are read before they are signed.
LEMMA StepVersions ==
    ASSUME IInv, NEW r \in Requests, Step(r)
    PROVE  Versions'
<1>1. /\ user'.tokenVersion \in Nat
      /\ user'.tokenVersion >= user.tokenVersion
    BY DEF Step, UserStep, IInv, Versions
<1>2. \A q \in Requests : seen'[q].version \in 0..user'.tokenVersion
    BY <1>1 DEF Step, ReadStep, IInv, Versions
<1>3. /\ access' = [s \in Sessions |-> access'[s]]
      /\ \A s \in Sessions : access'[s].version \in 0..user'.tokenVersion
    <2>1. CASE access' = access
        BY <1>1, <2>1 DEF IInv, Versions
    <2>2. CASE access' = [access EXCEPT ![r] = Claims(r)]
        <3>1. Claims(r).version \in 0..user.tokenVersion
            BY DEF Claims, IInv, Versions
        <3> QED
            BY <1>1, <2>2, <3>1 DEF IInv, Versions
    <2> QED
        BY <2>1, <2>2 DEF Step, Closes, Opens, Trades
<1> QED
    BY <1>1, <1>2, <1>3 DEF Versions, Step, ReadStep

LEMMA NextIInv == IInv /\ [Next]_vars => IInv'
<1> SUFFICES ASSUME IInv, [Next]_vars PROVE IInv'
    OBVIOUS
<1>1. ASSUME NEW r \in Requests, Serve(r) PROVE IInv'
    <2>1. Step(r)
        BY <1>1, ServeStep
    <2> QED
        BY <2>1, StepRows, StepUnspent, StepVersions DEF IInv, Step, ProgressStep
<1>2. ASSUME UNCHANGED <<user, refresh, access, pc, seen, call>> PROVE IInv'
    BY <1>2 DEF IInv, Rows, Unspent, Versions
<1> QED
    BY <1>1, <1>2, TimeStep DEF Next, vars, account, tokens, server

\* Whatever requests race each other, no request that is still under way owns a
\* token, and no token or reading is ahead of the account's version.
THEOREM SessionsInvariance == Spec => []IInv
<1> QED
    BY InitIInv, NextIInv, PTL DEF Spec

-----------------------------------------------------------------------------
\* Access tokens.

\* Whatever changes the user row outdates every access token there is.
LEMMA ChangeOutdates ==
    ASSUME IInv, [Next]_vars, user' # user, NEW s \in Sessions
    PROVE  ~Accepted(s)'
<1>1. PICK r \in Requests : Serve(r)
    BY TimeStep DEF Next, vars, account
<1>2. user'.tokenVersion = user.tokenVersion + 1 /\ access' = access
    BY <1>1, ServeStep DEF Step, UserStep
<1> QED
    BY <1>2 DEF IInv, Versions, Accepted

\* An access token, once signed, is never signed again.
LEMMA SignedOnce ==
    ASSUME IInv, [Next]_vars, NEW s \in Sessions, access[s] # NoToken
    PROVE  access'[s] = access[s]
<1>1. ASSUME NEW r \in Requests, Serve(r) PROVE access'[s] = access[s]
    <2>1. Step(r)
        BY <1>1, ServeStep
    <2>2. s # r
        BY <2>1 DEF Step, ProgressStep, IInv, Unspent
    <2> QED
        BY <2>1, <2>2 DEF Step, Closes, Opens, Trades, IInv, Versions
<1> QED
    BY <1>1, TimeStep DEF Next, vars, tokens

\* A change of the password, the role or the status leaves no access token that
\* AuthGuard accepts.
THEOREM AccessEnds == Spec => ChangesEndAccess
<1>1. ASSUME IInv, [Next]_vars,
             <<user.password, user.role, user.status>>'
                # <<user.password, user.role, user.status>>,
             NEW s \in Sessions
      PROVE  ~Accepted(s)'
    BY <1>1, ChangeOutdates
<1>2. IInv /\ [Next]_vars =>
        [<<user.password, user.role, user.status>>'
            # <<user.password, user.role, user.status>>
          => \A s \in Sessions : ~Accepted(s)']_vars
    BY <1>1
<1> QED
    BY <1>2, SessionsInvariance, PTL DEF Spec, ChangesEndAccess

\* An access token that AuthGuard rejects is rejected for good.
THEOREM RejectionLasts == Spec => RejectedForever
<1>1. ASSUME IInv, [Next]_vars, NEW s \in Sessions, access[s] # NoToken, ~Accepted(s)
      PROVE  ~Accepted(s)'
    <2>1. CASE user' = user
        BY <1>1, <2>1, SignedOnce DEF Accepted
    <2>2. CASE user' # user
        BY <1>1, <2>2, ChangeOutdates
    <2> QED
        BY <2>1, <2>2
<1>2. IInv /\ [Next]_vars =>
        [\A s \in Sessions : access[s] # NoToken /\ ~Accepted(s) => ~Accepted(s)']_vars
    BY <1>1
<1> QED
    BY <1>2, SessionsInvariance, PTL DEF Spec, RejectedForever

-----------------------------------------------------------------------------
\* Refresh tokens.

LEMMA InitRotation == Init => R!Init
BY IdsAssumption
DEF Init, R!Init, Unrevoked, Row, NoRow, Sessions

LEMMA ClosesRotates ==
    ASSUME IInv, Closes
    PROVE  [R!Next]_(R!vars)
<1> DEFINE closed == {s \in Unrevoked : refresh'[s] # refresh[s]}
<1>1. \A s \in Sessions : refresh'[s].family = refresh[s].family
    BY DEF Closes, WithState, Row
<1>2. Unrevoked' = Unrevoked \ closed
    BY DEF Closes, Unrevoked, WithState, Row
<1>3. R!Close(closed)
    BY <1>1, <1>2 DEF R!Close
<1>4. closed \in SUBSET Unrevoked
    OBVIOUS
<1> QED
    BY <1>3, <1>4 DEF R!Next

LEMMA OpensRotates ==
    ASSUME IInv, NEW r \in Requests, Step(r), Opens(r)
    PROVE  R!Next
<1>1. r \in Sessions /\ refresh[r] = NoRow
    BY DEF Sessions, IInv, Unspent, Step, ProgressStep
<1>2. refresh' = [refresh EXCEPT ![r] = Row("live", call[r].device, r, call[r].password)]
    BY DEF Opens
<1>3. /\ [s \in Sessions |-> refresh[s].family]' =
             [[s \in Sessions |-> refresh[s].family] EXCEPT ![r] = r]
      /\ Unrevoked' = Unrevoked \cup {r}
    BY <1>1, <1>2 DEF IInv, Rows, Unrevoked, Row
<1>4. R!Open(r)
    BY <1>1, <1>3 DEF R!Open, R!Issue, NoRow, Row
<1> QED
    BY <1>1, <1>4 DEF R!Next

LEMMA RefreshTrades ==
    ASSUME NEW r \in Sessions, refresh[r] = NoRow,
           NEW t \in Unrevoked,
           refresh' = [Revoked({t}) EXCEPT ![r] = WithState("live", t)]
    PROVE  R!Trade(t, r)
<1>1. t \in Sessions /\ t # r /\ r \notin Unrevoked
    BY DEF Unrevoked, NoRow, Row
<1>2. /\ refresh'[r] = WithState("live", t)
      /\ refresh'[t] = WithState("revoked", t)
      /\ \A s \in Sessions \ {r, t} : refresh'[s] = refresh[s]
    BY <1>1 DEF Revoked, Unrevoked
<1>3. /\ refresh'[r].family = refresh[t].family /\ refresh'[r].state = "live"
      /\ refresh'[t].family = refresh[t].family /\ refresh'[t].state = "revoked"
    BY <1>2 DEF WithState, Row
<1>4. [s \in Sessions |-> refresh[s].family]' =
         [[s \in Sessions |-> refresh[s].family] EXCEPT ![r] = refresh[t].family]
    <2>1. \A s \in Sessions \ {r} : refresh'[s].family = refresh[s].family
        BY <1>2, <1>3
    <2> QED
        BY <1>3, <2>1
<1>5. Unrevoked' = (Unrevoked \ {t}) \cup {r}
    BY <1>1, <1>2, <1>3 DEF Unrevoked
<1>6. refresh[r].family = None
    BY DEF NoRow, Row
<1> QED
    BY <1>1, <1>4, <1>5, <1>6 DEF R!Trade, R!Issue

LEMMA TradesRotates ==
    ASSUME IInv, NEW r \in Requests, Step(r), Trades(r)
    PROVE  R!Next
<1>1. r \in Sessions /\ refresh[r] = NoRow
    BY DEF Sessions, IInv, Unspent, Step, ProgressStep
<1>2. R!Trade(call[r].token, r)
    BY <1>1, RefreshTrades DEF Trades
<1>3. call[r].token \in Sessions
    BY DEF Trades, Unrevoked
<1> QED
    BY <1>1, <1>2, <1>3 DEF R!Next

LEMMA NextRotation == IInv /\ [Next]_vars => [R!Next]_(R!vars)
<1> SUFFICES ASSUME IInv, [Next]_vars PROVE [R!Next]_(R!vars)
    OBVIOUS
<1>1. ASSUME NEW r \in Requests, Serve(r) PROVE [R!Next]_(R!vars)
    <2>1. Step(r)
        BY <1>1, ServeStep
    <2> QED
        BY <2>1, ClosesRotates, OpensRotates, TradesRotates DEF Step
<1>2. ASSUME refresh' = refresh PROVE UNCHANGED R!vars
    BY <1>2 DEF R!vars, Unrevoked
<1> QED
    BY <1>1, <1>2, TimeStep DEF Next, vars, tokens

\* Every step of every request opens a session, trades a live token for one of
\* the same login, closes tokens, or leaves them as they are.
THEOREM SessionsImplementRotation == Spec => ImplementsRotation
<1> QED
    BY InitRotation, NextRotation, SessionsInvariance, PTL
    DEF Spec, R!Spec, ImplementsRotation

\* A family is named after a token that has been issued.
Rooted == \A s \in Sessions :
    refresh[s].family # None =>
        /\ refresh[s].family \in Sessions
        /\ refresh[refresh[s].family].family # None

\* Families f and live tokens L are in order: families are named after issued
\* tokens, and each has at most one live token.
InOrder(f, L) ==
    /\ L \subseteq Sessions
    /\ \A s \in Sessions : f[s] # None => f[s] \in Sessions /\ f[f[s]] # None
    /\ \A s \in L : f[s] # None
    /\ \A s, u \in L : f[s] = f[u] => s = u

\* A token t becomes the first of a family of its own.
Starts(f, L, g, M, t) ==
    f[t] = None /\ M = L \cup {t} /\ g[t] = t /\ \A s \in Sessions \ {t} : g[s] = f[s]

\* A token v takes the place of t, the live one of its family.
Replaces(f, L, g, M, t, v) ==
    /\ t \in L /\ f[v] = None /\ M = (L \ {t}) \cup {v}
    /\ g[v] = f[t] /\ \A s \in Sessions \ {v} : g[s] = f[s]

LEMMA OpenKeepsOrder ==
    ASSUME NEW f, NEW g, NEW L, NEW M, NEW t \in Sessions,
           InOrder(f, L), Starts(f, L, g, M, t)
    PROVE  InOrder(g, M)
<1> USE DEF InOrder, Starts
<1>1. t # None /\ t \notin L
    BY IdsAssumption
<1>2. \A s \in Sessions : f[s] # t
    BY <1>1
<1>3. \A s \in Sessions : g[s] # None => g[s] \in Sessions /\ g[g[s]] # None
    <2> SUFFICES ASSUME NEW s \in Sessions, g[s] # None
                 PROVE  g[s] \in Sessions /\ g[g[s]] # None
        OBVIOUS
    <2>1. CASE s = t
        BY <2>1, <1>1
    <2>2. CASE s # t
        BY <2>2, <1>2
    <2> QED
        BY <2>1, <2>2
<1>4. \A s \in L : s \in Sessions \ {t} /\ g[s] = f[s] /\ g[s] # t
    BY <1>1, <1>2
<1>5. \A s \in M : g[s] # None
    BY <1>1, <1>4
<1>6. \A s, u \in M : g[s] = g[u] => s = u
    BY <1>4
<1>7. M \subseteq Sessions
    OBVIOUS
<1> QED
    BY <1>3, <1>5, <1>6, <1>7

LEMMA TradeKeepsOrder ==
    ASSUME NEW f, NEW g, NEW L, NEW M, NEW t \in Sessions, NEW v \in Sessions,
           InOrder(f, L), Replaces(f, L, g, M, t, v)
    PROVE  InOrder(g, M)
<1> USE DEF InOrder, Replaces
<1>1. v # None /\ v \notin L /\ f[t] # None
    BY IdsAssumption
<1>2. \A s \in Sessions : f[s] # v
    BY <1>1
<1>3. \A s \in Sessions : g[s] # None => g[s] \in Sessions /\ g[g[s]] # None
    <2> SUFFICES ASSUME NEW s \in Sessions, g[s] # None
                 PROVE  g[s] \in Sessions /\ g[g[s]] # None
        OBVIOUS
    <2>1. CASE s = v
        BY <2>1, <1>1, <1>2
    <2>2. CASE s # v
        BY <2>2, <1>2
    <2> QED
        BY <2>1, <2>2
<1>4. \A s \in L \ {t} : s \in Sessions \ {v} /\ g[s] = f[s] /\ g[s] # f[t]
    BY <1>1
<1>5. \A s \in M : g[s] # None
    BY <1>1, <1>4
<1>6. \A s, u \in M : g[s] = g[u] => s = u
    BY <1>4
<1>7. M \subseteq Sessions
    OBVIOUS
<1> QED
    BY <1>3, <1>5, <1>6, <1>7

LEMMA NextOneSession ==
    Rooted /\ OneSessionPerLogin /\ [R!Next]_(R!vars)
        => Rooted' /\ OneSessionPerLogin'
<1> SUFFICES ASSUME Rooted, OneSessionPerLogin, [R!Next]_(R!vars)
             PROVE  Rooted' /\ OneSessionPerLogin'
    OBVIOUS
<1> DEFINE f == [s \in Sessions |-> refresh[s].family]
           g == [s \in Sessions |-> refresh'[s].family]
<1>1. InOrder(f, Unrevoked)
    BY DEF Rooted, OneSessionPerLogin, R!OneLivePerFamily, Unrevoked, InOrder
<1>2. \/ \E t \in Sessions : f[t] = None /\ g = [f EXCEPT ![t] = t]
                              /\ Unrevoked' = Unrevoked \cup {t}
      \/ \E t, u \in Sessions : /\ t \in Unrevoked /\ f[u] = None
                                 /\ g = [f EXCEPT ![u] = f[t]]
                                 /\ Unrevoked' = (Unrevoked \ {t}) \cup {u}
      \/ Unrevoked' \subseteq Unrevoked /\ g = f
    BY DEF R!Next, R!Open, R!Trade, R!Close, R!Issue, R!vars
<1>3. \/ \E t \in Sessions : Starts(f, Unrevoked, g, Unrevoked', t)
      \/ \E t, u \in Sessions : Replaces(f, Unrevoked, g, Unrevoked', t, u)
      \/ Unrevoked' \subseteq Unrevoked /\ g = f
    <2>1. ASSUME NEW t \in Sessions, f[t] = None, g = [f EXCEPT ![t] = t],
                 Unrevoked' = Unrevoked \cup {t}
          PROVE  Starts(f, Unrevoked, g, Unrevoked', t)
        BY <2>1 DEF Starts
    <2>2. ASSUME NEW t \in Unrevoked, NEW u \in Sessions, f[u] = None,
                 g = [f EXCEPT ![u] = f[t]],
                 Unrevoked' = (Unrevoked \ {t}) \cup {u}
          PROVE  Replaces(f, Unrevoked, g, Unrevoked', t, u)
        BY <2>2 DEF Replaces
    <2> HIDE DEF f, g
    <2> QED
        BY <1>2, <2>1, <2>2
<1>4. InOrder(g, Unrevoked')
    <2> HIDE DEF f, g
    <2>1. CASE Unrevoked' \subseteq Unrevoked /\ g = f
        BY <1>1, <2>1 DEF InOrder
    <2> QED
        BY <1>1, <1>3, <2>1, OpenKeepsOrder, TradeKeepsOrder
<1> QED
    BY <1>4 DEF Rooted, OneSessionPerLogin, R!OneLivePerFamily, InOrder, Unrevoked

\* No login ever has two live refresh tokens, however many clients present its
\* tokens and at whatever moment.
THEOREM OneSession == Spec => []OneSessionPerLogin
<1>1. Init => Rooted /\ OneSessionPerLogin
    <2> SUFFICES ASSUME Init PROVE Rooted /\ OneSessionPerLogin
        OBVIOUS
    <2>1. \A s \in Sessions :
              refresh[s] = IF s = Prior THEN Row("live", Device0, Prior, Password0) ELSE NoRow
        BY DEF Init
    <2>2. \A s \in Sessions : refresh[s].family = IF s = Prior THEN Prior ELSE None
        BY <2>1 DEF Row, NoRow
    <2>3. \A s \in Unrevoked : s = Prior
        BY <2>1 DEF Unrevoked, Row, NoRow
    <2>4. Prior \in Sessions /\ Prior # None
        BY IdsAssumption DEF Sessions
    <2>5. Unrevoked \subseteq Sessions
        BY DEF Unrevoked
    <2> QED
        BY <2>2, <2>3, <2>4, <2>5 DEF Rooted, OneSessionPerLogin, R!OneLivePerFamily
<1> QED
    BY <1>1, NextOneSession, NextRotation, SessionsInvariance, PTL DEF Spec

-----------------------------------------------------------------------------
\* The lock after failed logins.

Counting == \E r \in Requests : pc[r] \in {"count", "lock"}

FailuresCounted ==
    /\ failures \in Nat /\ forgiven \in Nat
    /\ failures >= MaxFailures /\ failures > forgiven /\ ~Counting => user.status # "ACTIVE"

\* A step of a request that is not about to count leaves those that are.
LEMMA CountingLasts ==
    ASSUME IInv, NEW r \in Requests, ProgressStep(r), pc[r] \notin {"count", "lock"}, Counting
    PROVE  Counting'
BY DEF IInv, ProgressStep, Counting

LEMMA AttemptCounts ==
    ASSUME IInv, NEW r \in Requests, Attempt(r), FailuresCounted
    PROVE  FailuresCounted'
<1>1. pc'[r] = "count"
    BY DEF IInv, Attempt, Goto
<1> QED
    BY <1>1 DEF FailuresCounted, Attempt, Counting

LEMMA CountCounts ==
    ASSUME IInv, NEW r \in Requests, Count(r), FailuresCounted
    PROVE  FailuresCounted'
<1>1. UNCHANGED <<failures, forgiven, user>>
    BY DEF Count, account
<1>2. CASE TooMany
    <2>1. pc'[r] = "lock"
        BY <1>2 DEF IInv, Count, Goto
    <2> QED
        BY <1>1, <2>1 DEF FailuresCounted, Counting
<1>3. CASE ~TooMany
    BY <1>1, <1>3, BoundsAssumption DEF FailuresCounted, TooMany
<1> QED
    BY <1>2, <1>3

LEMMA ChangeCounts ==
    ASSUME IInv, NEW r \in Requests, Lock(r) \/ ChangeRole(r) \/ Commit(r), FailuresCounted
    PROVE  FailuresCounted'
<1>1. CASE Lock(r)
    BY <1>1 DEF Lock, Account, FailuresCounted
<1>2. CASE ChangeRole(r)
    <2>1. user'.status = user.status /\ UNCHANGED <<failures, forgiven>>
        BY <1>2 DEF ChangeRole, WithRole, Account
    <2>2. Counting => Counting'
        BY <1>2, UserSteps, CountingLasts DEF Step, ChangeRole, Stay
    <2> QED
        BY <2>1, <2>2 DEF FailuresCounted
<1>3. CASE Commit(r)
    <2>1. /\ failures' = failures
          /\ \/ user'.status = user.status /\ forgiven' = forgiven
             \/ user'.status # "ACTIVE" /\ forgiven' = forgiven
             \/ forgiven' = failures
        BY <1>3 DEF Commit, Changed, Account
    <2>2. Counting => Counting'
        BY <1>3, UserSteps, CountingLasts DEF Step, Commit, Stay
    <2> QED
        BY <2>1, <2>2 DEF FailuresCounted
<1> QED
    BY <1>1, <1>2, <1>3

\* Every other step leaves the failures, the status and whoever counts alone.
LEMMA RestCounts ==
    ASSUME IInv, NEW r \in Requests, FailuresCounted,
           \/ Login(r) \/ LogLock(r)
           \/ KnowDevice(r) \/ RegisterDevice(r) \/ MfaLogin(r) \/ FindDeviceRows(r)
           \/ Refresh(r) \/ Authenticate(r) \/ ChangePassword(r) \/ RevokeDevice(r)
           \/ RevokeAll(r) \/ ForgotPassword(r) \/ FindResetRows(r) \/ ReplaceResetRows(r)
           \/ ResetPassword(r) \/ UpdateStatus(r) \/ UpdateRole(r) \/ Begin(r)
           \/ Abort(r) \/ ReadVersion(r) \/ RevokeDeviceRows(r) \/ Logout(r)
           \/ RevokeSession(r) \/ InsertSession(r) \/ Rotate(r)
    PROVE  FailuresCounted'
<1>1. UNCHANGED <<failures, forgiven, user>>
    BY DEF account, Login, LogLock, KnowDevice, RegisterDevice, MfaLogin, FindDeviceRows, Refresh,
       Authenticate, ChangePassword, RevokeDevice, RevokeAll, ForgotPassword, FindResetRows,
       ReplaceResetRows, ResetPassword, UpdateStatus, UpdateRole, Begin, Abort, ReadVersion,
       RevokeDeviceRows, Logout, RevokeSession, InsertSession, Rotate
<1>2. pc[r] \notin {"count", "lock"}
    BY DEF Ask, Stay, Handle, Login, LogLock, KnowDevice, RegisterDevice, MfaLogin,
       FindDeviceRows, Refresh, Authenticate, ChangePassword, RevokeDevice, RevokeAll,
       ForgotPassword, FindResetRows, ReplaceResetRows, ResetPassword, UpdateStatus, UpdateRole,
       Begin, Abort, ReadVersion, RevokeDeviceRows, Logout, RevokeSession, InsertSession, Rotate
<1>3. ProgressStep(r)
    BY ServeStep DEF Serve, Step
<1> QED
    BY <1>1, <1>2, <1>3, CountingLasts DEF FailuresCounted

LEMMA NextCounted == IInv /\ FailuresCounted /\ [Next]_vars => FailuresCounted'
<1> SUFFICES ASSUME IInv, FailuresCounted, [Next]_vars PROVE FailuresCounted'
    OBVIOUS
<1>1. ASSUME NEW r \in Requests, Serve(r) PROVE FailuresCounted'
    BY <1>1, AttemptCounts, CountCounts, ChangeCounts, RestCounts DEF Serve
<1>2. ASSUME NEW s \in ShortLived, Expire(s) PROVE UNCHANGED <<failures, forgiven, user, pc>>
    BY <1>2 DEF Expire, account, server
<1>3. CASE AttemptAges
    <2>1. UNCHANGED <<user, pc>>
        BY <1>3 DEF AttemptAges, server
    <2>2. /\ failures > 0 /\ failures' = failures - 1
          /\ forgiven' = IF forgiven > 0 THEN forgiven - 1 ELSE 0
        BY <1>3 DEF AttemptAges
    <2> QED
        BY <2>1, <2>2, BoundsAssumption DEF FailuresCounted, Counting
<1>4. ASSUME UNCHANGED <<failures, forgiven, user, pc>> PROVE FailuresCounted'
    BY <1>4 DEF FailuresCounted, Counting
<1> QED
    BY <1>1, <1>2, <1>3, <1>4 DEF Next, vars, account, server

\* An account with as many failed logins as lock it is not active once they have
\* been counted, unless an administrator has unlocked it since, however the
\* failing logins, the passing of time and changes of the account interleave.
THEOREM FailuresLockAccount == Spec => []FailuresLock
<1>1. Init => FailuresCounted
    BY BoundsAssumption DEF Init, FailuresCounted
<1>2. FailuresCounted => FailuresLock
    BY DEF FailuresCounted, FailuresLock, Counting
<1> QED
    BY <1>1, <1>2, NextCounted, SessionsInvariance, PTL DEF Spec

-----------------------------------------------------------------------------
\* Sessions and the password they were opened with.

\* A step that leaves the user row: how far r has come towards a session.
Towards(r) ==
    /\ user' = user /\ straddled' = straddled
    /\ call' = [q \in Requests |-> call'[q]] /\ challenge' = [q \in Requests |-> challenge'[q]]
    /\ \A q \in Requests \ {r} : /\ call'[q] = call[q] /\ pc'[q] = pc[q]
                                 /\ seen'[q] = seen[q] /\ challenge'[q] = challenge[q]
    /\ call'[r].op \in Logins /\ pc'[r] \in UnderWay =>
          \/ call[r].op \in Logins /\ pc[r] \in UnderWay /\ call'[r] = call[r]
          \/ call'[r].password = user.password
    /\ pc'[r] \in {"device", "register"} =>
          \/ /\ pc[r] \in {"device", "register"} /\ call'[r] = call[r]
             /\ seen'[r].version = seen[r].version
          \/ call'[r].password = user.password
    /\ pc'[r] = "insert" => call'[r].op \in Logins
    /\ \/ challenge'[r] = challenge[r] /\ pc[r] # "done"
       \/ /\ pc[r] \in {"device", "register"} /\ pc'[r] = "done" /\ call'[r] = call[r]
          /\ challenge'[r].version = seen[r].version

LEMMA TowardsShown ==
    ASSUME IInv, PasswordsShown, NEW r \in Requests, Towards(r)
    PROVE  PasswordsShown'
<1>1. ASSUME NEW q \in Requests \ {r} PROVE PasswordShown(q)'
    BY DEF PasswordsShown, PasswordShown, Towards
<1>2. PasswordShown(r)'
    <2>1. PasswordShown(r) /\ user' = user /\ straddled' = straddled
        BY DEF PasswordsShown, Towards
    <2>2. call'[r].op \in Logins /\ pc'[r] \in UnderWay =>
              call'[r].password = user.password \/ r \in straddled
        BY <2>1 DEF PasswordShown, Towards
    <2>3. pc'[r] \in {"device", "register"} /\ seen'[r].version = user.tokenVersion =>
              call'[r].password = user.password
        BY <2>1 DEF PasswordShown, Towards
    <2>4. challenge'[r] # NoToken =>
              /\ pc'[r] = "done" /\ challenge'[r].version \in 0..user.tokenVersion
              /\ challenge'[r].version = user.tokenVersion => call'[r].password = user.password
        <3>1. CASE challenge'[r] = challenge[r] /\ pc[r] # "done"
            BY <2>1, <3>1 DEF PasswordShown
        <3>2. CASE /\ pc[r] \in {"device", "register"} /\ pc'[r] = "done" /\ call'[r] = call[r]
                   /\ challenge'[r].version = seen[r].version
            BY <2>1, <3>2 DEF PasswordShown, IInv, Versions
        <3> QED
            BY <3>1, <3>2 DEF Towards
    <2> QED
        BY <2>1, <2>2, <2>3, <2>4 DEF PasswordShown, Towards
<1> QED
    BY <1>1, <1>2 DEF PasswordsShown, Towards

\* A step that takes r nowhere near a session.
LEMMA Elsewhere ==
    ASSUME IInv, PasswordsShown, NEW r \in Requests, Serve(r),
           UNCHANGED <<user, straddled, challenge>>,
           UNCHANGED call \/ (\E c : call' = [call EXCEPT ![r] = c]),
           seen' = [seen EXCEPT ![r] = seen'[r]],
           pc'[r] \notin UnderWay \/ (pc'[r] = "revoking" /\ call'[r].op \notin Logins)
    PROVE  Towards(r)
<1>1. pc[r] # "done" /\ \A q \in Requests \ {r} : pc'[q] = pc[q]
    BY ServeStep DEF Step, ProgressStep
<1>2. \A q \in Requests \ {r} : seen'[q] = seen[q]
    BY DEF IInv, Versions
<1>3. /\ call' = [q \in Requests |-> call'[q]]
      /\ \A q \in Requests \ {r} : call'[q] = call[q]
    <2>1. call = [q \in Requests |-> call[q]]
        BY DEF PasswordsShown
    <2>2. CASE UNCHANGED call
        BY <2>1, <2>2
    <2>3. CASE \E c : call' = [call EXCEPT ![r] = c]
        BY <2>1, <2>3
    <2> QED
        BY <2>2, <2>3
<1>4. challenge' = [q \in Requests |-> challenge'[q]] /\ challenge' = challenge
    BY DEF PasswordsShown
<1> QED
    BY <1>1, <1>2, <1>3, <1>4 DEF Towards, UnderWay

LEMMA ElsewhereSteps ==
    ASSUME IInv, PasswordsShown, NEW r \in Requests,
           \/ Attempt(r) \/ Count(r) \/ LogLock(r)
           \/ Refresh(r) \/ Authenticate(r) \/ ChangePassword(r) \/ RevokeDevice(r)
           \/ RevokeAll(r) \/ ForgotPassword(r) \/ FindResetRows(r) \/ ReplaceResetRows(r)
           \/ ResetPassword(r) \/ UpdateStatus(r) \/ UpdateRole(r) \/ Begin(r)
           \/ Abort(r) \/ Logout(r) \/ RevokeSession(r) \/ InsertSession(r) \/ Rotate(r)
    PROVE  Towards(r)
<1>1. UNCHANGED <<user, straddled, challenge>>
    BY DEF account, tokens, Attempt, Count, LogLock, Refresh, Authenticate, ChangePassword,
       RevokeDevice, RevokeAll, ForgotPassword, FindResetRows, ReplaceResetRows, ResetPassword,
       UpdateStatus, UpdateRole, Begin, Abort, Logout, RevokeSession, InsertSession, Rotate
<1>2. UNCHANGED call \/ (\E c : call' = [call EXCEPT ![r] = c])
    BY DEF Ask, Stay, Handle, Attempt, Count, LogLock, Refresh, Authenticate, ChangePassword,
       RevokeDevice, RevokeAll, ForgotPassword, FindResetRows, ReplaceResetRows, ResetPassword,
       UpdateStatus, UpdateRole, Begin, Abort, Logout, RevokeSession, InsertSession, Rotate
<1>3. seen' = [seen EXCEPT ![r] = seen'[r]]
    BY DEF IInv, Versions, Read, See, Attempt, Count, LogLock, Refresh, Authenticate,
       ChangePassword, RevokeDevice, RevokeAll, ForgotPassword, FindResetRows,
       ReplaceResetRows, ResetPassword, UpdateStatus, UpdateRole, Begin, Abort, Logout,
       RevokeSession, InsertSession, Rotate
<1>4. CASE RevokeDevice(r)
    <2>1. pc'[r] \notin UnderWay \/ (pc'[r] = "revoking" /\ call'[r].op \notin Logins)
        BY <1>4 DEF RevokeDevice, Handle, Stay, Goto, Answer, IInv, UnderWay, Logins
    <2> QED
        BY <1>1, <1>2, <1>3, <1>4, <2>1, Elsewhere DEF Serve
<1>5. CASE ~RevokeDevice(r)
    <2>1. pc'[r] \notin UnderWay
        BY <1>5 DEF Goto, Answer, IInv, UnderWay, Attempt, Count, LogLock, Refresh,
           Authenticate, ChangePassword, RevokeAll, ForgotPassword, FindResetRows,
           ReplaceResetRows, ResetPassword, UpdateStatus, UpdateRole, Begin, Abort, Logout,
           RevokeSession, InsertSession, Rotate
    <2> QED
        BY <1>1, <1>2, <1>3, <2>1, Elsewhere DEF Serve
<1> QED
    BY <1>4, <1>5

\* The steps of a login.
LEMMA LoginSteps ==
    ASSUME IInv, PasswordsShown, NEW r \in Requests,
           \/ Login(r) \/ MfaLogin(r) \/ KnowDevice(r) \/ RegisterDevice(r)
           \/ ReadVersion(r) \/ FindDeviceRows(r) \/ RevokeDeviceRows(r)
    PROVE  Towards(r)
<1>0. /\ pc \in [Requests -> Stages] /\ seen = [q \in Requests |-> seen[q]]
      /\ call = [q \in Requests |-> call[q]] /\ challenge = [q \in Requests |-> challenge[q]]
    BY DEF IInv, Versions, PasswordsShown
<1> USE DEF account, tokens, Towards, UnderWay, Goto, Answer, Stay, See
<1>1. CASE Login(r)
    <2>1. PICK p \in Passwords, d \in Devices :
              /\ Ask(r, [NoCall EXCEPT !.op = "login", !.password = p, !.device = d])
              /\ Read(r)
              /\ IF user.status # "ACTIVE" THEN Answer(r, "refused")
                 ELSE Goto(r, IF p = user.password THEN "device" ELSE "attempt")
              /\ UNCHANGED <<account, tokens, trail>>
        BY <1>1 DEF Login
    <2>2. call'[r].password = p /\ pc[r] = "idle" /\ \A q \in Requests \ {r} : call'[q] = call[q]
        BY <1>0, <2>1 DEF Ask, NoCall
    <2> QED
        BY <1>0, <2>1, <2>2 DEF Ask, Read
<1>2. CASE MfaLogin(r)
    <2>1. PICK q \in Requests, right \in BOOLEAN :
              /\ challenge[q] # NoToken
              /\ Ask(r, [NoCall EXCEPT !.op = "mfaLogin", !.token = q,
                            !.password = call[q].password, !.device = call[q].device])
              /\ Read(r)
              /\ IF user.status # "ACTIVE" \/ user.tokenVersion # challenge[q].version
                 THEN Answer(r, "refused")
                 ELSE Goto(r, "issue") \/ Answer(r, "refused")
              /\ UNCHANGED <<account, tokens>>
        BY <1>2 DEF MfaLogin
    <2>2. /\ call'[r].password = call[q].password /\ pc[r] = "idle"
          /\ \A s \in Requests \ {r} : call'[s] = call[s]
        BY <1>0, <2>1 DEF Ask, NoCall
    <2>3. challenge[q].version = user.tokenVersion => call[q].password = user.password
        BY <2>1 DEF PasswordsShown, PasswordShown
    <2> QED
        BY <1>0, <2>1, <2>2, <2>3 DEF Ask, Read
<1>3. CASE KnowDevice(r) \/ RegisterDevice(r)
    <2>1. /\ pc[r] \in {"device", "register"}
          /\ UNCHANGED <<call, seen, user, straddled>>
          /\ \/ Challenge(r)
             \/ UNCHANGED challenge /\ \E stage \in {"issue", "register", "done"} :
                                          pc' = [pc EXCEPT ![r] = stage]
        BY <1>3 DEF KnowDevice, RegisterDevice, PasswordVerified
    <2>2. CASE Challenge(r)
        <3>1. /\ pc' = [pc EXCEPT ![r] = "done"]
              /\ challenge' = [challenge EXCEPT ![r] =
                                  [role |-> seen[r].role, version |-> seen[r].version]]
            BY <2>2 DEF Challenge
        <3>2. pc'[r] = "done" /\ challenge'[r].version = seen[r].version
            BY <1>0, <3>1
        <3> QED
            BY <1>0, <2>1, <3>1, <3>2
    <2>3. CASE UNCHANGED challenge /\ \E stage \in {"issue", "register", "done"} :
                                          pc' = [pc EXCEPT ![r] = stage]
        BY <1>0, <2>1, <2>3
    <2> QED
        BY <2>1, <2>2, <2>3
<1>5. CASE ReadVersion(r)
    BY <1>0, <1>5 DEF ReadVersion
<1>6. CASE FindDeviceRows(r)
    BY <1>0, <1>6 DEF FindDeviceRows
<1>7. CASE RevokeDeviceRows(r)
    BY <1>0, <1>7 DEF RevokeDeviceRows
<1> QED
    BY <1>1, <1>2, <1>3, <1>5, <1>6, <1>7

\* The steps that change the user row: a new version, under which nothing has been
\* read yet; and of the password, only with everyone under way straddling it.
LEMMA ChangeShown ==
    ASSUME IInv, PasswordsShown, NEW r \in Requests, Lock(r) \/ ChangeRole(r) \/ Commit(r)
    PROVE  /\ PasswordsShown'
           /\ \/ user'.password = user.password /\ straddled' = straddled
              \/ /\ refresh' = Revoked(seen[r].rows)
                 /\ straddled' = straddled \cup Opening
                                   \cup {refresh[s].family : s \in Unrevoked \ seen[r].rows}
<1>1. /\ user'.tokenVersion = user.tokenVersion + 1
      /\ \/ user'.password = user.password /\ straddled' = straddled
         \/ /\ refresh' = Revoked(seen[r].rows)
            /\ straddled' = straddled \cup Opening
                              \cup {refresh[s].family : s \in Unrevoked \ seen[r].rows}
      /\ UNCHANGED <<call, seen, challenge>>
    <2>1. CASE Lock(r)
        BY <2>1 DEF Lock, Account, tokens, Stay
    <2>2. CASE ChangeRole(r)
        BY <2>2 DEF ChangeRole, WithRole, Account, tokens, Stay
    <2>3. CASE Commit(r)
        BY <2>3 DEF Commit, Changed, Account, RevokedBy, Stay
    <2> QED
        BY <2>1, <2>2, <2>3
<1>2. /\ pc'[r] \in {"logLock", "done"} /\ pc[r] \in {"lock", "role", "commit"}
      /\ \A q \in Requests \ {r} : pc'[q] = pc[q]
    BY DEF IInv, Lock, ChangeRole, Commit, Goto, Answer, Stay
<1>3. ASSUME NEW q \in Requests PROVE PasswordShown(q)'
    <2>1. /\ PasswordShown(q) /\ user.tokenVersion \in Nat
          /\ seen[q].version \in 0..user.tokenVersion
        BY DEF PasswordsShown, IInv, Versions
    <2>2. call[q].op \in Logins /\ pc'[q] \in UnderWay => pc[q] \in UnderWay /\ q \in Opening
        BY <1>2 DEF UnderWay, Opening
    <2>3. call[q].op \in Logins /\ pc'[q] \in UnderWay =>
              call[q].password = user'.password \/ q \in straddled'
        BY <1>1, <2>1, <2>2 DEF PasswordShown
    <2>4. seen[q].version # user'.tokenVersion
        BY <1>1, <2>1
    <2>5. pc'[q] = "insert" => call[q].op \in Logins
        BY <1>2, <2>1 DEF PasswordShown
    <2>6. challenge[q] # NoToken =>
              /\ pc'[q] = "done" /\ challenge[q].version \in 0..user'.tokenVersion
              /\ challenge[q].version # user'.tokenVersion
        BY <1>1, <1>2, <2>1 DEF PasswordShown
    <2> QED
        BY <1>1, <2>3, <2>4, <2>5, <2>6 DEF PasswordShown
<1>4. PasswordsShown'
    BY <1>1, <1>3 DEF PasswordsShown
<1> QED
    BY <1>1, <1>4

\* Revoking rows, or none, leaves live ones that were live.
LEMMA ClosesKeepsPasswords ==
    ASSUME Closes, NEW s \in Unrevoked'
    PROVE  s \in Unrevoked /\ refresh'[s] = refresh[s]
BY DEF Closes, Unrevoked, WithState, Row

LEMMA ChangeEndsSessions ==
    ASSUME IInv, PasswordsShown, SessionsEndWithPassword,
           NEW r \in Requests, Lock(r) \/ ChangeRole(r) \/ Commit(r)
    PROVE  SessionsEndWithPassword'
<1> SUFFICES ASSUME NEW s \in Unrevoked'
             PROVE  refresh'[s].password = user'.password \/ refresh'[s].family \in straddled'
    BY DEF SessionsEndWithPassword
<1>1. Closes
    <2>1. user' # user
        BY UserSteps DEF IInv, Versions, Lock, ChangeRole, Commit, WithRole, Changed, Account
    <2> QED
        BY <2>1, UserSteps DEF Step, Opens, Trades
<1>2. s \in Unrevoked /\ refresh'[s] = refresh[s]
    BY <1>1, ClosesKeepsPasswords
<1>3. CASE user'.password = user.password /\ straddled' = straddled
    BY <1>2, <1>3 DEF SessionsEndWithPassword
<1>4. CASE /\ refresh' = Revoked(seen[r].rows)
           /\ straddled' = straddled \cup Opening
                             \cup {refresh[t].family : t \in Unrevoked \ seen[r].rows}
    <2>1. s \notin seen[r].rows
        BY <1>2, <1>4 DEF Revoked, Unrevoked, WithState, Row
    <2> QED
        BY <1>2, <1>4, <2>1
<1> QED
    BY <1>3, <1>4, ChangeShown

LEMMA OthersEndSessions ==
    ASSUME IInv, PasswordsShown, SessionsEndWithPassword,
           NEW r \in Requests, Serve(r), UNCHANGED <<user, straddled>>
    PROVE  SessionsEndWithPassword'
<1> SUFFICES ASSUME NEW s \in Unrevoked'
             PROVE  refresh'[s].password = user.password \/ refresh'[s].family \in straddled
    BY DEF SessionsEndWithPassword
<1>1. Step(r)
    BY ServeStep
<1>2. CASE Closes
    BY <1>2, ClosesKeepsPasswords DEF SessionsEndWithPassword
<1>3. CASE Opens(r)
    <2>1. refresh' = [refresh EXCEPT ![r] = Row("live", call[r].device, r, call[r].password)]
        BY <1>3 DEF Opens
    <2>2. call[r].password = user.password \/ r \in straddled
        BY <1>3 DEF Opens, PasswordsShown, PasswordShown, UnderWay
    <2>3. CASE s = r
        BY <2>1, <2>2, <2>3 DEF Row, IInv, Rows, Unrevoked
    <2>4. CASE s # r
        BY <2>1, <2>4 DEF SessionsEndWithPassword, Unrevoked, IInv, Rows
    <2> QED
        BY <2>3, <2>4
<1>4. CASE Trades(r)
    <2> DEFINE t == call[r].token
    <2>1. t \in Unrevoked /\ refresh' = [Revoked({t}) EXCEPT ![r] = WithState("live", t)]
        BY <1>4 DEF Trades
    <2>2. refresh[t].password = user.password \/ refresh[t].family \in straddled
        BY <2>1 DEF SessionsEndWithPassword
    <2>3. CASE s = r
        <3>1. refresh'[s] = WithState("live", t)
            BY <2>1, <2>3 DEF Revoked, Unrevoked
        <3> QED
            BY <2>2, <3>1 DEF WithState, Row
    <2>4. CASE s # r
        <3>1. s \in Sessions /\ refresh'[s] = Revoked({t})[s] /\ refresh'[s].state = "live"
            BY <2>1, <2>4 DEF Unrevoked, Revoked
        <3>2. s \in Unrevoked /\ refresh'[s] = refresh[s]
            BY <3>1 DEF Unrevoked, Revoked, WithState, Row
        <3> QED
            BY <3>2 DEF SessionsEndWithPassword
    <2> QED
        BY <2>3, <2>4
<1> QED
    BY <1>1, <1>2, <1>3, <1>4 DEF Step

LEMMA InitShown == Init => PasswordsShown /\ SessionsEndWithPassword
<1> SUFFICES ASSUME Init PROVE PasswordsShown /\ SessionsEndWithPassword
    OBVIOUS
<1>1. PasswordsShown
    BY DEF Init, PasswordsShown, PasswordShown, UnderWay
<1>2. SessionsEndWithPassword
    BY DEF Init, SessionsEndWithPassword, Unrevoked, Row, NoRow, Account
<1> QED
    BY <1>1, <1>2

LEMMA NextShown ==
    IInv /\ PasswordsShown /\ SessionsEndWithPassword /\ [Next]_vars
        => PasswordsShown' /\ SessionsEndWithPassword'
<1> SUFFICES ASSUME IInv, PasswordsShown, SessionsEndWithPassword, [Next]_vars
             PROVE  PasswordsShown' /\ SessionsEndWithPassword'
    OBVIOUS
<1>1. ASSUME NEW r \in Requests, Lock(r) \/ ChangeRole(r) \/ Commit(r)
      PROVE  PasswordsShown' /\ SessionsEndWithPassword'
    BY <1>1, ChangeShown, ChangeEndsSessions
<1>2. ASSUME NEW r \in Requests, Serve(r), ~(Lock(r) \/ ChangeRole(r) \/ Commit(r))
      PROVE  PasswordsShown' /\ SessionsEndWithPassword'
    <2>1. Towards(r)
        BY <1>2, ElsewhereSteps, LoginSteps DEF Serve
    <2>2. UNCHANGED <<user, straddled>>
        BY <2>1 DEF Towards
    <2> QED
        BY <1>2, <2>1, <2>2, TowardsShown, OthersEndSessions
<1>3. ASSUME UNCHANGED <<user, refresh, straddled, challenge, pc, seen, call>>
      PROVE  PasswordsShown' /\ SessionsEndWithPassword'
    BY <1>3 DEF PasswordsShown, PasswordShown, SessionsEndWithPassword, Unrevoked
<1>4. ASSUME (\E s \in ShortLived : Expire(s)) \/ AttemptAges \/ UNCHANGED vars
      PROVE  UNCHANGED <<user, refresh, straddled, challenge, pc, seen, call>>
    BY <1>4 DEF Expire, AttemptAges, vars, account, tokens, server
<1> QED
    BY <1>1, <1>2, <1>3, <1>4 DEF Next

\* Every live refresh token goes back to a login that showed the account's present
\* password, but for those whose login or refresh was under way as it changed.
THEOREM PasswordEndsSessions == Spec => []SessionsEndWithPassword
    BY InitShown, NextShown, SessionsInvariance, PTL DEF Spec
=============================================================================
