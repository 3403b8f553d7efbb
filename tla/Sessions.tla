------------------------------ MODULE Sessions ------------------------------
(***************************************************************************)
(* The sessions of one account: AuthService (login, MFA login, refresh,    *)
(* logout, passwords, sessions), AuthGuard, and what an administrator does *)
(* to the account (UsersService.updateRole and updateStatus).              *)
(*                                                                         *)
(* As in Transfers, a request is a sequence of awaits and each await is a  *)
(* step of its own.  A database transaction that writes one row of a table *)
(* is one step.  One that revokes "all" rows is two, because under READ    *)
(* COMMITTED its UPDATE sees the rows of the moment it starts (rows) and   *)
(* may wait for a row that a concurrent refresh is replacing: the row that *)
(* the refresh inserts is then not among them.                             *)
(*                                                                         *)
(* A request inserts at most one RefreshToken or PasswordResetToken row    *)
(* and signs at most one JWT, so each of them is named after the request.  *)
(***************************************************************************)
EXTENDS Naturals, FiniteSets

CONSTANTS
    Requests,    \* HTTP requests, each made once
    Prior,       \* the login that opened the session that is there at the start
    None,        \* no such value
    Ops,         \* the operations that requests ask for
    Passwords, Devices, Roles,
    Password0, Device0, Role0,  \* those of the account and of Prior's session
    MfaEnabled,  \* the values of User.mfaEnabled that a login may read
    MaxFailures, \* failed logins that lock the account: 5 in the source
    ShortLived   \* requests whose refresh or reset token may expire meanwhile

Sessions == Requests \cup {Prior}
Statuses == {"ACTIVE", "LOCKED", "SUSPENDED"}

\* Operations behind AuthGuard, and those that change the user's row while
\* they hold its lock.
Guarded == {"changePassword", "revokeSession", "revokeDevice", "revokeAll"}
Locking == {"changePassword", "resetPassword", "updateStatus"}
Logins  == {"login", "mfaLogin"}
Operations == Guarded \cup Locking \cup Logins
                \cup {"refresh", "logout", "forgotPassword", "updateRole"}

ASSUME OpsAssumption == Ops \subseteq Operations
ASSUME IdsAssumption == Prior \notin Requests /\ None \notin Sessions
ASSUME AccountAssumption ==
    /\ Password0 \in Passwords /\ Device0 \in Devices /\ Role0 \in Roles
    /\ MfaEnabled \subseteq BOOLEAN
ASSUME BoundsAssumption == MaxFailures \in Nat \ {0} /\ ShortLived \subseteq Sessions

VARIABLES
    user,       \* the User row: password, role, status, tokenVersion
    devices,    \* deviceId of the account's Device rows
    failures,   \* failed LoginAttempt rows of the last 15 minutes
    refresh,    \* RefreshToken rows
    access,     \* claims of the access tokens that were handed out
    challenge,  \* claims of the MFA challenges that were handed out
    reset,      \* PasswordResetToken rows
    expired,    \* requests whose refresh or reset token is past expiresAt
    trail,      \* SecurityEvent and AuditLog rows
    pc, call, seen, reply,  \* requests: next await, input, what was read, answer
    forgiven,   \* history: failures when an administrator last unlocked
    straddled   \* history: sessions whose opening or refresh overlapped
                \* the password change that should have ended them

account == <<user, devices, failures, forgiven>>
tokens  == <<refresh, access, challenge, reset, expired, straddled>>
server  == <<pc, call, seen, reply>>
vars    == <<account, tokens, trail, server>>

\* A RefreshToken row; family and password are history: the login that the
\* token goes back to, and the password it was opened with.
Row(state, device, family, password) ==
    [state |-> state, device |-> device, family |-> family, password |-> password]

NoRow   == Row("none", None, None, None)
Account(password, role, status, version) ==
    [password |-> password, role |-> role, status |-> status, tokenVersion |-> version]

NoToken == [role |-> None, version |-> 0]
NoCall  == [op |-> "none", token |-> None, password |-> None, device |-> None,
            to |-> None]
Nothing == [role |-> None, version |-> 0, rows |-> {}]

Init ==
    /\ user = Account(Password0, Role0, "ACTIVE", 0)
    /\ devices = {Device0}
    /\ failures = 0 /\ forgiven = 0
    /\ refresh = [s \in Sessions |->
         IF s = Prior THEN Row("live", Device0, Prior, Password0) ELSE NoRow]
    /\ access = [s \in Sessions |->
         IF s = Prior THEN [role |-> Role0, version |-> 0] ELSE NoToken]
    /\ challenge = [r \in Requests |-> NoToken]
    /\ reset = [r \in Requests |-> "none"]
    /\ expired = {} /\ straddled = {} /\ trail = {}
    /\ pc = [r \in Requests |-> "idle"]
    /\ call = [r \in Requests |-> NoCall]
    /\ seen = [r \in Requests |-> Nothing]
    /\ reply = [r \in Requests |-> "none"]

-----------------------------------------------------------------------------
\* The database, as queries see it.  A name with an underscore is a slip one
\* could make in the definition that follows it: the checks put it in that
\* definition's place to see a property fail.

Unrevoked == {s \in Sessions : refresh[s].state = "live"}

WithState(state, s) ==
    Row(state, refresh[s].device, refresh[s].family, refresh[s].password)

\* The rows with "revokedAt: null" among the given ones get a revokedAt.
Revoked(rows) ==
    [s \in Sessions |-> IF s \in rows /\ refresh[s].state = "live"
                        THEN WithState("revoked", s)
                        ELSE refresh[s]]

\* A transaction that has updated the User row and not committed holds its lock.
Holds(r) == pc[r] = "commit" /\ call[r].op \in Locking
UserRowFree(r) == \A q \in Requests \ {r} : ~Holds(q)

\* AuthGuard.canActivate lets the access token pass.
Accepted(s) ==
    /\ access[s] # NoToken
    /\ user.status = "ACTIVE"
    /\ access[s].role = user.role
    /\ access[s].version = user.tokenVersion

-----------------------------------------------------------------------------
\* A request's progress.

Goto(r, stage) == pc' = [pc EXCEPT ![r] = stage] /\ UNCHANGED reply

Answer(r, how) ==
    /\ pc' = [pc EXCEPT ![r] = "done"]
    /\ reply' = [reply EXCEPT ![r] = how]

Ask(r, c) == pc[r] = "idle" /\ c.op \in Ops /\ call' = [call EXCEPT ![r] = c]

\* The handler reads the user's row.
Read(r) ==
    seen' = [seen EXCEPT ![r] =
               [role |-> user.role, version |-> user.tokenVersion, rows |-> {}]]

\* ... or which rows an UPDATE or a DELETE is going to touch.
See(r, rows) ==
    seen' = [seen EXCEPT ![r] = [role |-> seen[r].role, version |-> seen[r].version,
                                 rows |-> rows]]

Record(r, what) == trail' = trail \cup {[what |-> what, by |-> r]}

Stay(r, stage) == pc[r] = stage /\ UNCHANGED call

-----------------------------------------------------------------------------
\* login: the user is read once and the password compared with what was read.

Login(r) ==
    \E p \in Passwords, d \in Devices :
        /\ Ask(r, [NoCall EXCEPT !.op = "login", !.password = p, !.device = d])
        /\ Read(r)
        /\ IF user.status # "ACTIVE" THEN Answer(r, "refused")
           ELSE Goto(r, IF p = user.password THEN "device" ELSE "attempt")
        /\ UNCHANGED <<account, tokens, trail>>

Attempt(r) ==
    /\ Stay(r, "attempt")
    /\ failures' = failures + 1
    /\ Record(r, "LOGIN_FAILED")
    /\ Goto(r, "count")
    /\ UNCHANGED <<user, devices, forgiven, tokens, seen>>

TooMany_OffByOne == failures > MaxFailures

TooMany == failures >= MaxFailures

Count(r) ==
    /\ Stay(r, "count")
    /\ IF TooMany THEN Goto(r, "lock") ELSE Answer(r, "refused")
    /\ UNCHANGED <<account, tokens, trail, seen>>

\* Whatever the status has become meanwhile; refresh tokens are left alone.
Lock(r) ==
    /\ Stay(r, "lock")
    /\ UserRowFree(r)
    /\ user' = Account(user.password, user.role, "LOCKED", user.tokenVersion + 1)
    /\ Goto(r, "logLock")
    /\ UNCHANGED <<devices, failures, forgiven, tokens, trail, seen>>

LogLock(r) ==
    /\ Stay(r, "logLock")
    /\ Record(r, "ACCOUNT_LOCKED")
    /\ Answer(r, "refused")
    /\ UNCHANGED <<account, tokens, seen>>

\* The right password: a challenge if MFA is on, otherwise a session.
Challenge(r) ==
    /\ TRUE \in MfaEnabled
    /\ challenge' = [challenge EXCEPT ![r] =
                        [role |-> seen[r].role, version |-> seen[r].version]]
    /\ Answer(r, "ok")

PasswordVerified(r) ==
    \/ Challenge(r)
    \/ FALSE \in MfaEnabled /\ Goto(r, "issue") /\ UNCHANGED challenge

KnowDevice(r) ==
    /\ Stay(r, "device")
    /\ IF call[r].device \in devices THEN PasswordVerified(r)
       ELSE Goto(r, "register") /\ UNCHANGED challenge
    /\ UNCHANGED <<account, refresh, access, reset, expired, straddled, trail, seen>>

\* @@unique([userId, deviceId]): of two logins that both found no row, one fails.
RegisterDevice(r) ==
    /\ Stay(r, "register")
    /\ IF call[r].device \in devices
       THEN Answer(r, "failed") /\ UNCHANGED <<devices, challenge, trail>>
       ELSE /\ devices' = devices \cup {call[r].device}
            /\ Record(r, "NEW_DEVICE_LOGIN")
            /\ PasswordVerified(r)
    /\ UNCHANGED <<user, failures, forgiven, refresh, access, reset, expired,
                   straddled, seen>>

\* verifyMfaLogin: the challenge outlives neither a change of version nor of
\* status; the code from the authenticator is right or wrong.
MfaLogin(r) ==
    \E q \in Requests, right \in BOOLEAN :
        /\ challenge[q] # NoToken
        /\ Ask(r, [NoCall EXCEPT !.op = "mfaLogin", !.token = q,
                      !.password = call[q].password, !.device = call[q].device])
        /\ Read(r)
        /\ IF user.status # "ACTIVE" \/ user.tokenVersion # challenge[q].version
           THEN Answer(r, "refused") /\ UNCHANGED trail
           ELSE IF right THEN Goto(r, "issue") /\ Record(r, "MFA_LOGIN_SUCCESS")
           ELSE Answer(r, "refused") /\ Record(r, "MFA_LOGIN_FAILED")
        /\ UNCHANGED <<account, tokens>>

\* issueSession: the version is read anew, the role and the status are not.
ReadVersion(r) ==
    /\ Stay(r, "issue")
    /\ seen' = [seen EXCEPT ![r] = [role |-> seen[r].role,
                                    version |-> user.tokenVersion, rows |-> {}]]
    /\ Goto(r, "revoke")
    /\ UNCHANGED <<account, tokens, trail>>

OnDevice(d) == {s \in Unrevoked : refresh[s].device = d}

\* createRefreshToken: revoke those of the device, then insert.
FindDeviceRows(r) ==
    /\ Stay(r, "revoke")
    /\ See(r, OnDevice(call[r].device))
    /\ Goto(r, "revoking")
    /\ UNCHANGED <<account, tokens, trail>>

RevokeDeviceRows(r) ==
    /\ Stay(r, "revoking")
    /\ refresh' = Revoked(seen[r].rows)
    /\ IF call[r].op \in Logins THEN Goto(r, "insert") ELSE Answer(r, "ok")
    /\ UNCHANGED <<account, access, challenge, reset, expired, straddled, trail, seen>>

Claims(r) == [role |-> seen[r].role, version |-> seen[r].version]

InsertSession(r) ==
    /\ Stay(r, "insert")
    /\ refresh' = [refresh EXCEPT ![r] = Row("live", call[r].device, r, call[r].password)]
    /\ access' = [access EXCEPT ![r] = Claims(r)]
    /\ Record(r, "LOGIN_SUCCESS")
    /\ Answer(r, "ok")
    /\ UNCHANGED <<account, challenge, reset, expired, straddled, seen>>

-----------------------------------------------------------------------------
\* refresh and logout: neither needs an access token.

Refresh(r) ==
    \E t \in Sessions :
        /\ refresh[t] # NoRow
        /\ Ask(r, [NoCall EXCEPT !.op = "refresh", !.token = t])
        /\ Read(r)
        /\ IF t \in Unrevoked /\ t \notin expired /\ user.status = "ACTIVE"
           THEN Goto(r, "rotate") ELSE Answer(r, "refused")
        /\ UNCHANGED <<account, tokens, trail>>

StillUnrevoked_Unchecked(t) == TRUE

\* updateMany({ where: { id, revokedAt: null } }) touched one row.
StillUnrevoked(t) == t \in Unrevoked

\* The access token is signed with the role and the version read before.
Rotate(r) ==
    LET t == call[r].token IN
    /\ Stay(r, "rotate")
    /\ IF StillUnrevoked(t)
       THEN /\ refresh' = [Revoked({t}) EXCEPT ![r] = WithState("live", t)]
            /\ access' = [access EXCEPT ![r] = Claims(r)]
            /\ Answer(r, "ok")
       ELSE Answer(r, "refused") /\ UNCHANGED <<refresh, access>>
    /\ UNCHANGED <<account, challenge, reset, expired, straddled, trail, seen>>

Logout(r) ==
    \E t \in Sessions :
        /\ refresh[t] # NoRow
        /\ Ask(r, [NoCall EXCEPT !.op = "logout", !.token = t])
        /\ refresh' = Revoked({t})
        /\ Answer(r, "ok")
        /\ UNCHANGED <<account, access, challenge, reset, expired, straddled, trail, seen>>

-----------------------------------------------------------------------------
\* Requests that AuthGuard lets pass first, and their handlers.

GuardedCalls ==
    {[NoCall EXCEPT !.op = "changePassword", !.password = p, !.to = q] :
        p \in Passwords, q \in Passwords}
    \cup {[NoCall EXCEPT !.op = "revokeSession", !.to = t] :
             t \in {s \in Sessions : refresh[s] # NoRow}}
    \cup {[NoCall EXCEPT !.op = "revokeDevice", !.device = d] : d \in Devices}
    \cup {[NoCall EXCEPT !.op = "revokeAll"]}

Authenticate(r) ==
    \E s \in Sessions, c \in GuardedCalls :
        /\ access[s] # NoToken
        /\ Ask(r, [c EXCEPT !.token = s])
        /\ IF Accepted(s) THEN Goto(r, "handle") ELSE Answer(r, "refused")
        /\ UNCHANGED <<account, tokens, trail, seen>>

Handle(r, op) == Stay(r, "handle") /\ call[r].op = op

ChangePassword(r) ==
    /\ Handle(r, "changePassword")
    /\ IF call[r].password = call[r].to THEN Answer(r, "refused") /\ UNCHANGED trail
       ELSE IF call[r].password = user.password THEN Goto(r, "begin") /\ UNCHANGED trail
       ELSE Answer(r, "refused") /\ Record(r, "PASSWORD_CHANGE_FAILED")
    /\ UNCHANGED <<account, tokens, seen>>

RevokeSession(r) ==
    /\ Handle(r, "revokeSession")
    /\ refresh' = Revoked({call[r].to})
    /\ Answer(r, IF call[r].to \in Unrevoked THEN "ok" ELSE "refused")
    /\ UNCHANGED <<account, access, challenge, reset, expired, straddled, trail, seen>>

RevokeDevice(r) ==
    /\ Handle(r, "revokeDevice")
    /\ IF call[r].device \in devices
       THEN See(r, OnDevice(call[r].device)) /\ Goto(r, "revoking")
       ELSE Answer(r, "refused") /\ UNCHANGED seen
    /\ UNCHANGED <<account, tokens, trail>>

RevokeAll(r) ==
    /\ Handle(r, "revokeAll")
    /\ See(r, Unrevoked)
    /\ Goto(r, "commit")
    /\ UNCHANGED <<account, tokens, trail>>

-----------------------------------------------------------------------------
\* Forgotten passwords.  (Nothing in the source delivers the token to the user:
\* the model lets whoever holds it present it.)

ForgotPassword(r) ==
    /\ Ask(r, [NoCall EXCEPT !.op = "forgotPassword"])
    /\ IF user.status = "ACTIVE" THEN Goto(r, "forget") ELSE Answer(r, "ok")
    /\ UNCHANGED <<account, tokens, trail, seen>>

FindResetRows(r) ==
    /\ Stay(r, "forget")
    /\ See(r, {q \in Requests : reset[q] \in {"live", "used"}})
    /\ Goto(r, "forgetting")
    /\ UNCHANGED <<account, tokens, trail>>

ResetRowFree(q) == \A p \in Requests :
    ~(pc[p] = "commit" /\ call[p].op = "resetPassword" /\ call[p].token = q)

\* deleteMany and create, in one transaction.
ReplaceResetRows(r) ==
    /\ Stay(r, "forgetting")
    /\ \A q \in seen[r].rows : ResetRowFree(q)
    /\ reset' = [q \in Requests |-> IF q = r THEN "live"
                                    ELSE IF q \in seen[r].rows THEN "deleted"
                                    ELSE reset[q]]
    /\ Record(r, "PASSWORD_RESET_REQUESTED")
    /\ Answer(r, "ok")
    /\ UNCHANGED <<account, refresh, access, challenge, expired, straddled, seen>>

Usable(q) == reset[q] = "live" /\ q \notin expired

ResetPassword(r) ==
    \E q \in Requests, p \in Passwords :
        /\ reset[q] # "none"
        /\ Ask(r, [NoCall EXCEPT !.op = "resetPassword", !.token = q, !.to = p])
        /\ IF Usable(q) THEN Goto(r, "begin") ELSE Answer(r, "refused")
        /\ UNCHANGED <<account, tokens, trail, seen>>

-----------------------------------------------------------------------------
\* An administrator's requests.  The administrator is somebody else.

UpdateStatus(r) ==
    \E s \in Statuses :
        /\ Ask(r, [NoCall EXCEPT !.op = "updateStatus", !.to = s])
        /\ IF user.status = s THEN Answer(r, "refused") ELSE Goto(r, "begin")
        /\ UNCHANGED <<account, tokens, trail, seen>>

UpdateRole(r) ==
    \E x \in Roles :
        /\ Ask(r, [NoCall EXCEPT !.op = "updateRole", !.to = x])
        /\ IF user.role = x THEN Answer(r, "refused") ELSE Goto(r, "role")
        /\ UNCHANGED <<account, tokens, trail, seen>>

WithRole_ResetsVersion(x) == Account(user.password, x, user.status, 0)

WithRole_KeepsVersion(x) == Account(user.password, x, user.status, user.tokenVersion)

WithRole(x) == Account(user.password, x, user.status, user.tokenVersion + 1)

ChangeRole(r) ==
    /\ Stay(r, "role")
    /\ UserRowFree(r)
    /\ user' = WithRole(call[r].to)
    /\ Record(r, "USER_ROLE_CHANGED")
    /\ Answer(r, "ok")
    /\ UNCHANGED <<devices, failures, forgiven, tokens, seen>>

-----------------------------------------------------------------------------
\* The transactions that change the user and revoke "all" refresh tokens.

\* resetPassword first consumes its token, which another may have done meanwhile.
Consumed(r) == call[r].op = "resetPassword" => Usable(call[r].token)

\* The rows that updateMany sees: none if the account becomes ACTIVE.
Doomed(r) == IF call[r].op = "updateStatus" /\ call[r].to = "ACTIVE" THEN {} ELSE Unrevoked

Begin(r) ==
    /\ Stay(r, "begin")
    /\ UserRowFree(r)
    /\ IF Consumed(r) THEN See(r, Doomed(r)) /\ Goto(r, "commit")
       ELSE Answer(r, "refused") /\ UNCHANGED seen
    /\ UNCHANGED <<account, tokens, trail>>

Changed(r) ==
    LET c == call[r] IN
    Account(IF c.op \in {"changePassword", "resetPassword"} THEN c.to ELSE user.password,
            user.role,
            IF c.op = "updateStatus" THEN c.to ELSE user.status,
            user.tokenVersion + 1)

\* The event and audit log entry of each change of the user row.
Note == [changePassword |-> "PASSWORD_CHANGED",
         resetPassword  |-> "PASSWORD_RESET_COMPLETED",
         updateStatus   |-> "USER_STATUS_CHANGED",
         revokeAll      |-> "ALL_SESSIONS_REVOKED"]

RevokedBy_KeepsTokens(r) == refresh

RevokedBy(r) == Revoked(seen[r].rows)

\* Logins that have verified a password and not yet opened their session.
Opening == {q \in Requests : /\ call[q].op \in Logins
                             /\ pc[q] \notin {"attempt", "count", "lock", "logLock", "done"}}

Commit(r) ==
    LET c == call[r] IN
    /\ Stay(r, "commit")
    /\ UserRowFree(r)
    /\ user' = Changed(r)
    /\ refresh' = RevokedBy(r)
    /\ reset' = IF c.op = "resetPassword" THEN [reset EXCEPT ![c.token] = "used"] ELSE reset
    /\ Record(r, Note[c.op])
    /\ forgiven' = IF c.op = "updateStatus" /\ c.to = "ACTIVE" THEN failures ELSE forgiven
    /\ straddled' = IF c.op \in {"changePassword", "resetPassword"}
                    THEN straddled \cup Opening \cup {refresh[s].family : s \in Unrevoked \ seen[r].rows}
                    ELSE straddled
    /\ Answer(r, "ok")
    /\ UNCHANGED <<devices, failures, access, challenge, expired, seen>>

\* revokeAll locks tokens before the user, the others the user before tokens:
\* the database may end one of two that wait for each other.
Abort(r) ==
    /\ Stay(r, "commit")
    /\ Answer(r, "failed")
    /\ UNCHANGED <<account, tokens, trail, seen>>

-----------------------------------------------------------------------------
\* Time.

Expire(s) ==
    /\ s \in ShortLived \ expired
    /\ refresh[s] # NoRow \/ (s \in Requests /\ reset[s] # "none")
    /\ expired' = expired \cup {s}
    /\ UNCHANGED <<account, refresh, access, challenge, reset, straddled, trail, server>>

\* The oldest failed attempt is more than 15 minutes old.
AttemptAges ==
    /\ failures > 0
    /\ failures' = failures - 1
    /\ forgiven' = IF forgiven > 0 THEN forgiven - 1 ELSE 0
    /\ UNCHANGED <<user, devices, tokens, trail, server>>

Serve(r) ==
    \/ Login(r) \/ Attempt(r) \/ Count(r) \/ Lock(r) \/ LogLock(r)
    \/ KnowDevice(r) \/ RegisterDevice(r) \/ MfaLogin(r)
    \/ ReadVersion(r) \/ FindDeviceRows(r) \/ RevokeDeviceRows(r) \/ InsertSession(r)
    \/ Refresh(r) \/ Rotate(r) \/ Logout(r)
    \/ Authenticate(r) \/ ChangePassword(r)
    \/ RevokeSession(r) \/ RevokeDevice(r) \/ RevokeAll(r)
    \/ ForgotPassword(r) \/ FindResetRows(r) \/ ReplaceResetRows(r) \/ ResetPassword(r)
    \/ UpdateStatus(r) \/ UpdateRole(r) \/ ChangeRole(r)
    \/ Begin(r) \/ Commit(r) \/ Abort(r)

Next ==
    \/ \E r \in Requests : Serve(r)
    \/ \E s \in ShortLived : Expire(s)
    \/ AttemptAges

Spec == Init /\ [][Next]_vars

-----------------------------------------------------------------------------
\* Properties.

Stages == {"idle", "attempt", "count", "lock", "logLock", "device", "register",
           "issue", "revoke", "revoking", "insert", "rotate", "handle",
           "forget", "forgetting", "begin", "role", "commit", "done"}

\* Every variable keeps to its columns' types.
TypeOK ==
    /\ user \in [password : Passwords, role : Roles, status : Statuses, tokenVersion : Nat]
    /\ devices \subseteq Devices
    /\ failures \in Nat /\ forgiven \in 0..failures
    /\ refresh \in [Sessions -> {NoRow} \cup
          [state : {"live", "revoked"}, device : Devices, family : Sessions,
           password : Passwords]]
    /\ access \in [Sessions -> {NoToken} \cup [role : Roles, version : Nat]]
    /\ challenge \in [Requests -> {NoToken} \cup [role : Roles, version : Nat]]
    /\ reset \in [Requests -> {"none", "live", "used", "deleted"}]
    /\ expired \subseteq ShortLived /\ straddled \subseteq Sessions
    /\ \A e \in trail : e.by \in Requests
    /\ pc \in [Requests -> Stages]
    /\ \A r \in Requests : seen[r].rows \subseteq Sessions
    /\ reply \in [Requests -> {"none", "ok", "refused", "failed"}]

\* A change of the password, the role or the status, whoever makes it and
\* whatever else is under way, leaves no access token that the guard accepts.
ChangesEndAccess ==
    [][<<user.password, user.role, user.status>>' # <<user.password, user.role, user.status>>
          => \A s \in Sessions : ~Accepted(s)']_vars

\* An access token that the guard rejects is never accepted later: changing a
\* role or a status back does not revive it, nor does one signed late, from
\* what a login or a refresh had read before the change, come to life.
RejectedForever ==
    [][\A s \in Sessions : access[s] # NoToken /\ ~Accepted(s) => ~Accepted(s)']_vars

\* A refresh token that is live was opened with the account's present password,
\* unless its login or its refresh was under way while the password changed.
SessionsEndWithPassword ==
    \A s \in Unrevoked :
        refresh[s].password = user.password \/ refresh[s].family \in straddled

\* Once as many logins have failed as lock the account, and those that failed
\* since an administrator last unlocked it have been counted, it is not active.
FailuresLock ==
    /\ failures >= MaxFailures /\ failures > forgiven
    /\ \A r \in Requests : pc[r] \notin {"count", "lock"}
    => user.status # "ACTIVE"

\* Refresh tokens are opened, traded and closed as Rotation has it: a revoked
\* token cannot be reused, and of two refreshes with one token one gets nothing.
R == INSTANCE Rotation WITH
    Tokens <- Sessions, First <- Prior, live <- Unrevoked,
    family <- [s \in Sessions |-> refresh[s].family]
ImplementsRotation == R!Spec

\* However often, by however many clients and at whatever moment a refresh
\* token is presented, no login ever has two live ones.
OneSessionPerLogin == R!OneLivePerFamily

\* The inductive invariant behind the theorems.  A request that is not over has
\* inserted no row and signed no token; a row has a family once it exists; and
\* nobody has read or signed a version that the account has yet to reach.
Unspent ==
    \A r \in Requests : pc[r] # "done" => refresh[r] = NoRow /\ access[r] = NoToken

Rows ==
    /\ refresh = [s \in Sessions |-> refresh[s]]
    /\ \A s \in Sessions :
          \/ refresh[s].state = "none" /\ refresh[s].family = None
          \/ refresh[s].state \in {"live", "revoked"} /\ refresh[s].family \in Sessions

Versions ==
    /\ user.tokenVersion \in Nat
    /\ seen = [r \in Requests |-> seen[r]]
    /\ access = [s \in Sessions |-> access[s]]
    /\ \A r \in Requests : seen[r].version \in 0..user.tokenVersion
    /\ \A s \in Sessions : access[s].version \in 0..user.tokenVersion

IInv == pc \in [Requests -> Stages] /\ Rows /\ Unspent /\ Versions

\* The invariant behind SessionsEndWithPassword.  Whoever is about to open a
\* session has shown the account's present password, unless its login straddles a
\* change; a challenge of the account's present version was given for it.
UnderWay == {"device", "register", "issue", "revoke", "revoking", "insert"}

PasswordShown(r) ==
    /\ call[r].op \in Logins /\ pc[r] \in UnderWay =>
          call[r].password = user.password \/ r \in straddled
    /\ pc[r] \in {"device", "register"} /\ seen[r].version = user.tokenVersion =>
          call[r].password = user.password
    /\ pc[r] = "insert" => call[r].op \in Logins
    /\ challenge[r] # NoToken =>
          /\ pc[r] = "done" /\ challenge[r].version \in 0..user.tokenVersion
          /\ challenge[r].version = user.tokenVersion => call[r].password = user.password

PasswordsShown ==
    /\ call = [r \in Requests |-> call[r]]
    /\ challenge = [r \in Requests |-> challenge[r]]
    /\ \A r \in Requests : PasswordShown(r)

\* "Password changed and active refresh sessions revoked": no session that had
\* a live token when the transaction revoked them has one when it commits.
PasswordChangeEndsSessions ==
    [][\A r \in Requests :
          call[r].op = "changePassword" /\ pc[r] = "commit" /\ reply'[r] = "ok" =>
              \A s \in Unrevoked' :
                  refresh'[s].family \notin {refresh[t].family : t \in seen[r].rows}]_vars
=============================================================================
