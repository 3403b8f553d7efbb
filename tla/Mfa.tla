-------------------------------- MODULE Mfa --------------------------------
(***************************************************************************)
(* MfaService: an authenticator's secret and the recovery codes of one     *)
(* account, with the two logins that use them.  Each await is a step, as   *)
(* in Sessions; a transaction that deletes "all" codes is two steps, one   *)
(* where its DELETE sees rows and one where it commits, because under READ *)
(* COMMITTED it misses the rows that others insert in between.             *)
(*                                                                         *)
(* A secret is named after the setup request that generated it, a recovery *)
(* code after the request that generated its set.                          *)
(***************************************************************************)
EXTENDS Naturals, FiniteSets

CONSTANTS
    Requests,   \* HTTP requests, each made once; clients may make them at once
    None,       \* no secret
    CodeIds,    \* the codes of one set: ten in the source
    Ops         \* the operations that requests ask for

Operations == {"setup", "verifySetup", "regenerate", "disable",
               "codeLogin", "recoveryLogin"}
Codes == Requests \X CodeIds

ASSUME OpsAssumption == Ops \subseteq Operations
ASSUME IdsAssumption == None \notin Requests

VARIABLES
    enabled, secret,   \* User.mfaEnabled, User.mfaSecretEncrypted
    unused, used,      \* MfaRecoveryCode rows without and with a usedAt
    trail,             \* AuditLog and SecurityEvent rows
    pc, call, seen, reply, \* requests: next await, input, what was read, answer
    overtaken          \* history: verifications whose secret was replaced meanwhile

columns == <<enabled, secret>>
vars    == <<columns, unused, used, trail, pc, call, seen, reply, overtaken>>

\* The code in a call is one that an authenticator made from some secret, and
\* right says whether the password in it is the user's.
NoCall == [op |-> "none", secret |-> None, code |-> None, right |-> FALSE]

Calls ==
    [op : Operations \cup {"none"}, secret : Requests \cup {None},
     code : Codes \cup {None}, right : BOOLEAN]

Init ==
    /\ enabled = FALSE /\ secret = None
    /\ unused = {} /\ used = {} /\ trail = {}
    /\ pc = [r \in Requests |-> "idle"]
    /\ call = [r \in Requests |-> NoCall]
    /\ seen = [r \in Requests |-> {}]
    /\ reply = [r \in Requests |-> "none"]
    /\ overtaken = {}

-----------------------------------------------------------------------------
\* A request's progress.  As elsewhere, a name with an underscore is a slip
\* one could make in the definition after it.

Answer(r, how) ==
    /\ pc' = [pc EXCEPT ![r] = "done"]
    /\ reply' = [reply EXCEPT ![r] = how]

Goto(r, stage) == pc' = [pc EXCEPT ![r] = stage] /\ UNCHANGED reply

Record(r, what) == trail' = trail \cup {[what |-> what, by |-> r]}

Served == {r \in Requests : pc[r] \notin {"idle", "done"}}

Ask(r, c) ==
    /\ pc[r] = "idle" /\ c.op \in Ops
    /\ call' = [call EXCEPT ![r] = c]

At(r, stage) == pc[r] = stage /\ UNCHANGED call

\* What a user can type: codes made from, or read in, an answer that came.
Secrets == {s \in Requests : call[s].op = "setup" /\ reply[s] = "ok"}
SavedCodes == {c \in Codes : call[c[1]].op \in {"verifySetup", "regenerate"}
                               /\ reply[c[1]] = "ok"}

\* The User row is locked by a transaction that has updated it.
RowFree(r) == \A q \in Requests \ {r} :
    ~(pc[q] = "commit" /\ call[q].op \in {"verifySetup", "disable"})

-----------------------------------------------------------------------------
\* setup: the check and the update are two statements.

AlreadyOn == enabled

Setup(r) ==
    /\ Ask(r, [NoCall EXCEPT !.op = "setup"])
    /\ IF AlreadyOn THEN Answer(r, "refused") ELSE Goto(r, "store")
    /\ UNCHANGED <<columns, unused, used, trail, seen>>

StoreSecret(r) ==
    /\ At(r, "store") /\ RowFree(r)
    /\ enabled' = FALSE /\ secret' = r
    /\ Answer(r, "ok")
    /\ UNCHANGED <<unused, used, trail, seen>>

FromSecret_Any(s) == secret # None

\* The authenticator that made the code holds the secret that was read.
FromSecret(s) == secret # None /\ s = secret

VerifySetup(r) ==
    \E s \in Secrets \cup {None} :
        /\ Ask(r, [NoCall EXCEPT !.op = "verifySetup", !.secret = s])
        /\ IF ~AlreadyOn /\ FromSecret(s)
           THEN Goto(r, "begin") ELSE Answer(r, "refused")
        /\ UNCHANGED <<columns, unused, used, trail, seen>>

-----------------------------------------------------------------------------
\* regenerate and disable ask for the password and a code.

Proven(c) == c.right /\ FromSecret(c.secret)

Manage(r) ==
    \E op \in {"regenerate", "disable"}, s \in Secrets \cup {None}, right \in BOOLEAN :
        LET c == [NoCall EXCEPT !.op = op, !.secret = s, !.right = right] IN
        /\ Ask(r, c)
        /\ IF ~enabled \/ secret = None
           THEN Answer(r, "refused") /\ UNCHANGED trail
           ELSE IF Proven(c) THEN Goto(r, "begin") /\ UNCHANGED trail
           ELSE Answer(r, "refused") /\ Record(r, "FAILED")
        /\ UNCHANGED <<columns, unused, used, seen>>

\* The rows that deleteMany sees.
Doomed == unused \cup used

\* verifySetup and disable update the User row first.
Begin(r) ==
    /\ At(r, "begin")
    /\ call[r].op # "regenerate" => RowFree(r)
    /\ seen' = [seen EXCEPT ![r] = Doomed]
    /\ Goto(r, "commit")
    /\ UNCHANGED <<columns, unused, used, trail, reply>>

Created(r) == IF call[r].op = "disable" THEN {} ELSE {r} \X CodeIds

\* The codes change; disable also revokes the refresh tokens (see Sessions).
Commit(r) ==
    LET op == call[r].op IN
    /\ At(r, "commit")
    /\ unused' = (unused \ seen[r]) \cup Created(r)
    /\ used' = used \ seen[r]
    /\ CASE op = "verifySetup" -> enabled' = TRUE /\ UNCHANGED secret
         [] op = "disable"     -> enabled' = FALSE /\ secret' = None
         [] op = "regenerate"  -> UNCHANGED columns
    /\ IF op = "regenerate" THEN Goto(r, "log") /\ UNCHANGED trail
       ELSE Answer(r, "ok") /\ Record(r, op)
    /\ UNCHANGED seen

LogRegenerated(r) ==
    /\ At(r, "log") /\ call[r].op = "regenerate"
    /\ Record(r, "regenerate")
    /\ Answer(r, "ok")
    /\ UNCHANGED <<columns, unused, used, seen>>

-----------------------------------------------------------------------------
\* The second step of a login, after a challenge (see Sessions).

\* getMfaUser, then verifyUserCode, which reads the user again.
CodeLogin(r) ==
    \E s \in Secrets \cup {None} :
        /\ Ask(r, [NoCall EXCEPT !.op = "codeLogin", !.secret = s])
        /\ IF enabled THEN Goto(r, "verify") ELSE Answer(r, "refused")
        /\ UNCHANGED <<columns, unused, used, trail, seen>>

VerifyCode(r) ==
    /\ At(r, "verify")
    /\ IF enabled /\ FromSecret(call[r].secret)
       THEN Answer(r, "ok") /\ Record(r, "codeLogin")
       ELSE Answer(r, "refused") /\ Record(r, "FAILED")
    /\ UNCHANGED <<columns, unused, used, seen>>

RecoveryLogin(r) ==
    \E c \in SavedCodes :
        /\ Ask(r, [NoCall EXCEPT !.op = "recoveryLogin", !.code = c])
        /\ IF enabled THEN Goto(r, "find") ELSE Answer(r, "refused")
        /\ UNCHANGED <<columns, unused, used, trail, seen>>

FindCode(r) ==
    /\ At(r, "find")
    /\ IF call[r].code \in unused THEN Goto(r, "consume") /\ UNCHANGED trail
       ELSE Answer(r, "refused") /\ Record(r, "FAILED")
    /\ UNCHANGED <<columns, unused, used, seen>>

Consumable_Found(c) == c \in unused \cup used

\* updateMany({ where: { id, usedAt: null } }) touched one row.
Consumable(c) == c \in unused

Spent_StillUnused(c) == unused

Spent(c) == unused \ {c}

Consume(r) ==
    LET c == call[r].code IN
    /\ At(r, "consume")
    /\ IF Consumable(c)
       THEN /\ unused' = Spent(c) /\ used' = used \cup {c}
            /\ Goto(r, "log") /\ UNCHANGED trail
       ELSE /\ Answer(r, "refused") /\ Record(r, "FAILED")
            /\ UNCHANGED <<unused, used>>
    /\ UNCHANGED <<columns, seen>>

LogRecovery(r) ==
    /\ At(r, "log") /\ call[r].op = "recoveryLogin"
    /\ Record(r, "recoveryLogin")
    /\ Answer(r, "ok")
    /\ UNCHANGED <<columns, unused, used, seen>>

\* The server or its database connection goes down between two awaits.
Lose(r) ==
    /\ r \in Served
    /\ Answer(r, "failed")
    /\ UNCHANGED <<columns, unused, used, trail, call, seen>>

\* What the signed-in user asks for.
Administer(r) == (Setup(r) \/ VerifySetup(r) \/ Manage(r)) /\ UNCHANGED overtaken

\* The rest of the requests' steps: those that write columns, and the others.
Verifying == {r \in Served : call[r].op = "verifySetup"}

Overtake(r) ==
    overtaken' = overtaken \cup IF secret' = secret THEN {} ELSE Verifying \ {r}

Proceed(r) ==
    \/ (StoreSecret(r) \/ Commit(r)) /\ Overtake(r)
    \/ /\ \/ Begin(r) \/ LogRegenerated(r)
          \/ CodeLogin(r) \/ VerifyCode(r)
          \/ RecoveryLogin(r) \/ FindCode(r) \/ Consume(r) \/ LogRecovery(r)
          \/ Lose(r)
       /\ UNCHANGED overtaken

Serve(r) == Administer(r) \/ Proceed(r)

Next == \E r \in Requests : Serve(r)

Spec == Init /\ [][Next]_vars

-----------------------------------------------------------------------------
\* Properties.

TypeOK ==
    /\ enabled \in BOOLEAN /\ secret \in Requests \cup {None}
    /\ unused \subseteq Codes /\ used \subseteq Codes /\ unused \cap used = {}
    /\ pc \in [Requests -> {"idle", "store", "begin", "commit", "log", "verify",
                            "find", "consume", "done"}]
    /\ call \in [Requests -> Calls] /\ seen \in [Requests -> SUBSET Codes]
    /\ reply \in [Requests -> {"none", "ok", "refused", "failed"}]
    /\ overtaken \subseteq Requests

\* Of all logins that ever present a recovery code, together or one after the
\* other, at most one gets past it: the code's use is never forgotten.
RecoveryCodeOnce ==
    \A q, r \in Requests :
        /\ call[q].op = "recoveryLogin" /\ call[r].op = "recoveryLogin"
        /\ call[q].code = call[r].code
        /\ {[what |-> "recoveryLogin", by |-> q],
            [what |-> "recoveryLogin", by |-> r]} \subseteq trail
        => q = r

\* r is a verification that turns MFA on.
Starts(r) == call[r].op = "verifySetup" /\ pc[r] = "commit" /\ reply'[r] = "ok"

\* "verify a 6-digit code before MFA becomes active": MFA starts with the secret
\* that the request which starts it has verified a code of.
VerifiedSecretActive ==
    [][~enabled /\ enabled' =>
          \E r \in Requests : Starts(r) /\ call[r].secret = secret']_vars

\* ... and so it does whatever else is under way, logins, losses, other setups and
\* verifications, unless a setup or a disable that was served meanwhile replaced the
\* secret between the check and the commit of this very verification.
VerifiedUnlessOvertaken ==
    [][~enabled /\ enabled' =>
          \E r \in Requests :
              Starts(r) /\ (call[r].secret = secret' \/ r \in overtaken)]_vars
=============================================================================
