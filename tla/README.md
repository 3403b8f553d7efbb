# BankShield: specifications

TLA+ modules, TLC configurations and TLAPS proofs for the BankShield platform:
the NestJS API and its PostgreSQL database (`backend/src`, `backend/prisma`),
the Python fraud service (`backend/fraud-service`), the customer frontend
(`frontend`) and the security dashboard (`security-dashboard`). Paths below are
relative to the repository.

## 1. The system

### Components, their state and operations

| Component (source) | State | Operations | Talks to |
|---|---|---|---|
| transactions (`backend/src/transactions`) | `Transaction`, `BankAccount.balance`; writes `FraudAlert`, `SecurityEvent`, `AuditLog` | `transfer`, `reverse`, list | fraud client, devices, database |
| fraud client (`backend/src/fraud`) | none | `analyzeTransaction` | fraud service over HTTP |
| fraud service (`backend/fraud-service/main.py`) | its own alerts, cases, notes, notifications, security events, audit log | `/analyze`, `/predict`, `/evaluate`, alerts, notes, cases, notifications, events | its own PostgreSQL database, a trained model |
| auth (`backend/src/auth/auth.service.ts`, `auth.guard.ts`, `roles.guard.ts`) | `User`, `RefreshToken`, `PasswordResetToken`, `LoginAttempt`, signed access tokens and MFA challenges held by clients | register, login, MFA login, recovery login, refresh, logout, change, forget and reset password, list and revoke sessions; the guard of every other endpoint | users, devices, MFA, database |
| MFA (`backend/src/auth/mfa.service.ts`) | `User.mfaEnabled`, `mfaSecretEncrypted`, `MfaRecoveryCode` | setup, verify setup, verify code, consume and regenerate recovery codes, disable | database |
| users and admin (`backend/src/users`, `backend/src/admin`) | `User.role`, `User.status`, `User.tokenVersion` | list, update role, update status | database |
| devices (`backend/src/devices`) | `Device` | register at login, is-new check, list, trust, revoke the device's sessions | auth, transactions |
| accounts (`backend/src/accounts`) | `BankAccount` | create (random account number), list | database |
| beneficiaries (`backend/src/beneficiaries`) | `Beneficiary` | create, list, delete | transactions reads them |
| fraud alerts (`backend/src/fraud-alerts`) | `FraudAlert.status` | list, read, update status | audit logs |
| SOC (`backend/src/soc`) | `InvestigationCase`; proxies the fraud service's notifications | dashboards, update alert status, notes, create case, update case status, reports | fraud alerts, audit logs, fraud service |
| security events, audit logs | append-only tables | record, list, summarise | everybody writes |
| frontend client (`frontend/src/lib/api.ts`, `context/AuthContext.tsx`) | session in browser storage, a refresh under way | login, logout, call, refresh on 401, retry | auth |
| frontend data and pages (`frontend/src/context/BankDataContext.tsx`, `pages`) | a copy of the data of the signed-in role, the version of the newest load; windows and codes of the security page | load and reload, change something and reload, manage MFA | every service of the API |
| dashboard client (`security-dashboard/src/api.js`, `App.jsx`, `LoginPage.jsx`) | session in browser storage, App's copy of it, login form, overview | login with or without MFA, logout, load, call, refresh on 401 | auth, SOC |
| dashboard pages (`security-dashboard/src/*Page.jsx`) | a table read once and changed locally | read, note, open a case, change a status, mark as read | SOC |

How they meet: every endpoint but the public ones passes `AuthGuard`, which
reads the user's row again. A transfer reads the caller's beneficiaries and
devices, counts audit entries and earlier transfers, asks the fraud service over
HTTP, and then writes its outcome in one database transaction. SOC changes an
alert through the fraud-alerts service and its own case afterwards. The fraud
service has a database of its own: its alerts and cases are not those of the
NestJS API, although they have the same names.

### What is hard

Node serves all requests in one thread, but each `await` lets every other
request run, and each instance of the API talks to one PostgreSQL database at
READ COMMITTED. So what matters is which reads are re-checked inside the
statement that writes:

- *Reads before awaits.* Balances, the daily total, the status of a transfer,
  role and `tokenVersion`, the MFA secret and the status of an alert are all
  read some awaits before they are used.
- *Retries.* A client that got no answer sends its transfer again, with the
  same idempotency key or without any.
- *"All rows" updates.* Under READ COMMITTED an UPDATE or DELETE of "all" rows
  does not see a row that a concurrent transaction inserts while it waits.
- *Several statements without a transaction.* SOC, audit logs, login failures
  and the fraud service's `/evaluate` commit step by step; the process may end
  in between.
- *Deadlocks.* Crossing transfers lock two account rows in opposite orders.
- *Shared storage.* The tabs of a browser share one stored session, and each has
  its own refresh under way.
- *Copies.* A page shows a copy of what it once read, and changes it by what it
  thinks the server has done. Loads, answers and sessions overtake each other.
- *Tokens outlive changes.* An access token is a signed statement about a role
  and a version that may have changed since.

`PROJECT.json` lists each of these hazards at its line with the properties that
are about it.

### What makes each component correct

- Transfers: money is conserved and never overdrawn; a key pays once; every
  answer is true and stays true; a reversal happens once and takes back exactly
  what was paid; each row has its trail.
- Sessions: no login has two live refresh tokens; what ends a session ends it
  for good; a change of role, status or password ends the access tokens there
  were; failures lock the account.
- MFA: a recovery code works once; MFA is switched on with the secret that was
  verified; codes that work are in the user's hands; the page says what is so.
- SOC: one case per alert; the case follows the alert; the audit entries
  chain; a table agrees with the server.
- Administration: an active administrator remains; a beneficiary is there once.
- Clients: a logout or a newer login wins over everything under way; a tab
  presents each refresh token once; a session ends for a cause; what is shown is
  the user's own and has the changes that the user has made.
- Fraud service: one case per alert; a transaction that looks worse is not
  decided more leniently.

## 2. The modules

| Module | What it is | Built on |
|---|---|---|
| `Ledger` | abstract: payments are posted and undone at most once | |
| `Transfers` | `TransactionsService`, one step per await | instantiates `Ledger` |
| `TransferTx` | the same with each database transaction opened into its SQL statements, row locks and deadlocks | extends `Transfers` and implements it |
| `TransfersProofs` | theorems about `Transfers` and `TransferTx` | |
| `Rotation` | abstract: refresh tokens are opened, traded, closed | |
| `Sessions` | `AuthService`, `AuthGuard`, the device and administrator operations on one account | instantiates `Rotation` |
| `SessionsProofs` | theorems about `Sessions` and `Rotation` | |
| `Client` | the customers' session client: several tabs that share a stored session | instantiates `Rotation` |
| `ClientProofs` | theorems about `Client` | |
| `Dashboard` | a tab of the analysts' dashboard: its session client, login form and overview | instantiates `Rotation` |
| `DashboardProofs` | theorems about `Dashboard` | |
| `Mfa` | `MfaService` and the two logins that use it | |
| `SecurityPage` | the page on which the owner manages MFA | extends `Mfa` |
| `MfaProofs` | theorems about `Mfa` and `SecurityPage` | |
| `Cases` | `SocService` and `FraudAlertsService` about one alert | |
| `AnalystPages` | the dashboard's pages "Fraud Alerts", "Investigations", "Notifications" | extends `Cases` |
| `CasesProofs` | theorems about `Cases` and `AnalystPages` | |
| `Administration` | `UsersService` and `BeneficiariesService`: several users, their roles, statuses and beneficiaries | |
| `BankData` | a tab of the frontend: the provider's loads, the pages' requests, sessions of several tabs | extends `Administration` |
| `BankDataProofs` | theorems about `Administration` and `BankData` | |
| `RiskEngine` | the rules, the score and the decision of `analyze_transaction` | |
| `FraudService` | the fraud service's alerts, notes, cases, notifications and events | extends `RiskEngine` |
| `FraudServiceProofs` | theorems about `RiskEngine` and `FraudService` | |
| `MC...` | the small instances that TLC checks | |

### Conventions

*Requests.* A module has a set of requests, each made at most once; a retry is
another request with the same input. `pc[r]` is the await a request is at,
`call[r]` its input, chosen when it arrives, `seen[r]` what it has read and will
use later, `reply[r]` its answer. Each action is what runs from one await to the
next, so its name is that of the database call or of the part of the method.
What a request inserts is named after it: since a request inserts at most one
row of a table, `status[r]`, `refresh[r]`, `<<r, i>>` (a recovery code) or
`alert[r]` is that row, and no identifiers are needed.

*Database transactions.* One that only writes rows by key, or checks in the
statement what it depends on, is one step. `TransferTx` shows for transfers that
this is sound: the statements with their locks implement the single step. One
that updates or deletes "all" rows is two steps in `Sessions` and `Mfa`: where
its statement sees rows, and where it commits. Between the two it holds the row
lock that it holds in the code (`Holds`, `RowFree`), so only what can really
come in between does.

*SQLAlchemy.* A session flushes the columns whose value differs from the one it
has loaded (`Kept` in `FraudService`), so of two updates of one row each may
leave some of the other's columns.

*A page and its server.* `SecurityPage`, `AnalystPages` and `BankData` extend the
server's module: a step of the page that sends something is a step in which the
server gets the request, the server's own steps leave the page alone
(`ServerStep`), and an answer that lands is a step of its own, so anything may come in
between. Others use the same server without a page (`OtherAsks`,
`AskElsewhere`, the logins of `SecurityPage`).

*Failures.* `Fail`, `Abort`, `Lose` and the answer `failed` stand for a query or
a process that ends: what is committed stays, the rest never happens. A client
may lose any answer: that is why retries exist.

*Mutants.* A name with an underscore (`Covered_Unconditional`) is a slip one
could make in the definition after it. Nothing uses it; with it in the
definition's place the property that `PROJECT.json` names next to it is violated.

### Transfers

`Receive` to `DuplicateKey` follow `transfer()`: idempotency lookup, validation
of accounts and beneficiary, limits, the fraud call, and one of three
transactions (`Complete`, `Flag`, `Reject`); `ReadOriginal`, `Reverse` and
`ReverseRefused` follow `reverse()`. The fraud service's verdict is any of clear,
flagged and unavailable; how the inputs of that verdict are gathered is left
out. `Midnight` moves the clock that the daily total depends on.

`TransferTx` adds `Debit`, `Credit`, `Insert`, `MarkReversed` and the commits. An
update takes the lock of its account row and works on the last committed
version; `EndDeadlock` is PostgreSQL's detector, which ends a transaction in a
cycle of waiting ones.

### Sessions

One account, any number of requests to it, one session from before. The stages
of a login are `Attempt`, `Count`, `Lock`, `LogLock`, the device, and the three
awaits of `issueSession`, and whether a login meets a second factor is any value
of `MfaEnabled`; `Rotate` is the transaction of a refresh;
`Begin`/`Commit`/`Abort` are the transactions that end several sessions
(password changes and resets, revocation, a lock by an administrator).
`Accepted` is what `AuthGuard` accepts. An access token is the pair of role and
version it was signed with. JWT lifetimes are left out (an access token is good
for as long as its version is), `Expire` ends refresh and reset tokens of
`ShortLived` requests, `AttemptAges` moves failures out of the 15-minute window.
The reset token that `forgotPassword` makes is handed to nobody by the source;
the model lets any request present it.

### Client

What `api.ts` and `AuthContext.tsx` do between two awaits is one step of a tab: a
call, login or logout is sent, answered, and, if it is a call that was refused
(401), waits for the refresh that its tab performs or joins (`Refresh`,
`Settle`) and is sent again (`Retry`) or given up (`Reject`, `GiveUp`). `Free`
says that the activities which awaited a refresh continue before their tab does
anything else, as microtasks do. A pair of tokens is named after the activity
that obtained it; a comparison of refresh tokens, in the code, is one of names.
The server is `Rotation`, which `Sessions` implements, so what the client relies
on is what `AuthService` does. An answer may be lost, or come too late, whether or
not the server has done what it was asked to. The profile inside the session,
demo sessions and browsers without storage are left out.

### Dashboard

The same subject as `Client` in another program: `api.js` keeps a promise of the
refresh under way (`refreshing`, `renewal`), `App.jsx` a copy of the stored session
and an effect that loads the overview (`due`), `LoginPage.jsx` a form with a second step.
Tokens, activities and the server are as in `Client`. The profile that is stored
with the tokens is the name of the login it came with, so that tokens and
profile can disagree. The five requests of a load are one: the first refusal decides.

### Mfa and SecurityPage

`Mfa`: `Setup`/`StoreSecret`, `VerifySetup` and the transaction after it,
regeneration and `disable`, and both second steps of a login. A secret is named
after the setup that generated it, a code in a call after the secret it was made
from; the half-minute a code is good for is left out. The history `overtaken` holds
the verifications whose secret was replaced between their check and their commit.

`SecurityPage` adds the two windows (setup, and regenerate or disable), the
codes that each shows once, the box "I saved these codes" (`Save`), what closing
forgets, and the profile that is read after each switch. `waits[r]` is what the
handler of request `r` waits for: the answer, the profile, or a profile that was read
(`on`, `off`) and has yet to land. Requests of several switches may be under way at
once, on the page and on the server. The history says which request switched MFA
last (`last`), whose news are older than that (`behind`), and whether such older news are
what the page shows (`misled`).

### Cases and AnalystPages

`Cases`: one alert, its case and its notification. No database transaction at
all: each query is a step and `Lose` may stand between any two. The
notification lies with the fraud service, to which `markRead` is forwarded. `seen[r]`
keeps what request `r` has read: `createCase` the alert (`alert`) and the case,
`updateStatus` the status that it changes from (`old`), which stay apart where the one calls
the other.

`AnalystPages`: one of three pages is open; it reads its table once
(`ReadTable`, `TableComes`) and then changes its own row after each answer, by
what it asked for. `asked` and `waiting` are the requests of this visit; leaving
the page (`Visit`) forgets them, and the server goes on.

### Administration and BankData

`Administration`: the guards, the checks and the write of a request are three
steps. Users differ in role and status, beneficiaries are those of one account
number, and a row is named after the request that made it. `AskAgain` is the
client's retry of a request that was refused with 401.

`BankData`: `due` is the effect on `[reload]` that is to run, `latest` the provider's
version counter (its value is the load that has it), `shown` what the page has:
whose data they are, and which changes were in them when they were read. A load leaves
`shown` alone while it is under way, when the pages hide it (`loading`), and replaces it when it
lands or fails. `told` are the changes that the
page was told are done. A session is a user and a role; `session` is
`AuthContext`'s copy of `stored`, `unheard` a storage event on its way.

### RiskEngine and FraudService

`RiskEngine`: integers instead of floats, otherwise the six rules, the cap and
the two tables as they are. `FraudService` evaluates transactions (the trained
model's prediction is either), and lets analysts work on the alerts.

## 3. The runs

| Run | Instance | Shows |
|---|---|---|
| `transfers_safety` | 2 transfers, 2 reversals, 3 accounts, 8 kinds of call, one midnight | no overdraft, one row per key, true answers, conservation (what a reversal takes back included), the inductive invariant, refinement of `Ledger` |
| `transfers_daily_limit` | 2 transfers out of one account | violated: together they pass the daily limit |
| `tx_statements` | 2 transfers that cross or repeat each other and 2 reversals, statement by statement, fair server and database | row locks amount to the single steps of `Transfers`; each row has its trail; every request that has begun is answered |
| `sessions_races` | 3 requests of 12 operations around an open session, with or without a second factor; 2 failures lock | access ends with changes; passwords end sessions; failures lock in any order; refinement of `Rotation`; the inductive invariant |
| `sessions_password_change` | a refresh and a password change | violated: the session outlives the change |
| `mfa_page` | 5 requests: the owner's through the page, any number at a time; logins at any time | a recovery code works once; MFA starts with a verified secret, unless it is replaced meanwhile; codes that work were shown and saved; the page says what is so, however switches overlap |
| `mfa_setup` | 4 setups and verifications at once | violated: MFA is on with a secret nobody verified |
| `analyst_pages` | 3 requests of a tab and of other analysts, each may be lost half-way | one case that follows its alert, entries that chain, a table that agrees with the server |
| `fraud_analysts` | 4 evaluations and analysts' requests, each may be lost half-way | one case per alert, a monotone engine |
| `client_tabs` | 3 calls, logins and logouts of 2 tabs; tokens expire, sessions end elsewhere, answers are lost | the newest login or logout wins; a tab presents a refresh token once |
| `dashboard_tab` | 3 loads, calls, logins and logouts of a tab; other tabs log in, out and refresh | screen and storage agree; tokens and profile belong together; a session ends for a cause |
| `bank_data` | a tab with 2 loads at once and 2 requests, of it and of other browsers; 2 administrators and a customer | what is shown is the user's own and has the changes made; an administrator remains; no beneficiary twice |

### The three disagreements

Each violated run is a disagreement between the code and something its comments,
messages or tests say; `PROJECT.json` quotes both under "findings".

- *Daily limit.* The total of the day is read outside the transaction that
  spends it, so two transfers may both pass (`transactions.service.ts:87` and `:261`).
- *Password change.* Its `updateMany` revokes the tokens that its statement
  sees. A refresh that is replacing one of them makes it wait, and the row that
  the refresh inserts is not among them (`auth.service.ts:589`).
- *MFA setup.* `verifySetup` switches MFA on with whatever secret is stored by
  then, for instance one that a second setup has stored since the code was
  verified (`mfa.service.ts:285`).

### What properties leave out, and what happens there

Some properties hold but for an overlap that the code does nothing about. The
overlap is named in the property, by a history variable or an operator, and
TLC finds a counterexample of each property without it.

| Property | Leaves out | There |
|---|---|---|
| `VerifiedUnlessOvertaken` | a verification whose secret a setup or a disable replaced between its check and its commit (`overtaken`) | the disagreement above |
| `ShownIsTrue` | older news of MFA that land after the last switch's (`misled`) | profiles land in the other order, and the page keeps the older |
| | the last switch's success was lost (`lost`) | the page keeps what it was |
| | the last switch was a setup's | a setup undoes a verification that came in between (`mfa.service.ts:198`), while the page shows MFA on |
| `CodesKnown` | codes whose answer was lost, or found its window closed (`lost`) | codes work that nobody has seen |
| `EntriesChain`, `Synchronized` | changes of the alert or the case at once (`overlapped`); a request that was lost half-way | case and alert end with different statuses, although `soc.service.spec.ts:179` calls them synchronized |
| `Synchronized` | updates of the alert alone | the case stays behind, and a case update to the alert's status is refused (`soc.service.ts:460`) |
| `TableIsStored` | other analysts, and two requests of the page at once (`strayed`); a case opened of a final alert (`OpenedLate`) | the page keeps the order of the answers (`FraudAlertsPage.jsx:117`); it calls the alert INVESTIGATING, the server does not (`:120`) |
| `AdministratorStays` | a right changes while a request of its owner is served (`crossed`) | two administrators demote each other, and none remains (`users.service.ts:83`) |
| `NoTwins` | a beneficiary added twice at a time (`doubled`) | it is there twice (`beneficiaries.service.ts:36`) |
| `ScreenIsStored` | a login before the logout of an earlier session was answered | the logout clears the screen of the new session, not its storage |
| `TokensOfUser`, `EndsForCause` | a login while requests of an earlier session are under way | their refresh overwrites or clears the new session (`api.js:151`) |

### Further observations

No property is about the following; they came up while reading and modelling.

- *Frontend.* Two tabs may present one refresh token, and the loser, refused,
  clears the session that the winner is about to save. A retried call that is
  refused expires whatever session is stored by then (`api.ts:368`), a newer login
  included; `NewestLoginStays` speaks of what is put into the storage. A refresh
  without an answer expires the session like a refused one (`api.ts:385`, against the
  comment at `AuthContext.tsx:179`).
- *Frontend data.* An administrator who changes the own role (or is changed by
  another) reloads with the `reload` of the role there was: the page asks for the
  old role's resources once more. `ShownIsOwn` therefore speaks of whose data are shown,
  not of their kind. Transfers of `TransferPage.tsx:43` carry no idempotency
  key, and `Transfers` promises nothing for those.
- *Dashboard.* `api.js` does not compare the refresh token before it saves, as
  `api.ts` does: the mutant `StillStored_Any` of `Client` is that code. After any error
  the page of alerts hides its table until it is left.
- *MFA.* Two regenerations at once, of two windows, leave both sets of recovery
  codes valid (`mfa.service.ts:533`): each deletes the codes it sees.
- *SOC.* Two racing `createCase` requests both write the audit entry of the
  alert's change.
- *Fraud service.* Two notes at once on one alert: it keeps one of them. Two
  updates of a case at once: a case in progress with the outcome of a closed one
  (`main.py:771`). `SUSPICIOUS_TRANSACTION` is written only inside the branch for
  failed logins (`main.py:468`), so a risky transaction without any leaves no such event.
- *Documents.* `demo-guide.md:117` has reversals done by employees or
  administrators; the code lets only the sender reverse, and so does the model.

### Bounds

The constants in the configurations are the only bounds: requests, activities,
loads under way, `LastDay` (midnights), `MaxFailures` (2 instead of 5: the count is compared and
otherwise not used), `CodeIds` (one code a set instead of ten: codes of a set do
not interact), `Inputs`, and what is asked for. A race needs two requests, and three when the state it
needs has to be made first; every run has at least that many, and one or two
more where five minutes allow.

- Amounts and balances of 0 to 4 put a payment on either side of the balance and
  of both limits.
- `mfa_page` has five: a setup and its verification before a regeneration or
  `disable`, and two logins with one code.
- `analyst_pages` leaves out FALSE_POSITIVE, which is final like RESOLVED; other
  analysts open the case and resolve it.
- `tx_statements` stays within a day (`LastDay` is 0): no transaction looks at a date,
  and `transfers_safety` has a midnight.
- `bank_data` has one request of the tab, which locks or adds, and one of another
  browser, which demotes, adds or removes: each check meets the change that makes it stale. Two loads under way: a newer one and one that is out of date.
- `FewInputs` has the highest score, the least that is HIGH, and a single reason.

*Deadlock* is checked in `analyst_pages`, where analysts can always open a page. The
other systems may stop: all their requests are answered. That
transfers do not stop before they are answered is `RequestsAnswered`.

*Symmetry* is used over requests, reversals, activities, tabs and loads only, which no
constant tells apart, and not in the run with liveness, `tx_statements`.

*Fairness.* Only `TxFairSpec` has any: weak fairness of the server's steps for
each request it has begun to serve, and of the database's deadlock detector.
Node's event loop runs every continuation whose await has settled, statements
return or fail once the lock they wait for is released, and the call to the
fraud service has a timeout of five seconds (`fraud.module.ts:9`). Clients are
not fair: a request may never be sent. The other modules claim no liveness.

## 4. The proofs

All for every value of the constants that satisfies the modules' assumptions
(which TLC evaluates in every run). Each module of proofs is laid out alike:
an inductive invariant, made of named parts; what a step leaves alone, summed
up in a predicate (`Turn`, `Still`, `Step`, `Serves`...), so that most parts
are kept for reasons that most steps share; a lemma for each group of actions; then the
theorems. Every invariant was checked by TLC on the instance of its run before it was
proved.

Every safety property of a passing run is a theorem, and so is every action property and each
refinement. `PROJECT.json` lists which theorem states which.

*`TransfersProofs`.* The invariant `IInv` of `Transfers` joins the type, no
overdraft, one row per key, true answers, and three facts that make these
inductive: rows belong to requests that are over (`RowsAreOver`), so an insert
cannot replace a row; unfinished requests have said nothing (`SilentUntilDone`);
and a request that is about to commit has passed its checks (`ChecksMade`), so
its two accounts differ. `Invariance` proves it, one step per action;
`TypeCorrect`, `NeverOverdrawn`, `KeysPayOnce` and `AnswersStayTrue` are
consequences. `RowsAreFinal` proves the action property about rows, and
`TransfersImplementsLedger` that every step posts, undoes or leaves the ledger,
under the mapping of `posted` and `undone` to the statuses of rows.
`TrailIsExact` adds to `IInv` that each row has the records of its status which its own
request wrote, and no others (`RowTrail`).

`MoneyConserved` is about sums over sets of rows, which `Ledger` takes with a fold. That a
sum does not depend on which element is taken away first, and what one more
or one less row does to it, is shown from the smallest set on which it
would fail (`SmallestSubset`, from the library's theorem that strict inclusion
of finite sets is well-founded); after that a payment adds its amount to one
side of two accounts' equations and takes it from the balance.

`StatementsImplementTransfers` is the refinement of the single steps by SQL statements.
Its invariant `TxInv` says what the locks are for: an open transaction has
locked the accounts it has updated and no others, so the balance it read is still the
committed one, its drafts are what it will publish, the key of an uncommitted row
is nobody else's (`KeysApart`), and a row that is about to be REVERSED is still
COMPLETED (`StillCompleted`). Given that, a commit is a `Complete`, `Flag`,
`Reject` or `Reverse`, and every other statement, wait, rollback or deadlock
victim is a stutter or a failure. `StatementsSafe` carries the theorems of `Transfers` over.

*`SessionsProofs`.* `ChangesEndAccess` fails in states where some request has
read, or some token carries, a version the account has yet to reach; `Versions`
excludes them. `Unspent` says that unfinished requests have issued nothing and
`Rows` that issued tokens have a family; with these, every step of every request
opens, trades or closes tokens as `Rotation` allows
(`SessionsImplementRotation`). `OneSession` is proved of `Rotation` and carries
over. `AccessEnds` and `RejectionLasts` follow from `Versions` and from the
version never decreasing. `FailuresLockAccount` rests on one fact, that too many
failures are either about to be counted or have been (`FailuresCounted`).
`PasswordEndsSessions` needs to know what password an unfinished login has
shown, on its way through the device and the second factor
(`PasswordsShown`): the present one, unless the login straddles a change; a challenge
that still has the account's version was given for the present password.

*`ClientProofs`.* `NewestLoginWins` needs that a refresh which the server has
answered gave a pair of the login whose pair was presented
(`RenewalsKeepLogin`); that a login's name never changes follows from how
`Rotation` opens and trades, for any number of tabs. `TokensPresentedOnce` needs to
know where a pair can come back from (`TabsInv`): it is in the storage for one
spell (`StoredForOneSpell`), and when its refresh is over it is stored no more, or is
about to be given up (`GivenUp`), so no later 401 finds it there.

*`DashboardProofs`.* `SameUser` collects everything that is or may become
the session's tokens, or may end the session: what is stored, what the refresh
presented, what requests were sent with. All of it goes back to one
user, unless a login crossed a request: a login makes `crossed` say so exactly when
anything of an earlier session is left. `TokensStayTheUsers` is the part of it about what is stored, and
`SessionsEndForCause` the part about refusals. `ScreenShowsStored` follows from
`Shown` (what is shown is stored, or a storage event is on its way) and
`LogoutsEmpty` (while a logout is under way nothing is stored, so hiding the session is right).

*`BankDataProofs`*, first of `Administration`. An administrator remains because a request that
changes rights was made by an active administrator who still is one when it
writes (`Admitted`, unless rights `crossed`), and does not change that one's own
(`Checked`). A request's call belongs to one that is not over (`Disjoint`), which lets
`crossed` be read off the calls under way. `NoTwins` needs the same of what
`create` has looked for.

Then of the tab. `TabImplementsAdministration`: `TabSpec => Spec`. A step of
the tab sends what `Administration` lets one ask, or hears, or is none of the
server's business. What makes it more than bookkeeping is the retry after a 401,
which asks as whoever is stored by then: that this is a user, and the request
one that was refused, are invariants of the tab (`TabInv`) and of the
server. So what is proved of `Administration` holds of the composition
(`TabLeavesAnAdministrator`, `TabSavesOnce`). What the tab shows (`ShownInv`) depends on
its current load only, whichever others are still under way: it was asked for by whoever
is signed in, and it has read all that the page was told is done (`CurrentLoad`); between loads that is so of what is shown, or there is
an error, or the page awaits an answer (`Rest`). `TabShowsItsOwn` and
`TabShowsItsChanges` are consequences.

*`CasesProofs`.* `OneHasOpened` says of requests between the insert and the
answer what `OneCase` says of answers. `PagesImplementCases` maps each step of the
pages to one of `Cases`, and `PagesOpenOneCase` joins the two. The entries of the
trail form a walk from OPEN to the alert's status: `Balanced` counts, for each
status, the entries that lead to it and from it (with the entry that a request is about to
write), and `Walk` adds what a request that is under way has seen. Requests to
open the case may overlap, as all of them make the same change; others may not,
and once any did, nothing is claimed. `TrailLeadsToStatus` and `CaseFollowsAlert`
follow. `TableShowsServer` is the same thought on the page: `PageInv` follows its
one request through the server's awaits, and says what the page will make of its row.

*`MfaProofs`.* `RecoveryCodeOnce` speaks of the trail, which only grows. The
invariant says that a login that is past its code has taken it out of the unused ones
for good (`UsedForGood`): codes are created by the request they are named after,
once (`CodesMade`), and typed only after their answer (`CodesTyped`).
`PageImplementsMfa` and `PageCodesWorkOnce` carry it to the page.
`VerifiedSecretStarts`: the secret that a verification has read is still there when
it commits, unless it was `overtaken` (`SecretStays`). A request marks, in the step in
which it replaces the secret, every other verification under way (`Marks`), so no
assumption about overlap is needed. `PageVerifiedSecretStarts` is the same of the page.

Of the page: each button is off while what it asked for is not over (`OneWaits`), so an
answer finds its place empty (`PlacesFree`), and codes that work are on their way,
shown, saved or lost (`AllHeld`): `CodesStayKnown`. `ShownStaysTrue` has a larger invariant
(`TrueInv`). Whatever news of MFA are on their way say what is so or are `behind`
(`NewsTrue`); the last switch is over and is not behind itself (`LastDone`), which it needs
because its own news come after it; and once the page has heard of the last switch it
shows what is so, unless it is `misled` (`Follows`). Again nothing is assumed of overlap.

*`FraudServiceProofs`.* `DecisionsMonotone` and `DecisionsMeasured` of the
engine: over all transactions, not the three inputs of the run. Of the service:
`TypeCorrect` (notifications and cases belong to alerts), `CaseOpenedOnce` and
`EvaluationsMonotone`, which carries the engine's theorem to whatever
the service has evaluated.

What the proofs take of constants is in the modules' assumptions: that identifiers,
statuses and the marks for "none" are different things, and that bounds are numbers.
No theorem has a hypothesis beside them.

Only model-checked: liveness (`RequestsAnswered`), which needs ENABLED and
fairness and is out of the prover's reach, and the three violated properties, of which there is
nothing to prove. No proof uses the library's induction theorems with an operator as
parameter, which no prover here can instantiate; where data are unbounded (sums,
cardinalities) the proofs argue from a smallest counterexample, or one element at a time.

## 5. Not modelled

The reasons are in `PROJECT.json` with each component. In short: reads and
reports, what pages only display, demo sessions (which ask no server), deployment, training scripts and the earlier engine in
the top-level `main.py` keep no state that others depend on; signatures, hashes and encryption
are taken to work; rate limits and token lifetimes need a clock; several
instances of the API differ in nothing, since none keeps state in memory.
Accounts are created empty with a random number that is unique in the
database, and nothing changes them but transfers, which take them as given.

## 6. Plan

Done, in the order of importance: transfers with their ledger and database
transactions; sessions with rotation; MFA and its page; cases and the analysts'
pages; the fraud service; the session clients of frontend and dashboard;
administration and the frontend's data.

Next:

1. `RiskScreening`: the inputs of the verdict (average, count of an hour, new
   device and beneficiary) from the rows that transfers leave, composed with
   `RiskEngine`. Property: refused transfers do not make later ones easier
   (`transactions.service.ts:299`).
2. Proofs: that `RiskScreening` is used by transfers as `Transfers` assumes (any of
   three verdicts), as a refinement; that the servers of `Client` and `Dashboard` are
   `Rotation`, step by step, and with `SessionsImplementRotation` what that
   gives the tabs; and, in place of the liveness that cannot be proved, that no cycle of
   lock waits outlives `EndDeadlock`, as an invariant of `TransferTx`.
