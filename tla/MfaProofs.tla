----------------------------- MODULE MfaProofs -----------------------------
(***************************************************************************)
(* A recovery code works once, however many logins present it at a time,   *)
(* and however the codes are regenerated and MFA switched meanwhile, for   *)
(* any number of requests, from the page or not.                           *)
(*                                                                         *)
(* A code that was used must not come back: new codes are made by requests *)
(* that are not over, and nobody can type a code before the request that   *)
(* made it was answered.                                                   *)
(*                                                                         *)
(* A secret that a verification has read stays until it commits, unless    *)
(* another request replaces it meanwhile, which marks the verification.    *)
(*                                                                         *)
(* The page loses no codes that work: its buttons are off while they wait, *)
(* so an answer finds its place free, and a window closes over saved codes *)
(* only.  What it says of MFA follows the server's switch: news that are   *)
(* not older than the last switch are true, so once the answer of that     *)
(* switch has landed only older news can mislead the page.                 *)
(***************************************************************************)
EXTENDS SecurityPage, TLAPS

Stages == {"idle", "store", "begin", "commit", "log", "verify", "find", "consume", "done"}
Replies == {"none", "ok", "refused", "failed"}

\* Answers end requests.
SilentUntilDone == \A r \in Requests : reply[r] # "none" => pc[r] = "done"

\* Operations keep to their own stages.
OwnStage(r) ==
    /\ pc[r] = "store" => call[r].op = "setup"
    /\ pc[r] \in {"begin", "commit"} => call[r].op \in {"verifySetup", "regenerate", "disable"}
    /\ pc[r] = "verify" => call[r].op = "codeLogin"
    /\ pc[r] \in {"find", "consume"} => call[r].op = "recoveryLogin"

OwnStages == \A r \in Requests : OwnStage(r)

\* Codes were made by requests that have committed.
CodesMade == \A c \in unused \cup used : pc[c[1]] \in {"log", "done"}

\* ... and are typed after those are over.
CodesTyped ==
    \A r \in Requests : call[r].op = "recoveryLogin" =>
        call[r].code \in Codes /\ pc[call[r].code[1]] = "done"

Entry(r) == [what |-> "recoveryLogin", by |-> r]

\* A login that has got past its code.
Past(r) == call[r].op = "recoveryLogin" /\ (pc[r] = "log" \/ Entry(r) \in trail)

EntriesLast == \A r \in Requests : Entry(r) \in trail => pc[r] = "done"

UsedForGood == \A r \in Requests : Past(r) => call[r].code \notin unused

OnePast ==
    \A q, r \in Requests : Past(q) /\ Past(r) /\ call[q].code = call[r].code => q = r

Inv ==
    /\ TypeOK /\ SilentUntilDone /\ OwnStages
    /\ CodesMade /\ CodesTyped /\ EntriesLast /\ UsedForGood /\ OnePast

LEMMA InitInv == Init => Inv
<1> SUFFICES ASSUME Init PROVE Inv
  OBVIOUS
<1>1. NoCall \in Calls /\ NoCall.op = "none"
  BY DEF NoCall, Calls
<1>2. /\ enabled \in BOOLEAN /\ secret \in Requests \cup {None}
      /\ unused = {} /\ used = {}
      /\ seen \in [Requests -> SUBSET Codes] /\ overtaken \subseteq Requests
  BY DEF Init
<1>3. pc \in [Requests -> Stages] /\ reply \in [Requests -> Replies]
  BY DEF Init, Stages, Replies
<1>4. call \in [Requests -> Calls] /\ \A r \in Requests : call[r].op = "none"
  BY <1>1 DEF Init
<1>5. TypeOK
  BY <1>2, <1>3, <1>4 DEF TypeOK, Stages, Replies
<1>6. SilentUntilDone /\ OwnStages /\ CodesMade /\ EntriesLast
  BY <1>2 DEF Init, SilentUntilDone, OwnStages, OwnStage, CodesMade, EntriesLast
<1>7. CodesTyped /\ UsedForGood /\ OnePast
  BY <1>4 DEF CodesTyped, UsedForGood, OnePast, Past
<1> QED
  BY <1>5, <1>6, <1>7 DEF Inv

-----------------------------------------------------------------------------
\* A step of r, summed up: r's stage, input and answer, and what it records.

Moves(r) ==
    /\ pc[r] # "done" /\ (pc[r] = "log" => pc'[r] = "done")
    /\ pc' = [pc EXCEPT ![r] = pc'[r]] /\ pc'[r] \in Stages \ {"idle"}
    /\ reply' = [reply EXCEPT ![r] = reply'[r]] /\ reply'[r] \in Replies
    /\ pc'[r] # "done" => reply'[r] = reply[r]
    /\ \A q \in Requests : q # r => call'[q] = call[q]
    /\ call' \in [Requests -> Calls]
    /\ \A q \in Requests : q # r /\ Entry(q) \in trail' => Entry(q) \in trail
    /\ Entry(r) \in trail' => pc'[r] = "done"
    /\ OwnStage(r)'
    /\ call'[r].op = "recoveryLogin" =>
          call'[r].code \in Codes /\ pc[call'[r].code[1]] = "done"

\* The rows that a step leaves.
RowTypes ==
    /\ enabled \in BOOLEAN /\ secret \in Requests \cup {None}
    /\ unused \subseteq Codes /\ used \subseteq Codes /\ unused \cap used = {}
    /\ seen \in [Requests -> SUBSET Codes] /\ overtaken \subseteq Requests

LEMMA TypeParts ==
    TypeOK <=> /\ RowTypes
               /\ pc \in [Requests -> Stages] /\ reply \in [Requests -> Replies]
               /\ call \in [Requests -> Calls]
BY DEF TypeOK, RowTypes, Stages, Replies

LEMMA CodeOwner ==
    ASSUME NEW c \in Codes
    PROVE  c[1] \in Requests
BY DEF Codes

LEMMA MovesKeeps ==
    ASSUME Inv, NEW r \in Requests, Moves(r),
           RowTypes', CodesMade', UsedForGood', OnePast'
    PROVE  Inv'
<1>0. pc \in [Requests -> Stages] /\ reply \in [Requests -> Replies]
  BY TypeParts DEF Inv
<1>1. pc' \in [Requests -> Stages] /\ reply' \in [Requests -> Replies] /\ call' \in [Requests -> Calls]
  BY <1>0 DEF Moves
<1>2. TypeOK'
  BY <1>1 DEF TypeOK, RowTypes, Stages, Replies
<1>3. SilentUntilDone'
  BY <1>0 DEF Inv, SilentUntilDone, Moves
<1>4. OwnStages'
  BY <1>0 DEF Inv, OwnStages, OwnStage, Moves
<1>5. CodesTyped'
  <2> SUFFICES ASSUME NEW q \in Requests, call'[q].op = "recoveryLogin"
               PROVE  call'[q].code \in Codes /\ pc'[call'[q].code[1]] = "done"
    BY DEF CodesTyped
  <2>1. call'[q].code \in Codes /\ pc[call'[q].code[1]] = "done"
    BY DEF Inv, CodesTyped, Moves
  <2> QED
    BY <1>0, <2>1, CodeOwner DEF Moves
<1>6. EntriesLast'
  BY <1>0 DEF Inv, EntriesLast, Moves
<1> QED
  BY <1>2, <1>3, <1>4, <1>5, <1>6 DEF Inv

\* What neither touches codes nor gets past one.
LEMMA OthersKeep ==
    ASSUME Inv, NEW r \in Requests, Moves(r), UNCHANGED <<unused, used>>,
           Past(r)' => Past(r) /\ call'[r] = call[r], RowTypes'
    PROVE  Inv'
<1>0. pc \in [Requests -> Stages]
  BY TypeParts DEF Inv
<1>1. CodesMade'
  BY <1>0, CodeOwner DEF Inv, CodesMade, Moves, TypeOK
<1>2. \A q \in Requests : Past(q)' => Past(q) /\ call'[q] = call[q]
  BY <1>0 DEF Moves, Past
<1>3. UsedForGood' /\ OnePast'
  BY <1>2 DEF Inv, UsedForGood, OnePast
<1> QED
  BY <1>1, <1>3, MovesKeeps

LEMMA GotoMoves ==
    ASSUME Inv, NEW r \in Requests, NEW stage \in Stages \ {"idle", "done"},
           pc[r] \notin {"idle", "log", "done"}, Goto(r, stage), OwnStage(r)',
           UNCHANGED <<call, trail>>
    PROVE  Moves(r) /\ pc'[r] = stage /\ reply' = reply
<1>1. pc \in [Requests -> Stages] /\ reply \in [Requests -> Replies] /\ call \in [Requests -> Calls]
  BY TypeParts DEF Inv
<1>2. pc' = [pc EXCEPT ![r] = stage] /\ reply' = reply
  BY DEF Goto
<1> QED
  BY <1>1, <1>2 DEF Moves, Inv, EntriesLast, CodesTyped

LEMMA AnswerMoves ==
    ASSUME Inv, NEW r \in Requests, NEW how \in Replies, NEW what,
           pc[r] \notin {"idle", "done"}, Answer(r, how), UNCHANGED call,
           UNCHANGED trail \/ Record(r, what)
    PROVE  Moves(r) /\ pc'[r] = "done"
<1>1. pc \in [Requests -> Stages] /\ reply \in [Requests -> Replies] /\ call \in [Requests -> Calls]
  BY TypeParts DEF Inv
<1>2. pc' = [pc EXCEPT ![r] = "done"] /\ reply' = [reply EXCEPT ![r] = how]
  BY DEF Answer
<1>3. OwnStage(r)'
  BY <1>1, <1>2 DEF OwnStage
<1>4. \A q \in Requests : q # r /\ Entry(q) \in trail' => Entry(q) \in trail
  BY DEF Record, Entry
<1> QED
  BY <1>1, <1>2, <1>3, <1>4 DEF Moves, Stages, Inv, CodesTyped

-----------------------------------------------------------------------------
\* The steps in which a request arrives.

LEMMA AskMoves ==
    ASSUME Inv, NEW r \in Requests, NEW c \in Calls, Ask(r, c),
           c.op = "recoveryLogin" => c.code \in SavedCodes,
           \/ Answer(r, "refused") /\ (UNCHANGED trail \/ Record(r, "FAILED"))
           \/ /\ UNCHANGED trail
              /\ \/ Goto(r, "store") /\ c.op = "setup"
                 \/ Goto(r, "begin") /\ c.op \in {"verifySetup", "regenerate", "disable"}
                 \/ Goto(r, "verify") /\ c.op = "codeLogin"
                 \/ Goto(r, "find") /\ c.op = "recoveryLogin"
    PROVE  Moves(r) /\ (Past(r)' => Past(r) /\ call'[r] = call[r])
<1>1. pc \in [Requests -> Stages] /\ reply \in [Requests -> Replies] /\ call \in [Requests -> Calls]
  BY TypeParts DEF Inv
<1>2. /\ pc[r] = "idle" /\ call' = [call EXCEPT ![r] = c]
      /\ Entry(r) \notin trail
  BY DEF Ask, Inv, EntriesLast
<1>3. /\ call' \in [Requests -> Calls] /\ call'[r] = c
      /\ \A q \in Requests : q # r => call'[q] = call[q]
  BY <1>1, <1>2
<1>4. \A q \in Requests : Entry(q) \in trail' => Entry(q) \in trail
  BY DEF Record, Entry
<1>5. c.op = "recoveryLogin" => c.code \in Codes /\ pc[c.code[1]] = "done"
  BY CodeOwner DEF SavedCodes, Inv, SilentUntilDone
<1>6. /\ pc' = [pc EXCEPT ![r] = pc'[r]]
      /\ pc'[r] \in {"store", "begin", "verify", "find", "done"}
      /\ reply' = [reply EXCEPT ![r] = reply'[r]] /\ reply'[r] \in Replies
      /\ pc'[r] # "done" => reply'[r] = reply[r]
  BY <1>1 DEF Answer, Goto, Replies
<1>7. OwnStage(r)'
  <2>1. /\ pc'[r] = "store" => c.op = "setup"
        /\ pc'[r] = "begin" => c.op \in {"verifySetup", "regenerate", "disable"}
        /\ pc'[r] = "verify" => c.op = "codeLogin"
        /\ pc'[r] = "find" => c.op = "recoveryLogin"
    BY <1>1 DEF Answer, Goto
  <2> QED
    BY <1>3, <1>6, <2>1 DEF OwnStage
<1>8. Moves(r)
  BY <1>2, <1>3, <1>4, <1>5, <1>6, <1>7 DEF Moves, Stages
<1> QED
  BY <1>2, <1>4, <1>6, <1>8 DEF Past

LEMMA AskKeeps ==
    ASSUME Inv, overtaken' \subseteq Requests, NEW r \in Requests,
           Setup(r) \/ VerifySetup(r) \/ Manage(r) \/ CodeLogin(r) \/ RecoveryLogin(r)
    PROVE  Inv'
<1>1. UNCHANGED <<enabled, secret, unused, used, seen>>
  BY DEF Setup, VerifySetup, Manage, CodeLogin, RecoveryLogin, columns
<1>2. RowTypes'
  BY <1>1 DEF Inv, TypeOK, RowTypes
<1>3. Moves(r) /\ (Past(r)' => Past(r) /\ call'[r] = call[r])
  <2>1. CASE Setup(r)
    <3> DEFINE c == [NoCall EXCEPT !.op = "setup"]
    <3>1. c \in Calls /\ c.op = "setup"
      BY DEF NoCall, Calls, Operations
    <3>2. /\ Ask(r, c) /\ UNCHANGED trail
          /\ Answer(r, "refused") \/ Goto(r, "store")
      BY <2>1 DEF Setup
    <3> HIDE DEF c
    <3> QED
      BY <3>1, <3>2, AskMoves
  <2>2. ASSUME NEW s \in Requests \cup {None}, Ask(r, [NoCall EXCEPT !.op = "verifySetup", !.secret = s]),
               UNCHANGED trail, Answer(r, "refused") \/ Goto(r, "begin")
        PROVE  Moves(r) /\ (Past(r)' => Past(r) /\ call'[r] = call[r])
    <3> DEFINE c == [NoCall EXCEPT !.op = "verifySetup", !.secret = s]
    <3>1. c \in Calls /\ c.op = "verifySetup"
      BY DEF NoCall, Calls, Operations
    <3>2. Ask(r, c)
      BY <2>2
    <3> HIDE DEF c
    <3> QED
      BY <2>2, <3>1, <3>2, AskMoves
  <2>3. ASSUME NEW op \in {"regenerate", "disable"}, NEW s \in Requests \cup {None}, NEW right \in BOOLEAN,
               Ask(r, [NoCall EXCEPT !.op = op, !.secret = s, !.right = right]),
               \/ Answer(r, "refused") /\ (UNCHANGED trail \/ Record(r, "FAILED"))
               \/ Goto(r, "begin") /\ UNCHANGED trail
        PROVE  Moves(r) /\ (Past(r)' => Past(r) /\ call'[r] = call[r])
    <3> DEFINE c == [NoCall EXCEPT !.op = op, !.secret = s, !.right = right]
    <3>1. c \in Calls /\ c.op = op
      BY DEF NoCall, Calls, Operations
    <3>2. Ask(r, c)
      BY <2>3
    <3> HIDE DEF c
    <3> QED
      BY <2>3, <3>1, <3>2, AskMoves
  <2>4. ASSUME NEW s \in Requests \cup {None}, Ask(r, [NoCall EXCEPT !.op = "codeLogin", !.secret = s]),
               UNCHANGED trail, Answer(r, "refused") \/ Goto(r, "verify")
        PROVE  Moves(r) /\ (Past(r)' => Past(r) /\ call'[r] = call[r])
    <3> DEFINE c == [NoCall EXCEPT !.op = "codeLogin", !.secret = s]
    <3>1. c \in Calls /\ c.op = "codeLogin"
      BY DEF NoCall, Calls, Operations
    <3>2. Ask(r, c)
      BY <2>4
    <3> HIDE DEF c
    <3> QED
      BY <2>4, <3>1, <3>2, AskMoves
  <2>5. ASSUME NEW d \in SavedCodes, Ask(r, [NoCall EXCEPT !.op = "recoveryLogin", !.code = d]),
               UNCHANGED trail, Answer(r, "refused") \/ Goto(r, "find")
        PROVE  Moves(r) /\ (Past(r)' => Past(r) /\ call'[r] = call[r])
    <3> DEFINE c == [NoCall EXCEPT !.op = "recoveryLogin", !.code = d]
    <3>0. d \in Codes
      BY DEF SavedCodes
    <3>1. c \in Calls /\ c.op = "recoveryLogin" /\ c.code = d
      BY <3>0 DEF NoCall, Calls, Operations
    <3>2. Ask(r, c)
      BY <2>5
    <3> HIDE DEF c
    <3> QED
      BY <2>5, <3>1, <3>2, AskMoves
  <2>6. Secrets \subseteq Requests
    BY DEF Secrets
  <2>7. CASE VerifySetup(r)
    BY <2>2, <2>6, <2>7 DEF VerifySetup
  <2>8. CASE Manage(r)
    BY <2>3, <2>6, <2>8 DEF Manage
  <2>9. CASE CodeLogin(r)
    BY <2>4, <2>6, <2>9 DEF CodeLogin
  <2>10. CASE RecoveryLogin(r)
    BY <2>5, <2>10 DEF RecoveryLogin
  <2> QED
    BY <2>1, <2>7, <2>8, <2>9, <2>10
<1> QED
  BY <1>1, <1>2, <1>3, OthersKeep

-----------------------------------------------------------------------------
\* The steps that leave the codes alone.

LEMMA StagesKeep ==
    ASSUME Inv, overtaken' \subseteq Requests, NEW r \in Requests, Begin(r) \/ FindCode(r)
    PROVE  Inv'
<1>1. /\ UNCHANGED <<enabled, secret, unused, used, call>>
      /\ pc[r] \in {"begin", "find"}
  BY DEF Begin, FindCode, At, columns
<1>2. RowTypes'
  <2>1. Doomed \subseteq Codes
    BY DEF Doomed, Inv, TypeOK
  <2>2. seen' \in [Requests -> SUBSET Codes]
    BY <2>1 DEF Begin, FindCode, Inv, TypeOK
  <2> QED
    BY <1>1, <2>2 DEF Inv, TypeOK, RowTypes
<1>3. OwnStage(r)
  BY DEF Inv, OwnStages
<1>4. CASE Begin(r) \/ (FindCode(r) /\ call[r].code \in unused)
  <2>1. UNCHANGED trail /\ (\/ pc[r] = "begin" /\ Goto(r, "commit")
                            \/ pc[r] = "find" /\ Goto(r, "consume"))
    BY <1>4 DEF Begin, FindCode, At
  <2>2. OwnStage(r)'
    BY <1>1, <1>3, <2>1, TypeParts DEF OwnStage, Goto, Inv
  <2>3. Moves(r) /\ pc'[r] # "log"
    BY <1>1, <2>1, <2>2, GotoMoves DEF Stages
  <2>4. Past(r)' => Past(r) /\ call'[r] = call[r]
    BY <1>1, <2>1, <2>3 DEF Past, Entry
  <2> QED
    BY <1>1, <1>2, <2>3, <2>4, OthersKeep
<1>5. CASE FindCode(r) /\ call[r].code \notin unused
  <2>1. Answer(r, "refused") /\ Record(r, "FAILED")
    BY <1>5 DEF FindCode
  <2>2. Moves(r) /\ pc'[r] = "done"
    BY <1>1, <2>1, AnswerMoves DEF Replies
  <2>3. Past(r)' => Past(r) /\ call'[r] = call[r]
    BY <1>1, <2>1, <2>2 DEF Past, Record, Entry
  <2> QED
    BY <1>1, <1>2, <2>2, <2>3, OthersKeep
<1> QED
  BY <1>4, <1>5

\* LogRecovery records a login that is past its code already.
LEMMA AnswersKeep ==
    ASSUME Inv, overtaken' \subseteq Requests, NEW r \in Requests,
           StoreSecret(r) \/ LogRegenerated(r) \/ VerifyCode(r) \/ LogRecovery(r) \/ Lose(r)
    PROVE  Inv'
<1>1. /\ UNCHANGED <<unused, used, call, seen>>
      /\ pc[r] \notin {"idle", "done"}
  BY DEF StoreSecret, LogRegenerated, VerifyCode, LogRecovery, Lose, At, Served
<1>2. RowTypes'
  <2>1. enabled' \in BOOLEAN /\ secret' \in Requests \cup {None}
    <3>1. CASE UNCHANGED columns
      BY <3>1 DEF columns, Inv, TypeOK
    <3> QED
      BY <3>1 DEF StoreSecret, LogRegenerated, VerifyCode, LogRecovery, Lose
  <2> QED
    BY <1>1, <2>1 DEF Inv, TypeOK, RowTypes
<1>3. /\ \E how \in Replies : Answer(r, how)
      /\ \/ UNCHANGED trail
         \/ \E what \in {"regenerate", "codeLogin", "FAILED"} : Record(r, what)
         \/ Record(r, "recoveryLogin") /\ call[r].op = "recoveryLogin" /\ pc[r] = "log"
  BY DEF StoreSecret, LogRegenerated, VerifyCode, LogRecovery, Lose, Replies, At
<1>4. Moves(r) /\ pc'[r] = "done"
  BY <1>1, <1>3, AnswerMoves
<1>5. Past(r)' => Past(r) /\ call'[r] = call[r]
  BY <1>1, <1>3, <1>4 DEF Past, Record, Entry
<1> QED
  BY <1>1, <1>2, <1>4, <1>5, OthersKeep

-----------------------------------------------------------------------------
\* Codes come and go.

\* New codes are r's own, and nobody has typed one yet.
LEMMA CommitKeeps ==
    ASSUME Inv, overtaken' \subseteq Requests, NEW r \in Requests, Commit(r)
    PROVE  Inv'
<1>1. /\ pc[r] = "commit" /\ UNCHANGED <<call, seen>>
      /\ call[r].op \in {"verifySetup", "regenerate", "disable"}
      /\ pc \in [Requests -> Stages]
  BY TypeParts DEF Commit, At, Inv, OwnStages, OwnStage
<1>2. /\ unused' \subseteq unused \cup Created(r) /\ used' \subseteq used
      /\ Created(r) \subseteq Codes
      /\ \A c \in Created(r) : c[1] = r
  BY DEF Commit, Created, Codes
<1>3. Moves(r) /\ pc'[r] \in {"log", "done"}
  <2>1. CASE call[r].op = "regenerate"
    <3>1. Goto(r, "log") /\ UNCHANGED trail
      BY <2>1 DEF Commit
    <3>2. OwnStage(r)'
      BY <1>1, <3>1 DEF OwnStage, Goto
    <3> QED
      BY <1>1, <3>1, <3>2, GotoMoves DEF Stages
  <2>2. CASE call[r].op \in {"verifySetup", "disable"}
    <3>1. Answer(r, "ok") /\ Record(r, call[r].op)
      BY <2>2 DEF Commit
    <3> QED
      BY <1>1, <3>1, AnswerMoves DEF Replies
  <2> QED
    BY <1>1, <2>1, <2>2
<1>4. RowTypes'
  <2>1. enabled' \in BOOLEAN /\ secret' \in Requests \cup {None}
    <3>1. CASE call[r].op = "verifySetup"
      BY <3>1 DEF Commit, Inv, TypeOK
    <3>2. CASE call[r].op = "disable"
      BY <3>2 DEF Commit, Inv, TypeOK
    <3>3. CASE call[r].op = "regenerate"
      BY <3>3 DEF Commit, columns, Inv, TypeOK
    <3> QED
      BY <1>1, <3>1, <3>2, <3>3
  <2>2. unused' \subseteq Codes /\ used' \subseteq Codes
    BY <1>2 DEF Inv, TypeOK
  <2>3. unused' \cap used' = {}
    <3>1. \A c \in used : c \notin Created(r)
      BY <1>1, <1>2 DEF Inv, CodesMade
    <3> QED
      BY <1>2, <3>1 DEF Inv, TypeOK
  <2> QED
    BY <1>1, <2>1, <2>2, <2>3 DEF Inv, TypeOK, RowTypes
<1>5. CodesMade'
  <2> SUFFICES ASSUME NEW c \in unused' \cup used'
               PROVE  pc'[c[1]] \in {"log", "done"}
    BY DEF CodesMade
  <2>1. CASE c \in Created(r)
    BY <1>2, <1>3, <2>1
  <2>2. CASE c \in unused \cup used
    <3>1. pc[c[1]] \in {"log", "done"} /\ c[1] \in Requests
      BY <2>2, CodeOwner DEF Inv, CodesMade, TypeOK
    <3> QED
      BY <1>1, <1>3, <3>1 DEF Moves
  <2> QED
    BY <1>2, <2>1, <2>2
<1>6. \A q \in Requests : Past(q)' => Past(q)
  <2>1. \A q \in Requests : Entry(q) \in trail' => Entry(q) \in trail
    BY <1>1, <1>3 DEF Commit, Record, Entry
  <2> QED
    BY <1>1, <1>3, <2>1 DEF Past, Moves
<1>7. UsedForGood'
  <2> SUFFICES ASSUME NEW q \in Requests, Past(q)'
               PROVE  call[q].code \notin unused'
    BY <1>1 DEF UsedForGood
  <2>1. Past(q)
    BY <1>6
  <2>2. call[q].code \notin unused /\ pc[call[q].code[1]] = "done"
    BY <2>1 DEF Inv, UsedForGood, CodesTyped, Past
  <2> QED
    BY <1>1, <1>2, <2>2
<1>8. OnePast'
  BY <1>1, <1>6 DEF Inv, OnePast
<1> QED
  BY <1>3, <1>4, <1>5, <1>7, <1>8, MovesKeeps

\* Who gets past a code takes it from the unused ones, where it was till then.
LEMMA ConsumeKeeps ==
    ASSUME Inv, overtaken' \subseteq Requests, NEW r \in Requests, Consume(r)
    PROVE  Inv'
<1> DEFINE c == call[r].code
<1>1. /\ pc[r] = "consume" /\ UNCHANGED <<enabled, secret, call, seen>>
      /\ call[r].op = "recoveryLogin" /\ pc \in [Requests -> Stages]
  BY TypeParts DEF Consume, At, columns, Inv, OwnStages, OwnStage
<1>2. CASE c \notin unused
  <2>1. Answer(r, "refused") /\ Record(r, "FAILED") /\ UNCHANGED <<unused, used>>
    BY <1>2 DEF Consume, Consumable
  <2>2. Moves(r) /\ pc'[r] = "done"
    BY <1>1, <2>1, AnswerMoves DEF Replies
  <2>3. Past(r)' => Past(r) /\ call'[r] = call[r]
    BY <1>1, <2>1, <2>2 DEF Past, Record, Entry
  <2>4. RowTypes'
    BY <1>1, <2>1 DEF RowTypes, Inv, TypeOK
  <2> QED
    BY <2>1, <2>2, <2>3, <2>4, OthersKeep
<1>3. CASE c \in unused
  <2>1. /\ unused' = unused \ {c} /\ used' = used \cup {c}
        /\ Goto(r, "log") /\ UNCHANGED trail
    BY <1>3 DEF Consume, Consumable, Spent
  <2>2. Moves(r) /\ pc'[r] = "log"
    <3>1. OwnStage(r)'
      BY <1>1, <2>1 DEF OwnStage, Goto
    <3> QED
      BY <1>1, <2>1, <3>1, GotoMoves DEF Stages
  <2>3. RowTypes'
    BY <1>1, <1>3, <2>1 DEF RowTypes, Inv, TypeOK
  <2>4. CodesMade'
    BY <1>1, <1>3, <2>1, <2>2, CodeOwner DEF Inv, CodesMade, Moves, TypeOK
  <2>5. \A q \in Requests : Past(q) => call[q].code # c
    BY <1>3 DEF Inv, UsedForGood
  <2>6. \A q \in Requests : Past(q)' => q = r \/ Past(q)
    BY <1>1, <2>1, <2>2 DEF Past, Moves, Entry
  <2>7. UsedForGood' /\ OnePast'
    BY <1>1, <2>1, <2>5, <2>6 DEF Inv, UsedForGood, OnePast
  <2> QED
    BY <2>2, <2>3, <2>4, <2>7, MovesKeeps
<1> QED
  BY <1>2, <1>3

-----------------------------------------------------------------------------

LEMMA NextKeeps == Inv /\ [Next]_vars => Inv'
<1> SUFFICES ASSUME Inv, [Next]_vars PROVE Inv'
  OBVIOUS
<1>1. CASE UNCHANGED vars
  BY <1>1 DEF vars, columns, Inv, TypeOK, SilentUntilDone, OwnStages, OwnStage, CodesMade,
              CodesTyped, EntriesLast, UsedForGood, OnePast, Past, Entry
<1>2. ASSUME NEW r \in Requests, Serve(r) PROVE overtaken' \subseteq Requests
  BY <1>2 DEF Serve, Administer, Proceed, Overtake, Verifying, Served, Inv, TypeOK
<1>3. ASSUME NEW r \in Requests, Serve(r) PROVE Inv'
  BY <1>2, <1>3, AskKeeps, StagesKeep, AnswersKeep, CommitKeeps, ConsumeKeeps
     DEF Serve, Administer, Proceed
<1> QED
  BY <1>1, <1>3 DEF Next

\* The page's own steps change nothing on the server.
LEMMA PageStepIsStep == [PageNext]_allVars => [Next]_vars
<1> SUFFICES ASSUME [PageNext]_allVars PROVE [Next]_vars
  OBVIOUS
<1>1. CASE UNCHANGED allVars
  BY <1>1 DEF allVars
<1>2. ASSUME NEW r \in Requests, Submit(r) \/ ServerStep(r) PROVE Next
  BY <1>2 DEF Submit, ServerStep, Serve, Next
<1>3. ASSUME NEW r \in Requests, StartSetup(r) \/ Enabled(r) \/ Regenerated(r) \/ Disabled(r) \/ Failed(r)
      PROVE  UNCHANGED vars
  BY <1>3 DEF StartSetup, Enabled, Regenerated, Disabled, Failed
<1>4. ASSUME NEW r \in Requests, ReadProfile(r) \/ RefreshUser(r) \/ RefreshFails(r)
      PROVE  UNCHANGED vars
  BY <1>4 DEF ReadProfile, RefreshUser, RefreshFails, AfterSync
<1>5. CASE Save \/ CloseSetup \/ CloseManagement \/ \E op \in {"regenerate", "disable"} : OpenManagement(op)
  BY <1>5 DEF Save, CloseSetup, CloseManagement, OpenManagement
<1> QED
  BY <1>1, <1>2, <1>3, <1>4, <1>5 DEF PageNext

\* Whatever the owner does on the page, the server sees a behaviour of Mfa.
THEOREM PageImplementsMfa == PageSpec => Spec
<1>1. PageInit => Init
  BY DEF PageInit
<1> QED
  BY <1>1, PageStepIsStep, PTL DEF PageSpec, Spec

\* The inductive invariant holds in every state of Mfa.
THEOREM Invariant == Spec => []Inv
BY InitInv, NextKeeps, PTL DEF Spec

\* At most one login ever gets past a recovery code, whichever requests are made at
\* a time.
THEOREM CodesWorkOnce == Spec => []RecoveryCodeOnce
<1>1. Inv => RecoveryCodeOnce
  BY DEF Inv, OnePast, Past, Entry, RecoveryCodeOnce
<1> QED
  BY <1>1, Invariant, PTL

\* ... with the page in front of the server.
THEOREM PageCodesWorkOnce == PageSpec => []RecoveryCodeOnce
BY PageImplementsMfa, CodesWorkOnce

-----------------------------------------------------------------------------
\* MFA starts with a verified secret, unless a verification was overtaken.

Managing == {"setup", "verifySetup", "regenerate", "disable"}

Verifies(r) == call[r].op = "verifySetup" /\ pc[r] \in {"begin", "commit"}

\* What a verification has read of the secret holds until it commits, or it is overtaken.
SecretStays ==
    \A r \in Requests : Verifies(r) /\ r \notin overtaken => call[r].secret = secret

ReadsHold == Inv /\ SecretStays

\* What r's step may do to the requests, the secret and the switch: r arrives, or goes on.
Arrives(r) ==
    /\ UNCHANGED <<enabled, secret>>
    /\ Verifies(r)' => call'[r].secret = secret

GoesOn(r) ==
    /\ r \in Served /\ UNCHANGED call
    /\ Verifies(r)' => Verifies(r)
    /\ secret' # secret => pc'[r] = "done"
    /\ ~enabled /\ enabled' => Verifies(r) /\ pc[r] = "commit" /\ reply'[r] = "ok" /\ UNCHANGED secret

\* Who replaces the secret marks the verifications under way.
Marks(r) ==
    /\ overtaken \subseteq overtaken'
    /\ secret' # secret => Verifying \ {r} \subseteq overtaken'

\* Only r's own input and stage change.
Only(r) == \A q \in Requests : q # r => pc'[q] = pc[q] /\ call'[q] = call[q]

LEMMA AskIsArrival ==
    ASSUME Inv, NEW r \in Requests, NEW c \in Calls, Ask(r, c), UNCHANGED <<enabled, secret>>,
           \/ Answer(r, "refused")
           \/ \E stage \in Stages : Goto(r, stage) /\ (c.op = "verifySetup" => c.secret = secret)
    PROVE  Arrives(r) /\ Only(r)
<1>1. pc \in [Requests -> Stages] /\ call \in [Requests -> Calls]
  BY TypeParts DEF Inv
<1>2. call'[r] = c /\ \A q \in Requests : q # r => call'[q] = call[q]
  BY <1>1 DEF Ask
<1>3. \A q \in Requests : q # r => pc'[q] = pc[q]
  BY <1>1 DEF Answer, Goto
<1>4. Answer(r, "refused") => pc'[r] = "done"
  BY <1>1 DEF Answer
<1>5. Verifies(r)' => call'[r].secret = secret
  BY <1>2, <1>4 DEF Verifies
<1> QED
  BY <1>2, <1>3, <1>5 DEF Arrives, Only

LEMMA AskArrives ==
    ASSUME Inv, NEW r \in Requests,
           Setup(r) \/ VerifySetup(r) \/ Manage(r) \/ CodeLogin(r) \/ RecoveryLogin(r)
    PROVE  Arrives(r) /\ Only(r)
<1>1. UNCHANGED <<enabled, secret, unused, used, seen>>
  BY DEF Setup, VerifySetup, Manage, CodeLogin, RecoveryLogin, columns
<1>2. CASE Setup(r)
  <2> DEFINE c == [NoCall EXCEPT !.op = "setup"]
  <2>1. c \in Calls /\ c.op = "setup"
    BY DEF NoCall, Calls, Operations
  <2>2. Ask(r, c) /\ (Answer(r, "refused") \/ Goto(r, "store"))
    BY <1>2 DEF Setup
  <2> HIDE DEF c
  <2> QED
    BY <1>1, <2>1, <2>2, AskIsArrival DEF Stages
<1>3. ASSUME NEW s \in Requests \cup {None}, Ask(r, [NoCall EXCEPT !.op = "verifySetup", !.secret = s]),
             UNCHANGED trail, Answer(r, "refused") \/ (Goto(r, "begin") /\ s = secret)
      PROVE  Arrives(r) /\ Only(r)
  <2> DEFINE c == [NoCall EXCEPT !.op = "verifySetup", !.secret = s]
  <2>1. c \in Calls /\ c.secret = s
    BY DEF NoCall, Calls, Operations
  <2>2. Ask(r, c)
    BY <1>3
  <2> HIDE DEF c
  <2> QED
    BY <1>1, <1>3, <2>1, <2>2, AskIsArrival DEF Stages
<1>4. ASSUME NEW op \in {"regenerate", "disable"}, NEW s \in Requests \cup {None}, NEW right \in BOOLEAN,
             Ask(r, [NoCall EXCEPT !.op = op, !.secret = s, !.right = right]),
             \/ Answer(r, "refused") /\ (UNCHANGED trail \/ Record(r, "FAILED"))
             \/ Goto(r, "begin") /\ UNCHANGED trail
      PROVE  Arrives(r) /\ Only(r)
  <2> DEFINE c == [NoCall EXCEPT !.op = op, !.secret = s, !.right = right]
  <2>1. c \in Calls /\ c.op = op
    BY DEF NoCall, Calls, Operations
  <2>2. Ask(r, c)
    BY <1>4
  <2> HIDE DEF c
  <2> QED
    BY <1>1, <1>4, <2>1, <2>2, AskIsArrival DEF Stages
<1>5. ASSUME NEW s \in Requests \cup {None}, Ask(r, [NoCall EXCEPT !.op = "codeLogin", !.secret = s]),
             UNCHANGED trail, Answer(r, "refused") \/ Goto(r, "verify")
      PROVE  Arrives(r) /\ Only(r)
  <2> DEFINE c == [NoCall EXCEPT !.op = "codeLogin", !.secret = s]
  <2>1. c \in Calls /\ c.op = "codeLogin"
    BY DEF NoCall, Calls, Operations
  <2>2. Ask(r, c)
    BY <1>5
  <2> HIDE DEF c
  <2> QED
    BY <1>1, <1>5, <2>1, <2>2, AskIsArrival DEF Stages
<1>6. ASSUME NEW d \in SavedCodes, Ask(r, [NoCall EXCEPT !.op = "recoveryLogin", !.code = d]),
             UNCHANGED trail, Answer(r, "refused") \/ Goto(r, "find")
      PROVE  Arrives(r) /\ Only(r)
  <2> DEFINE c == [NoCall EXCEPT !.op = "recoveryLogin", !.code = d]
  <2>1. c \in Calls /\ c.op = "recoveryLogin"
    BY DEF SavedCodes, NoCall, Calls, Operations
  <2>2. Ask(r, c)
    BY <1>6
  <2> HIDE DEF c
  <2> QED
    BY <1>1, <1>6, <2>1, <2>2, AskIsArrival DEF Stages
<1>7. Secrets \subseteq Requests
  BY DEF Secrets
<1>8. CASE VerifySetup(r)
  BY <1>3, <1>7, <1>8 DEF VerifySetup, FromSecret
<1>9. CASE Manage(r)
  BY <1>4, <1>7, <1>9 DEF Manage
<1>10. CASE CodeLogin(r)
  BY <1>5, <1>7, <1>10 DEF CodeLogin
<1>11. CASE RecoveryLogin(r)
  BY <1>6, <1>11 DEF RecoveryLogin
<1> QED
  BY <1>2, <1>8, <1>9, <1>10, <1>11

\* The steps of a request that is served already.
LEMMA OthersGoOn ==
    ASSUME Inv, NEW r \in Requests,
           \/ StoreSecret(r) \/ Begin(r) \/ Commit(r) \/ LogRegenerated(r) \/ VerifyCode(r)
           \/ FindCode(r) \/ Consume(r) \/ LogRecovery(r) \/ Lose(r)
    PROVE  GoesOn(r) /\ Only(r)
<1>1. pc \in [Requests -> Stages] /\ reply \in [Requests -> Replies] /\ OwnStage(r)
  BY TypeParts DEF Inv, OwnStages
<1>2. r \in Served /\ UNCHANGED call
  BY DEF Served, StoreSecret, Begin, Commit, LogRegenerated, VerifyCode,
     FindCode, Consume, LogRecovery, Lose, At
<1>3. \A stage : Goto(r, stage) => Only(r) /\ pc'[r] = stage
  BY <1>1, <1>2 DEF Goto, Only
<1>4. \A how : Answer(r, how) => Only(r) /\ pc'[r] = "done" /\ reply'[r] = how
  BY <1>1, <1>2 DEF Answer, Only
<1>5. CASE StoreSecret(r)
  <2>1. call[r].op = "setup" /\ ~enabled' /\ Answer(r, "ok")
    BY <1>1, <1>5 DEF StoreSecret, At, OwnStage
  <2> QED
    BY <1>2, <1>4, <2>1 DEF GoesOn, Managing, Verifies
<1>6. CASE Begin(r)
  <2>1. pc[r] = "begin" /\ Goto(r, "commit") /\ UNCHANGED <<enabled, secret>>
    BY <1>6 DEF Begin, At, columns
  <2> QED
    BY <1>2, <1>3, <2>1 DEF GoesOn, Verifies
<1>7. CASE Commit(r)
  <2>1. pc[r] = "commit" /\ call[r].op \in {"verifySetup", "regenerate", "disable"}
    BY <1>1, <1>7 DEF Commit, At, OwnStage
  <2>2. CASE call[r].op = "regenerate"
    <3>1. Goto(r, "log") /\ UNCHANGED <<enabled, secret>>
      BY <1>7, <2>2 DEF Commit, columns
    <3> QED
      BY <1>2, <1>3, <3>1 DEF GoesOn, Verifies
  <2>3. CASE call[r].op = "disable"
    <3>1. Answer(r, "ok") /\ ~enabled'
      BY <1>7, <2>3 DEF Commit
    <3> QED
      BY <1>2, <1>4, <2>3, <3>1 DEF GoesOn, Verifies, Managing
  <2>4. CASE call[r].op = "verifySetup"
    <3>1. Answer(r, "ok") /\ UNCHANGED secret
      BY <1>7, <2>4 DEF Commit
    <3> QED
      BY <1>2, <1>4, <2>1, <2>4, <3>1 DEF GoesOn, Verifies
  <2> QED
    BY <2>1, <2>2, <2>3, <2>4
<1>8. CASE LogRegenerated(r) \/ VerifyCode(r) \/ LogRecovery(r) \/ Lose(r)
  <2>1. UNCHANGED <<enabled, secret>> /\ \E how : Answer(r, how)
    BY <1>8 DEF LogRegenerated, VerifyCode, LogRecovery, Lose, columns
  <2> QED
    BY <1>2, <1>4, <2>1 DEF GoesOn, Verifies
<1>9. CASE FindCode(r) \/ Consume(r)
  <2>1. /\ UNCHANGED <<enabled, secret>> /\ pc[r] \in {"find", "consume"}
        /\ (\E how : Answer(r, how)) \/ \E stage \in {"consume", "log"} : Goto(r, stage)
    BY <1>9 DEF FindCode, Consume, At, columns
  <2> QED
    BY <1>1, <1>2, <1>3, <1>4, <2>1 DEF GoesOn, Verifies, OwnStage
<1> QED
  BY <1>5, <1>6, <1>7, <1>8, <1>9

LEMMA ServeMarks ==
    ASSUME NEW r \in Requests, Serve(r)
    PROVE  Marks(r)
<1>1. CASE Administer(r)
  <2>1. UNCHANGED <<secret, overtaken>>
    BY <1>1 DEF Administer, Setup, VerifySetup, Manage, columns
  <2> QED
    BY <2>1 DEF Marks
<1>2. CASE (StoreSecret(r) \/ Commit(r)) /\ Overtake(r)
  BY <1>2 DEF Overtake, Marks
<1>3. ASSUME Begin(r) \/ LogRegenerated(r) \/ CodeLogin(r) \/ VerifyCode(r) \/ RecoveryLogin(r)
             \/ FindCode(r) \/ Consume(r) \/ LogRecovery(r) \/ Lose(r)
      PROVE  UNCHANGED secret
  BY <1>3 DEF Begin, LogRegenerated, CodeLogin, VerifyCode, RecoveryLogin, FindCode, Consume,
              LogRecovery, Lose, columns
<1>4. CASE Proceed(r) /\ UNCHANGED <<secret, overtaken>>
  BY <1>4 DEF Marks
<1> QED
  BY <1>1, <1>2, <1>3, <1>4 DEF Serve, Proceed

\* Who replaces the secret is done with it, and has marked who else has read it.
LEMMA ReadsHoldKeeps ==
    ASSUME ReadsHold, NEW r \in Requests, Only(r), Arrives(r) \/ GoesOn(r), Marks(r)
    PROVE  SecretStays'
<1> SUFFICES ASSUME NEW q \in Requests, Verifies(q)', q \notin overtaken'
             PROVE  call'[q].secret = secret'
  BY DEF SecretStays
<1>1. q \notin overtaken
  BY DEF Marks
<1>2. CASE q # r
  <2>1. Verifies(q) /\ call'[q] = call[q]
    BY <1>2 DEF Only, Verifies
  <2>2. q \in Verifying \ {r}
    BY <1>2, <2>1 DEF Verifies, Verifying, Served
  <2> QED
    BY <1>1, <2>1, <2>2 DEF Marks, SecretStays, ReadsHold
<1>3. CASE q = r /\ Arrives(r)
  BY <1>3 DEF Arrives
<1>4. CASE q = r /\ GoesOn(r)
  <2>1. Verifies(r) /\ call' = call /\ secret' = secret
    BY <1>4 DEF GoesOn, Verifies
  <2> QED
    BY <1>1, <1>4, <2>1 DEF SecretStays, ReadsHold
<1> QED
  BY <1>2, <1>3, <1>4

LEMMA InitReadsHold == Init => ReadsHold
<1> SUFFICES ASSUME Init PROVE SecretStays
  BY InitInv DEF ReadsHold
<1> QED
  BY DEF Init, SecretStays, Verifies

LEMMA ReadsHoldStep ==
    ASSUME ReadsHold, [Next]_vars
    PROVE  /\ ReadsHold'
           /\ ~enabled /\ enabled' =>
                 \E r \in Requests :
                     Starts(r) /\ (call[r].secret = secret' \/ r \in overtaken)
<1>1. Inv'
  BY NextKeeps DEF ReadsHold
<1>2. CASE UNCHANGED vars
  BY <1>1, <1>2 DEF vars, columns, ReadsHold, SecretStays, Verifies
<1>3. ASSUME NEW r \in Requests, Serve(r)
      PROVE  Only(r) /\ (Arrives(r) \/ GoesOn(r)) /\ Marks(r)
  BY <1>3, AskArrives, OthersGoOn, ServeMarks DEF Serve, Administer, Proceed, ReadsHold
<1>4. ASSUME NEW r \in Requests, Arrives(r) \/ GoesOn(r), ~enabled, enabled'
      PROVE  Starts(r) /\ (call[r].secret = secret' \/ r \in overtaken)
  <2>1. /\ Verifies(r) /\ pc[r] = "commit" /\ reply'[r] = "ok" /\ UNCHANGED secret
    BY <1>4 DEF Arrives, GoesOn
  <2> QED
    BY <2>1 DEF Verifies, Starts, ReadsHold, SecretStays
<1>5. ASSUME NEW r \in Requests, Serve(r) PROVE ReadsHold'
  BY <1>1, <1>3, <1>5, ReadsHoldKeeps DEF ReadsHold
<1> QED
  BY <1>2, <1>3, <1>4, <1>5 DEF Next

\* MFA starts with the secret that the request which starts it has verified a code of,
\* whatever requests are made at a time and wherever one is lost, unless another
\* request replaced the secret between this very verification's check and its commit.
THEOREM VerifiedSecretStarts == Spec => VerifiedUnlessOvertaken
BY InitReadsHold, ReadsHoldStep, PTL DEF Spec, VerifiedUnlessOvertaken

\* ... with the page in front of the server.
THEOREM PageVerifiedSecretStarts == PageSpec => VerifiedUnlessOvertaken
BY PageImplementsMfa, VerifiedSecretStarts

-----------------------------------------------------------------------------
\* The page in front of the server: nobody loses codes that work.

\* Who waits, and what for.
Asking ==
    \A r \in Requests :
        /\ waits[r] # "nothing" => pc[r] # "idle" /\ call[r].op \in Managing
        /\ waits[r] \in {"profile", "on", "off"} => pc[r] = "done" /\ call[r].op \in Switches
        /\ r \in Served /\ call[r].op \in Managing => waits[r] = "answer"
        /\ r \in lost => pc[r] = "done" /\ waits[r] # "answer"

\* Each button is off while what it asked for is not over.
Buttons == {{"setup"}, {"verifySetup"}, {"regenerate", "disable"}}

Waits(r, ops) == call[r].op \in ops /\ waits[r] # "nothing"

OneWaits ==
    \A ops \in Buttons, q, r \in Requests : Waits(q, ops) /\ Waits(r, ops) => q = r

\* An answer finds nothing in its place that would be overwritten.
PlacesFree ==
    \A r \in Requests :
        /\ Waits(r, {"setup"}) => setup = None
        /\ Waits(r, {"verifySetup"}) /\ waits[r] = "answer" => setupCodes = None
        /\ Waits(r, {"regenerate", "disable"}) => newCodes = None

\* Codes were made by requests that were not refused.
Makers == {"verifySetup", "regenerate"}

Made == \A c \in unused \cup used : call[c[1]].op \in Makers /\ reply[c[1]] # "refused"

\* Where r's codes are.
Held(r) ==
    \/ waits[r] = "answer"
    \/ r \in saved \cup lost
    \/ setup # None /\ setupCodes = r
    \/ action # "none" /\ newCodes = r

AllHeld == \A c \in unused : Held(c[1])

PageInv == Inv /\ PageTypeOK /\ Asking /\ OneWaits /\ PlacesFree /\ Made /\ AllHeld

\* What r tells of MFA.
Tells(r) == IF waits[r] = "answer" THEN call[r].op = "verifySetup" ELSE waits[r] = "on"

\* News that are not older than the last switch are true.
NewsTrue == \A r \in Telling \ behind : enabled = Tells(r)

\* The last switch is over, and its own news are not older than itself.
LastDone ==
    /\ \A r \in behind : pc[r] = "done"
    /\ last # None => last \notin behind /\ pc[last] = "done" /\ reply[last] = "ok"

\* The page shows what is so once it has heard of the last switch.
Heard ==
    last # None => call[last].op \in Switches /\ waits[last] # "answer" /\ last \notin lost

Follows == Heard /\ ~misled => shown = enabled

TrueInv == PageInv /\ NewsTrue /\ LastDone /\ Follows

-----------------------------------------------------------------------------
\* A step of the server, as far as the page can tell.

Serves(r) ==
    /\ Only(r) /\ \A q \in Requests : q # r => reply'[q] = reply[q]
    /\ pc[r] # "done" /\ pc'[r] # "idle"
    /\ pc[r] # "idle" => call'[r] = call[r]
    /\ \A c \in unused' :
          c \in unused \/ (c[1] = r /\ pc[r] = "commit" /\ call[r].op \in Makers)
    /\ \A c \in used' : c \in unused \cup used
    /\ reply'[r] = "refused" => pc[r] \notin {"commit", "log"}

\* What it does to the switch.
Flips(r) ==
    /\ enabled' # enabled =>
          /\ pc[r] \in {"store", "commit"} /\ call[r].op \in Managing
          /\ pc'[r] = "done" /\ reply'[r] = "ok"
    /\ call'[r].op \in Switches /\ reply'[r] = "ok" =>
          pc[r] = "commit" /\ enabled' = (call'[r].op = "verifySetup")

LEMMA ArrivalServes ==
    ASSUME Inv, NEW r \in Requests,
           Setup(r) \/ VerifySetup(r) \/ Manage(r) \/ CodeLogin(r) \/ RecoveryLogin(r)
    PROVE  /\ Serves(r) /\ pc[r] = "idle" /\ UNCHANGED enabled
           /\ reply'[r] # "ok"
<1>1. pc \in [Requests -> Stages] /\ reply \in [Requests -> Replies]
  BY TypeParts DEF Inv
<1>2. /\ pc[r] = "idle" /\ UNCHANGED <<enabled, unused, used>>
      /\ \/ Answer(r, "refused")
         \/ Goto(r, "store") /\ ~enabled
         \/ \E stage \in {"begin", "verify", "find"} : Goto(r, stage)
  <2>1. CASE Setup(r)
    BY <2>1 DEF Setup, Ask, columns, AlreadyOn
  <2>2. CASE VerifySetup(r)
    BY <2>2 DEF VerifySetup, Ask, columns
  <2>3. CASE Manage(r)
    BY <2>3 DEF Manage, Ask, columns
  <2>4. CASE CodeLogin(r)
    BY <2>4 DEF CodeLogin, Ask, columns
  <2>5. CASE RecoveryLogin(r)
    BY <2>5 DEF RecoveryLogin, Ask, columns
  <2> QED
    BY <2>1, <2>2, <2>3, <2>4, <2>5
<1>3. reply[r] = "none"
  BY <1>1, <1>2 DEF Inv, SilentUntilDone
<1>4. /\ \A q \in Requests : q # r => reply'[q] = reply[q]
      /\ pc'[r] # "idle" /\ reply'[r] # "ok"
  BY <1>1, <1>2, <1>3 DEF Answer, Goto
<1>5. Only(r)
  BY AskArrives
<1> QED
  BY <1>2, <1>4, <1>5 DEF Serves

\* Which operations arrive by way of the page.
LEMMA AdministerManages ==
    ASSUME Inv, NEW r \in Requests
    PROVE  /\ Administer(r) => call'[r].op \in Managing
           /\ CodeLogin(r) \/ RecoveryLogin(r) => call'[r].op \notin Managing
<1>1. call \in [Requests -> Calls]
  BY TypeParts DEF Inv
<1>2. \A c : Ask(r, c) => call'[r] = c
  BY <1>1 DEF Ask
<1>3. Setup(r) => call'[r].op \in Managing
  BY <1>2 DEF Setup, NoCall, Managing
<1>4. VerifySetup(r) => call'[r].op \in Managing
  BY <1>2 DEF VerifySetup, NoCall, Managing
<1>5. Manage(r) => call'[r].op \in Managing
  BY <1>2 DEF Manage, NoCall, Managing
<1>6. CodeLogin(r) => call'[r].op \notin Managing
  BY <1>2 DEF CodeLogin, NoCall, Managing
<1>7. RecoveryLogin(r) => call'[r].op \notin Managing
  BY <1>2 DEF RecoveryLogin, NoCall, Managing
<1> QED
  BY <1>3, <1>4, <1>5, <1>6, <1>7 DEF Administer

LEMMA ProgressServes ==
    ASSUME Inv, NEW r \in Requests,
           \/ StoreSecret(r) \/ Begin(r) \/ Commit(r) \/ LogRegenerated(r) \/ VerifyCode(r)
           \/ FindCode(r) \/ Consume(r) \/ LogRecovery(r) \/ Lose(r)
    PROVE  Serves(r) /\ Flips(r) /\ pc[r] # "idle"
<1>1. /\ pc \in [Requests -> Stages] /\ reply \in [Requests -> Replies] /\ OwnStage(r)
      /\ unused \subseteq Codes
  BY TypeParts DEF Inv, OwnStages, TypeOK
<1>2. Only(r) /\ r \in Served /\ UNCHANGED call
  BY OthersGoOn DEF GoesOn
<1>3. reply[r] = "none" /\ pc[r] \notin {"idle", "done"}
  BY <1>1, <1>2 DEF Inv, SilentUntilDone, Served
<1>4. \A stage : Goto(r, stage) =>
          /\ pc'[r] = stage /\ reply' = reply
  BY <1>1 DEF Goto
<1>5. \A how : Answer(r, how) =>
          /\ pc'[r] = "done" /\ reply'[r] = how
          /\ \A q \in Requests : q # r => reply'[q] = reply[q]
  BY <1>1 DEF Answer
<1>6. CASE StoreSecret(r)
  <2>1. /\ pc[r] = "store" /\ call[r].op = "setup" /\ ~enabled' /\ Answer(r, "ok")
        /\ UNCHANGED <<unused, used>>
    BY <1>1, <1>6 DEF StoreSecret, At, OwnStage
  <2> QED
    BY <1>2, <1>3, <1>5, <2>1 DEF Serves, Flips, Switches, Managing
<1>7. CASE Begin(r)
  <2>1. Goto(r, "commit") /\ UNCHANGED <<enabled, unused, used>>
    BY <1>7 DEF Begin, columns
  <2> QED
    BY <1>2, <1>3, <1>4, <2>1 DEF Serves, Flips
<1>8. CASE Commit(r)
  <2>1. /\ pc[r] = "commit" /\ call[r].op \in {"verifySetup", "regenerate", "disable"}
        /\ unused' = (unused \ seen[r]) \cup Created(r) /\ used' = used \ seen[r]
    BY <1>1, <1>8 DEF Commit, At, OwnStage
  <2>2. \A c \in unused' : c \in unused \/ (c[1] = r /\ call[r].op \in Makers)
    BY <2>1 DEF Created, Makers
  <2>3. CASE call[r].op = "regenerate"
    <3>1. Goto(r, "log") /\ UNCHANGED enabled
      BY <1>8, <2>3 DEF Commit, columns
    <3> QED
      BY <1>2, <1>3, <1>4, <2>1, <2>2, <2>3, <3>1 DEF Serves, Flips, Switches
  <2>4. CASE call[r].op # "regenerate"
    <3>1. Answer(r, "ok") /\ enabled' = (call[r].op = "verifySetup")
      <4>1. CASE call[r].op = "verifySetup"
        BY <1>8, <4>1 DEF Commit
      <4>2. CASE call[r].op = "disable"
        BY <1>8, <4>2 DEF Commit
      <4> QED
        BY <2>1, <2>4, <4>1, <4>2
    <3>2. Serves(r)
      BY <1>2, <1>3, <1>5, <2>1, <2>2, <3>1 DEF Serves
    <3>3. Flips(r)
      BY <1>2, <1>5, <2>1, <2>4, <3>1 DEF Flips, Switches, Managing
    <3> QED
      BY <1>3, <3>2, <3>3
  <2> QED
    BY <2>3, <2>4
<1>9. CASE LogRegenerated(r) \/ VerifyCode(r) \/ LogRecovery(r) \/ Lose(r)
  <2>1. UNCHANGED <<enabled, unused, used>>
    BY <1>9 DEF LogRegenerated, VerifyCode, LogRecovery, Lose, columns
  <2>2. \/ Answer(r, "ok") /\ call[r].op \in {"regenerate", "codeLogin", "recoveryLogin"}
        \/ Answer(r, "refused") /\ pc[r] = "verify"
        \/ Answer(r, "failed")
    BY <1>1, <1>9 DEF LogRegenerated, VerifyCode, LogRecovery, Lose, At, OwnStage
  <2> QED
    BY <1>2, <1>3, <1>5, <2>1, <2>2 DEF Serves, Flips, Switches
<1>10. CASE FindCode(r) \/ Consume(r)
  <2>1. /\ UNCHANGED enabled /\ pc[r] \in {"find", "consume"}
        /\ Answer(r, "refused") \/ \E stage \in {"consume", "log"} : Goto(r, stage)
        /\ unused' \subseteq unused /\ used' \subseteq unused \cup used
    BY <1>10 DEF FindCode, Consume, Consumable, Spent, At, columns
  <2> QED
    BY <1>2, <1>3, <1>4, <1>5, <2>1 DEF Serves, Flips
<1> QED
  BY <1>6, <1>7, <1>8, <1>9, <1>10

-----------------------------------------------------------------------------
\* What the server's steps leave of the page.

\* r arrives by way of the page, or r is any request and the page does not move.
Submitted(r) ==
    /\ pc[r] = "idle" /\ call'[r].op \in Managing /\ Asks(call'[r].op)
    /\ Wait(r, "answer")
    /\ UNCHANGED <<shown, windows, saved, lost>>

Unasked(r) ==
    /\ pc[r] = "idle" => call'[r].op \notin Managing
    /\ UNCHANGED <<shown, windows, waits, saved, lost>>

\* The news are outdated when r switches MFA.
Outdates(r) ==
    /\ enabled' = enabled => UNCHANGED <<last, behind>>
    /\ enabled' # enabled => last' = r /\ behind' = behind \cup Telling
    /\ UNCHANGED misled

LEMMA ServerKeepsPage ==
    ASSUME PageInv, NEW r \in Requests, Inv', Serves(r), Submitted(r) \/ Unasked(r), Outdates(r)
    PROVE  PageInv'
<1>1. /\ waits \in [Requests -> {"nothing", "answer", "profile", "on", "off"}]
      /\ unused \subseteq Codes /\ used \subseteq Codes
  BY DEF PageInv, PageTypeOK, TypeOK
<1>2. /\ \A q \in Requests : q # r => waits'[q] = waits[q] /\ pc'[q] = pc[q]
                                      /\ call'[q] = call[q] /\ reply'[q] = reply[q]
      /\ pc'[r] # "idle" /\ pc[r] # "done"
      /\ pc[r] # "idle" => call'[r] = call[r] /\ waits'[r] = waits[r]
      /\ pc[r] = "idle" => waits[r] = "nothing"
      /\ UNCHANGED <<setup, setupCodes, action, newCodes, saved, lost>>
  BY <1>1 DEF Serves, Only, Submitted, Unasked, Wait, windows, PageInv, Asking
<1>3. waits'[r] = IF Submitted(r) THEN "answer" ELSE waits[r]
  BY <1>1 DEF Submitted, Unasked, Wait
<1>4. PageTypeOK'
  <2>1. waits' \in [Requests -> {"nothing", "answer", "profile", "on", "off"}]
    BY <1>1 DEF Submitted, Unasked, Wait
  <2>2. shown' \in BOOLEAN
    BY DEF Submitted, Unasked, PageInv, PageTypeOK
  <2>3. TypeOK'
    BY DEF Inv
  <2>4. misled' \in BOOLEAN /\ last' \in Requests \cup {None} /\ behind' \subseteq Requests
    BY DEF Outdates, Telling, PageInv, PageTypeOK
  <2> QED
    BY <1>2, <2>1, <2>2, <2>3, <2>4 DEF PageInv, PageTypeOK
<1>5. Asking'
  <2>1. r \notin lost /\ waits[r] \notin {"profile", "on", "off"}
    BY <1>2 DEF PageInv, Asking
  <2>2. CASE Submitted(r)
    BY <1>2, <1>3, <2>1, <2>2 DEF PageInv, Asking, Submitted, Served
  <2>3. CASE ~Submitted(r) /\ pc[r] = "idle"
    BY <1>2, <1>3, <2>1, <2>3 DEF PageInv, Asking, Unasked, Served
  <2>4. CASE ~Submitted(r) /\ pc[r] # "idle"
    BY <1>2, <1>3, <2>1, <2>4 DEF PageInv, Asking, Served
  <2> QED
    BY <2>2, <2>3, <2>4
<1>6. OneWaits' /\ PlacesFree'
  <2>1. \A ops, q : q \in Requests /\ q # r => Waits(q, ops)' = Waits(q, ops)
    BY <1>2 DEF Waits
  <2>2. CASE Submitted(r)
    <3>1. \A ops \in Buttons : Waits(r, ops)' =>
              \A q \in Requests : q # r => ~Waits(q, ops)'
      <4> SUFFICES ASSUME NEW ops \in Buttons, Waits(r, ops)', NEW q \in Requests, q # r, Waits(q, ops)
                   PROVE  FALSE
        BY <2>1
      <4>1. call'[r].op \in ops /\ Waiting(ops)
        BY DEF Waits, Waiting
      <4>2. CASE call'[r].op = "setup"
        BY <2>2, <4>1, <4>2 DEF Submitted, Asks, Buttons
      <4>3. CASE call'[r].op = "verifySetup"
        BY <2>2, <4>1, <4>3 DEF Submitted, Asks, Buttons
      <4>4. CASE call'[r].op \in {"regenerate", "disable"}
        BY <2>2, <4>1, <4>4 DEF Submitted, Asks, Buttons
      <4> QED
        BY <2>2, <4>2, <4>3, <4>4 DEF Submitted, Managing
    <3>2. OneWaits'
      BY <2>1, <3>1 DEF OneWaits, PageInv
    <3>3. /\ Waits(r, {"setup"})' => setup = None
          /\ Waits(r, {"verifySetup"})' => setupCodes = None
          /\ Waits(r, {"regenerate", "disable"})' => newCodes = None
      BY <2>2 DEF Submitted, Asks, NoWindow, Waits
    <3>4. PlacesFree'
      BY <1>2, <2>1, <3>3 DEF PlacesFree, PageInv
    <3> QED
      BY <3>2, <3>4
  <2>3. CASE ~Submitted(r)
    <3>1. \A ops : Waits(r, ops)' => Waits(r, ops)
      BY <1>2, <1>3, <2>3 DEF Waits
    <3>2. OneWaits'
      BY <2>1, <3>1 DEF OneWaits, PageInv
    <3>3. PlacesFree'
      BY <1>2, <1>3, <2>1, <2>3, <3>1 DEF PlacesFree, PageInv
    <3> QED
      BY <3>2, <3>3
  <2> QED
    BY <2>2, <2>3
<1>7. Made'
  <2> SUFFICES ASSUME NEW c \in unused' \cup used'
               PROVE  call'[c[1]].op \in Makers /\ reply'[c[1]] # "refused"
    BY DEF Made
  <2>1. CASE c \in unused \cup used
    <3>1. /\ c[1] \in Requests /\ pc[c[1]] \in {"log", "done"}
          /\ call[c[1]].op \in Makers /\ reply[c[1]] # "refused"
      BY <1>1, <2>1, CodeOwner DEF PageInv, Inv, CodesMade, Made
    <3> QED
      BY <1>2, <3>1 DEF Serves
  <2>2. CASE c[1] = r /\ pc[r] = "commit" /\ call[r].op \in Makers
    BY <1>2, <2>2 DEF Serves
  <2> QED
    BY <2>1, <2>2 DEF Serves
<1>8. AllHeld'
  <2> SUFFICES ASSUME NEW c \in unused' PROVE Held(c[1])'
    BY DEF AllHeld
  <2>1. CASE c \in unused
    <3>1. c[1] \in Requests /\ Held(c[1])
      BY <1>1, <2>1, CodeOwner DEF PageInv, AllHeld
    <3>2. waits[c[1]] = "answer" => waits'[c[1]] = "answer"
      BY <1>2, <3>1
    <3> QED
      BY <1>2, <3>1, <3>2 DEF Held
  <2>2. CASE c[1] = r /\ pc[r] = "commit" /\ call[r].op \in Makers
    <3>1. waits[r] = "answer" /\ waits'[r] = "answer"
      BY <1>2, <2>2 DEF PageInv, Asking, Served, Makers, Managing
    <3> QED
      BY <2>2, <3>1 DEF Held
  <2> QED
    BY <2>1, <2>2 DEF Serves
<1> QED
  BY <1>4, <1>5, <1>6, <1>7, <1>8 DEF PageInv

-----------------------------------------------------------------------------
\* The page's own steps.

\* The page hears of r, and waits for w of r from then on.
Hears(r, w) ==
    /\ waits[r] # "nothing" /\ pc[r] = "done" /\ Wait(r, w)
    /\ w = "nothing" \/ (w \in {"profile", "on", "off"} /\ call[r].op \in Switches)
    /\ lost' \in {lost, lost \cup {r}}
    /\ UNCHANGED <<vars, saved>>

LEMMA HearsKeeps ==
    ASSUME PageInv, NEW r \in Requests, NEW w, Hears(r, w)
    PROVE  /\ Inv' /\ Asking' /\ OneWaits' /\ Made'
           /\ waits' \in [Requests -> {"nothing", "answer", "profile", "on", "off"}]
           /\ lost' \subseteq Requests
           /\ waits'[r] = w /\ \A q \in Requests : q # r => waits'[q] = waits[q]
           /\ \A ops : \A q \in Requests : Waits(q, ops)' => Waits(q, ops)
<1>1. waits \in [Requests -> {"nothing", "answer", "profile", "on", "off"}] /\ lost \subseteq Requests
  BY DEF PageInv, PageTypeOK
<1>2. /\ UNCHANGED <<pc, call, reply, unused, used>>
      /\ waits'[r] = w /\ \A q \in Requests : q # r => waits'[q] = waits[q]
  BY <1>1 DEF Hears, Wait, vars
<1>3. Inv'
  BY NextKeeps DEF Hears, PageInv
<1>4. \A ops : \A q \in Requests : Waits(q, ops)' => Waits(q, ops)
  BY <1>2 DEF Waits, Hears
<1>5. OneWaits'
  BY <1>4 DEF OneWaits, PageInv
<1>6. Made'
  BY <1>2 DEF Made, PageInv
<1>7. Asking'
  BY <1>2 DEF Asking, PageInv, Hears, Served
<1>8. /\ waits' \in [Requests -> {"nothing", "answer", "profile", "on", "off"}]
      /\ lost' \subseteq Requests
  BY <1>1 DEF Hears, Wait
<1> QED
  BY <1>2, <1>3, <1>4, <1>5, <1>6, <1>7, <1>8

\* Whoever is answered and had made codes has them in sight or is lost.
LEMMA HearsHolds ==
    ASSUME PageInv, NEW r \in Requests, NEW w, Hears(r, w),
           \A q \in Requests : q # r /\ Held(q) => Held(q)',
           (\E c \in unused : c[1] = r) /\ Held(r) => Held(r)'
    PROVE  AllHeld'
<1>1. unused' = unused /\ unused \subseteq Codes
  BY DEF Hears, vars, PageInv, Inv, TypeOK
<1> SUFFICES ASSUME NEW c \in unused PROVE Held(c[1])'
  BY <1>1 DEF AllHeld
<1>2. c[1] \in Requests /\ Held(c[1])
  BY <1>1, CodeOwner DEF PageInv, AllHeld
<1> QED
  BY <1>2

\* The answers that open a window or fill one.
LEMMA LandingsKeep ==
    ASSUME PageInv, NEW r \in Requests, StartSetup(r) \/ Enabled(r) \/ Regenerated(r)
    PROVE  PageInv'
<1>1. /\ waits[r] = "answer" /\ pc[r] = "done" /\ reply[r] = "ok"
      /\ OneWaits /\ PlacesFree /\ PageTypeOK
  BY DEF StartSetup, Enabled, Regenerated, Landing, PageInv
<1>2. CASE StartSetup(r)
  <2>1. /\ Waits(r, {"setup"}) /\ setup = None /\ Hears(r, "nothing")
        /\ setup' = r /\ setupCodes' = None
        /\ UNCHANGED <<shown, action, newCodes, saved, lost, news>>
    BY <1>1, <1>2 DEF StartSetup, Waits, PlacesFree, Hears
  <2>2. PlacesFree'
    <3>1. \A q \in Requests : q # r => ~Waits(q, {"setup"})
      BY <1>1, <2>1 DEF OneWaits, Buttons
    <3> QED
      BY <2>1, <3>1, HearsKeeps, <1>1 DEF PlacesFree, Waits
  <2>3. AllHeld'
    <3>1. \A c \in unused : c[1] # r
      BY <2>1 DEF PageInv, Made, Makers, Waits
    <3>2. \A q \in Requests : q # r /\ Held(q) => Held(q)'
      BY <2>1, HearsKeeps DEF Held
    <3> QED
      BY <2>1, <3>1, <3>2, HearsHolds
  <2>4. PageTypeOK'
    BY <1>1, <2>1, HearsKeeps DEF PageTypeOK, Inv, Show, news
  <2> QED
    BY <2>1, <2>2, <2>3, <2>4, HearsKeeps DEF PageInv
<1>3. CASE Enabled(r)
  <2>1. /\ Waits(r, {"verifySetup"}) /\ setupCodes = None /\ Hears(r, "profile")
        /\ setupCodes' = r /\ lost' = lost \cup Unseen(r, setup # None) /\ Show(r, TRUE)
        /\ UNCHANGED <<setup, action, newCodes, saved>>
    BY <1>1, <1>3 DEF Enabled, Sync, Waits, PlacesFree, Hears, Switches, Unseen
  <2>2. PlacesFree'
    <3>1. \A q \in Requests : q # r => ~Waits(q, {"verifySetup"})
      BY <1>1, <2>1 DEF OneWaits, Buttons
    <3>2. waits'[r] # "answer" /\ UNCHANGED call
      BY <2>1, HearsKeeps DEF Hears, vars
    <3> QED
      BY <2>1, <3>1, <3>2, HearsKeeps, <1>1 DEF PlacesFree, Waits
  <2>3. AllHeld'
    <3>1. \A q \in Requests : q # r /\ Held(q) => Held(q)'
      BY <2>1, HearsKeeps, IdsAssumption DEF Held, Unseen
    <3>2. Held(r)'
      BY <2>1 DEF Held, Unseen
    <3> QED
      BY <2>1, <3>1, <3>2, HearsHolds
  <2>4. PageTypeOK'
    BY <1>1, <2>1, HearsKeeps DEF PageTypeOK, Inv, Show, news
  <2> QED
    BY <2>1, <2>2, <2>3, <2>4, HearsKeeps DEF PageInv
<1>4. CASE Regenerated(r)
  <2>1. /\ Waits(r, {"regenerate", "disable"}) /\ newCodes = None /\ Hears(r, "nothing")
        /\ newCodes' = r /\ lost' = lost \cup Unseen(r, action # "none")
        /\ UNCHANGED <<shown, setup, setupCodes, action, saved, news>>
    BY <1>1, <1>4 DEF Regenerated, Waits, PlacesFree, Hears, Unseen
  <2>2. PlacesFree'
    <3>1. \A q \in Requests : q # r => ~Waits(q, {"regenerate", "disable"})
      BY <1>1, <2>1 DEF OneWaits, Buttons
    <3> QED
      BY <2>1, <3>1, HearsKeeps, <1>1 DEF PlacesFree, Waits
  <2>3. AllHeld'
    <3>1. \A q \in Requests : q # r /\ Held(q) => Held(q)'
      BY <2>1, HearsKeeps, IdsAssumption DEF Held, Unseen
    <3>2. Held(r)'
      BY <2>1 DEF Held, Unseen
    <3> QED
      BY <2>1, <3>1, <3>2, HearsHolds
  <2>4. PageTypeOK'
    BY <1>1, <2>1, HearsKeeps DEF PageTypeOK, Inv, Show, news
  <2> QED
    BY <2>1, <2>2, <2>3, <2>4, HearsKeeps DEF PageInv
<1> QED
  BY <1>2, <1>3, <1>4

\* The rest of what the page hears.  A refused request has made no codes.
LEMMA NewsKeeps ==
    ASSUME PageInv, NEW r \in Requests,
           Disabled(r) \/ Failed(r) \/ ReadProfile(r) \/ RefreshUser(r) \/ RefreshFails(r)
    PROVE  PageInv'
<1>0. PageTypeOK /\ Asking /\ PlacesFree
  BY DEF PageInv
<1>1. \E w : Hears(r, w)
  BY <1>0 DEF Disabled, Failed, ReadProfile, RefreshUser, RefreshFails, AfterSync, Sync, Landing,
              Hears, Asking, Switches, windows
<1>2. /\ UNCHANGED <<setup, setupCodes, newCodes>> /\ shown' \in BOOLEAN
      /\ action' = action \/ (action' = "none" /\ newCodes = None)
  <2>1. CASE Disabled(r) \/ Failed(r) \/ ReadProfile(r)
    BY <1>0, <2>1 DEF Disabled, Failed, ReadProfile, Sync, Show, windows, PageTypeOK
  <2>2. CASE RefreshUser(r) \/ RefreshFails(r)
    <3>1. waits[r] # "nothing" /\ AfterSync(r) /\ shown' \in BOOLEAN
      BY <1>0, <2>2 DEF RefreshUser, RefreshFails, Show, PageTypeOK
    <3>2. call[r].op = "disable" => newCodes = None
      BY <1>0, <3>1 DEF PlacesFree, Waits
    <3> QED
      BY <1>0, <3>1, <3>2 DEF AfterSync, PageTypeOK
  <2> QED
    BY <2>1, <2>2
<1>3. misled' \in BOOLEAN /\ last' = last /\ behind' \subseteq Requests
  <2>1. /\ misled' = misled \/ misled' = (r \in behind)
        /\ last' = last /\ (behind' = behind \/ behind' = behind \ {r})
    <3>1. CASE Disabled(r) \/ RefreshUser(r)
      BY <3>1 DEF Disabled, RefreshUser, Sync, Show
    <3>2. CASE Failed(r) \/ ReadProfile(r) \/ RefreshFails(r)
      BY <3>2 DEF Failed, ReadProfile, RefreshFails, news
    <3> QED
      BY <3>1, <3>2
  <2>2. misled \in BOOLEAN /\ behind \subseteq Requests
    BY <1>0 DEF PageTypeOK
  <2>3. misled' \in BOOLEAN
    <3>1. (r \in behind) \in BOOLEAN
      OBVIOUS
    <3>2. CASE misled' = misled
      BY <2>2, <3>2
    <3>3. CASE misled' = (r \in behind)
      BY <3>1, <3>3
    <3> QED
      BY <2>1, <3>2, <3>3
  <2> QED
    BY <2>1, <2>2, <2>3
<1>4. waits'[r] # "answer"
  BY <1>0 DEF Disabled, Failed, ReadProfile, RefreshUser, RefreshFails, AfterSync, Sync, Wait, PageTypeOK
<1>5. PlacesFree'
  BY <1>0, <1>1, <1>2, <1>4, HearsKeeps DEF PlacesFree
<1>6. AllHeld'
  <2>1. PICK w : Hears(r, w)
    BY <1>1
  <2>2. \A q \in Requests : q # r /\ Held(q) => Held(q)'
    <3>1. lost \subseteq lost' /\ saved' = saved
      BY <2>1 DEF Hears
    <3>2. \A q \in Requests : q # r => waits'[q] = waits[q]
      BY <2>1, HearsKeeps
    <3> QED
      BY <1>2, <3>1, <3>2, IdsAssumption DEF Held
  <2>3. ASSUME NEW c \in unused, c[1] = r, Held(r)
        PROVE  Held(r)'
    <3>1. call[r].op \in Makers /\ reply[r] # "refused"
      BY <2>3 DEF PageInv, Made
    <3>2. CASE Failed(r)
      BY <3>1, <3>2 DEF Failed, Held
    <3>3. CASE ~Failed(r)
      <4>1. waits[r] # "answer"
        BY <3>1, <3>3 DEF Disabled, ReadProfile, RefreshUser, RefreshFails, Makers
      <4> QED
        BY <1>2, <2>1, <2>3, <4>1, IdsAssumption DEF Held, Hears
    <3> QED
      BY <3>2, <3>3
  <2> QED
    BY <2>1, <2>2, <2>3, HearsHolds
<1>7. PageTypeOK'
  BY <1>0, <1>1, <1>2, <1>3, HearsKeeps DEF PageTypeOK, Inv, PageInv, Hears
<1> QED
  BY <1>1, <1>5, <1>6, <1>7, HearsKeeps DEF PageInv

\* A window closes over codes only when they are saved.
LEMMA WindowsKeep ==
    ASSUME PageInv, Save \/ CloseSetup \/ CloseManagement
                    \/ \E op \in {"regenerate", "disable"} : OpenManagement(op)
    PROVE  PageInv'
<1>1. /\ UNCHANGED <<vars, shown, waits, lost, last, behind, misled>>
      /\ setup' \in {setup, None} /\ setupCodes' \in {setupCodes, None} /\ newCodes' \in {newCodes, None}
      /\ action' \in {"none", "regenerate", "disable"} /\ saved \subseteq saved' /\ saved' \subseteq Requests
  BY DEF Save, CloseSetup, CloseManagement, OpenManagement, windows, news, PageInv, PageTypeOK
<1>2. UNCHANGED <<pc, call, reply, unused, used>>
  BY <1>1 DEF vars
<1>3. Inv'
  BY <1>1, NextKeeps DEF PageInv
<1>4. PageTypeOK'
  BY <1>1, <1>3 DEF PageTypeOK, PageInv, Inv
<1>5. Asking' /\ OneWaits' /\ PlacesFree' /\ Made'
  BY <1>1, <1>2 DEF Asking, OneWaits, PlacesFree, Made, Waits, Served, PageInv
<1>6. \A q \in Requests : Held(q) => Held(q)'
  <2>1. CASE Save
    BY <2>1 DEF Save, windows, Held
  <2>2. CASE CloseSetup
    BY <2>2, IdsAssumption DEF CloseSetup, MayClose, Held
  <2>3. CASE CloseManagement
    BY <2>3, IdsAssumption DEF CloseManagement, MayClose, Held
  <2>4. CASE \E op \in {"regenerate", "disable"} : OpenManagement(op)
    BY <2>4 DEF OpenManagement, NoWindow, Held
  <2> QED
    BY <2>1, <2>2, <2>3, <2>4
<1>7. AllHeld'
  BY <1>2, <1>6, CodeOwner DEF AllHeld, PageInv, Inv, TypeOK
<1> QED
  BY <1>3, <1>4, <1>5, <1>7 DEF PageInv

-----------------------------------------------------------------------------

LEMMA PageInitInv == PageInit => PageInv
<1> SUFFICES ASSUME PageInit PROVE PageInv
  OBVIOUS
<1>1. Inv
  BY InitInv DEF PageInit
<1>2. PageTypeOK
  BY <1>1 DEF PageInit, PageTypeOK, Inv
<1>3. Asking /\ OneWaits /\ PlacesFree /\ Made /\ AllHeld
  BY DEF PageInit, Init, Asking, OneWaits, PlacesFree, Made, AllHeld, Waits, Served
<1> QED
  BY <1>1, <1>2, <1>3 DEF PageInv

LEMMA SubmitServes ==
    ASSUME PageInv, NEW r \in Requests, Submit(r)
    PROVE  Serves(r) /\ Flips(r) /\ Submitted(r) /\ Outdates(r)
<1>1. Inv /\ Administer(r)
  BY DEF Submit, PageInv
<1>2. Serves(r) /\ pc[r] = "idle" /\ UNCHANGED enabled /\ reply'[r] # "ok"
  BY <1>1, ArrivalServes DEF Administer
<1>3. call'[r].op \in Managing
  BY <1>1, AdministerManages
<1> QED
  BY <1>2, <1>3 DEF Submit, Submitted, Flips, Outdates, news

LEMMA ServerStepServes ==
    ASSUME PageInv, NEW r \in Requests, ServerStep(r)
    PROVE  Serves(r) /\ Flips(r) /\ Unasked(r) /\ Outdates(r)
<1>1. Inv /\ Proceed(r) /\ UNCHANGED <<shown, windows, waits, saved, lost>>
  BY DEF ServerStep, PageInv
<1>2. Outdates(r)
  BY DEF ServerStep, Outdates
<1>3. CASE CodeLogin(r) \/ RecoveryLogin(r)
  <2>1. Serves(r) /\ Flips(r)
    BY <1>1, <1>3, ArrivalServes DEF Flips
  <2> QED
    BY <1>1, <1>2, <1>3, <2>1, AdministerManages DEF Unasked
<1>4. CASE ~(CodeLogin(r) \/ RecoveryLogin(r))
  <2>1. Serves(r) /\ Flips(r) /\ pc[r] # "idle"
    BY <1>1, <1>4, ProgressServes DEF Proceed
  <2> QED
    BY <1>1, <1>2, <2>1 DEF Unasked
<1> QED
  BY <1>3, <1>4

LEMMA PageNextKeeps == PageInv /\ [PageNext]_allVars => PageInv'
<1> SUFFICES ASSUME PageInv, [PageNext]_allVars PROVE PageInv'
  OBVIOUS
<1>0. Inv'
  BY PageStepIsStep, NextKeeps DEF PageInv
<1>1. CASE UNCHANGED allVars
  <2>1. UNCHANGED <<enabled, unused, used, pc, call, reply, shown, setup, setupCodes, action, newCodes,
                    waits, saved, lost, last, behind, misled>>
    BY <1>1 DEF allVars, pageVars, news, windows, vars, columns
  <2> QED
    BY <1>0, <2>1 DEF PageInv, PageTypeOK, Inv, Asking, OneWaits, PlacesFree, Made, AllHeld, Waits, Served, Held
<1>2. ASSUME NEW r \in Requests, Submit(r) PROVE PageInv'
  BY <1>0, <1>2, SubmitServes, ServerKeepsPage
<1>3. ASSUME NEW r \in Requests, ServerStep(r) PROVE PageInv'
  BY <1>0, <1>3, ServerStepServes, ServerKeepsPage
<1> QED
  BY <1>1, <1>2, <1>3, LandingsKeep, NewsKeeps, WindowsKeep DEF PageNext

THEOREM PageInvariant == PageSpec => []PageInv
BY PageInitInv, PageNextKeeps, PTL DEF PageSpec

\* Every variable of the page keeps to its type, whatever requests and answers cross.
THEOREM PageTypeCorrect == PageSpec => []PageTypeOK
BY PageInvariant, PTL DEF PageInv

\* "Save these codes now": recovery codes that work are saved or in sight, or their
\* answer was lost, whatever windows were opened and closed while requests were on
\* their way.
THEOREM CodesStayKnown == PageSpec => []CodesKnown
<1>1. PageInv => CodesKnown
  <2> SUFFICES ASSUME PageInv, Quiet, NEW c \in unused
               PROVE  \/ c[1] \in saved \cup lost
                      \/ setup # None /\ setupCodes = c[1]
                      \/ action # "none" /\ newCodes = c[1]
    BY DEF CodesKnown
  <2>1. c[1] \in Requests /\ Held(c[1])
    BY CodeOwner DEF PageInv, AllHeld, Inv, TypeOK
  <2>2. waits[c[1]] = "nothing"
    BY <2>1 DEF Quiet
  <2> QED
    BY <2>1, <2>2 DEF Held
<1> QED
  BY <1>1, PageInvariant, PTL

-----------------------------------------------------------------------------
\* The page says what is so, however switches overlap.

\* Who switches MFA outdates all news but its own.
LEMMA ServerKeepsTrue ==
    ASSUME TrueInv, NEW r \in Requests, Serves(r), Flips(r),
           Submitted(r) \/ Unasked(r), Outdates(r)
    PROVE  NewsTrue' /\ LastDone' /\ Follows'
<1>1. /\ waits \in [Requests -> {"nothing", "answer", "profile", "on", "off"}]
      /\ behind \subseteq Requests /\ last \in Requests \cup {None}
      /\ PageInv /\ Asking /\ NewsTrue /\ LastDone /\ Follows
  BY DEF TrueInv, PageInv, PageTypeOK
<1>2. /\ \A q \in Requests : q # r => waits'[q] = waits[q] /\ pc'[q] = pc[q]
                                      /\ call'[q] = call[q] /\ reply'[q] = reply[q]
      /\ pc[r] # "done"
      /\ pc[r] # "idle" => call'[r] = call[r] /\ waits'[r] = waits[r]
      /\ UNCHANGED <<shown, lost>>
  BY <1>1 DEF Serves, Only, Submitted, Unasked, Wait
<1>3. waits'[r] = "answer" \/ (waits'[r] = waits[r] /\ waits[r] \notin {"profile", "on", "off"})
  BY <1>1, <1>2 DEF Submitted, Unasked, Wait, Asking
<1>4. r \notin behind /\ r # last
  BY <1>1, <1>2, IdsAssumption DEF LastDone
<1>5. \A q \in Requests : q # r => (q \in Telling' <=> q \in Telling) /\ Tells(q)' = Tells(q)
  BY <1>2 DEF Telling, Landing, Tells
<1>6. NewsTrue'
  <2> SUFFICES ASSUME NEW q \in Telling', q \notin behind'
               PROVE  enabled' = Tells(q)'
    BY DEF NewsTrue
  <2>1. q \in Requests
    BY DEF Telling
  <2>2. CASE q = r
    <3>1. waits'[r] = "answer" /\ reply'[r] = "ok" /\ call'[r].op \in Switches
      BY <1>3, <2>2 DEF Telling, Landing
    <3>2. enabled' = (call'[r].op = "verifySetup")
      BY <3>1 DEF Flips
    <3> QED
      BY <2>2, <3>1, <3>2 DEF Tells
  <2>3. CASE q # r
    <3>1. q \in Telling /\ Tells(q)' = Tells(q)
      BY <1>5, <2>1, <2>3
    <3>2. enabled' = enabled /\ q \notin behind
      BY <3>1 DEF Outdates
    <3> QED
      BY <1>1, <3>1, <3>2 DEF NewsTrue
  <2> QED
    BY <2>2, <2>3
<1>7. CASE enabled' = enabled
  <2>1. UNCHANGED <<last, behind, misled>>
    BY <1>7 DEF Outdates
  <2>2. LastDone'
    BY <1>1, <1>2, <1>4, <2>1 DEF LastDone
  <2>3. Heard' => Heard
    BY <1>1, <1>2, <1>4, <2>1 DEF Heard
  <2>4. Follows'
    BY <1>1, <1>2, <1>7, <2>1, <2>3 DEF Follows
  <2> QED
    BY <1>6, <2>2, <2>4
<1>8. CASE enabled' # enabled
  <2>1. /\ last' = r /\ behind' = behind \cup Telling
        /\ pc[r] \in {"store", "commit"} /\ call[r].op \in Managing
        /\ pc'[r] = "done" /\ reply'[r] = "ok"
    BY <1>8 DEF Outdates, Flips
  <2>2. \A q \in Telling : q \in Requests /\ pc[q] = "done"
    BY <1>1 DEF Telling, Landing, Asking
  <2>3. LastDone'
    BY <1>1, <1>2, <1>4, <2>1, <2>2 DEF LastDone
  <2>4. waits'[r] = "answer"
    BY <1>1, <1>2, <2>1 DEF Asking, Served
  <2>5. Follows'
    BY <2>1, <2>4, IdsAssumption DEF Follows, Heard
  <2> QED
    BY <1>6, <2>3, <2>5
<1> QED
  BY <1>7, <1>8

\* The page shows what r tells, or shows nothing new and misses no switch's answer but
\* one that is lost.
ShowsNews(r) ==
    /\ r \in Telling /\ shown' = Tells(r)
    /\ misled' = (r \in behind) /\ behind' = behind \ {r}

ShowsNone(r) ==
    /\ UNCHANGED <<shown, misled>> /\ behind' \in {behind, behind \ {r}}
    /\ r = last /\ call[r].op \in Switches /\ waits[r] = "answer" => r \in lost'

LEMMA PageKeepsTrue ==
    ASSUME TrueInv, NEW r \in Requests, NEW w, Hears(r, w), last' = last,
           ShowsNews(r) \/ ShowsNone(r),
           w \in {"on", "off"} => enabled = (w = "on")
    PROVE  NewsTrue' /\ LastDone' /\ Follows'
<1>1. UNCHANGED <<enabled, pc, call, reply>> /\ PageInv /\ NewsTrue /\ LastDone /\ Follows
  BY DEF Hears, vars, columns, TrueInv
<1>2. /\ waits'[r] = w /\ \A q \in Requests : q # r => waits'[q] = waits[q]
      /\ w \in {"nothing", "profile", "on", "off"} /\ lost \subseteq lost'
      /\ last \in Requests \cup {None}
  BY <1>1, HearsKeeps DEF Hears, PageInv, PageTypeOK
<1>3. behind' \subseteq behind /\ behind \ {r} \subseteq behind'
  BY DEF ShowsNews, ShowsNone
<1>4. NewsTrue'
  <2> SUFFICES ASSUME NEW q \in Telling', q \notin behind'
               PROVE  enabled = Tells(q)'
    BY <1>1 DEF NewsTrue
  <2>1. q \in Requests
    BY DEF Telling
  <2>2. CASE q = r
    BY <1>2, <2>2 DEF Telling, Landing, Tells
  <2>3. CASE q # r
    <3>1. q \in Telling /\ q \notin behind /\ Tells(q)' = Tells(q)
      BY <1>1, <1>2, <1>3, <2>1, <2>3 DEF Telling, Landing, Tells
    <3> QED
      BY <1>1, <3>1 DEF NewsTrue
  <2> QED
    BY <2>2, <2>3
<1>5. LastDone'
  BY <1>1, <1>3 DEF LastDone
<1>6. CASE ShowsNews(r)
  BY <1>1, <1>4, <1>5, <1>6 DEF ShowsNews, Follows, NewsTrue
<1>7. CASE ShowsNone(r)
  <2>1. Heard' => Heard
    BY <1>1, <1>2, <1>7 DEF Heard, ShowsNone
  <2>2. Follows'
    BY <1>1, <1>7, <2>1 DEF Follows, ShowsNone
  <2> QED
    BY <1>4, <1>5, <2>2
<1> QED
  BY <1>6, <1>7

LEMMA NewsKeepsTrue ==
    ASSUME TrueInv, NEW r \in Requests,
           \/ StartSetup(r) \/ Enabled(r) \/ Regenerated(r) \/ Disabled(r) \/ Failed(r)
           \/ ReadProfile(r) \/ RefreshUser(r) \/ RefreshFails(r)
    PROVE  NewsTrue' /\ LastDone' /\ Follows'
<1>1. /\ Asking /\ PageTypeOK /\ LastDone /\ enabled \in BOOLEAN
      /\ waits[r] \in {"nothing", "answer", "profile", "on", "off"}
  BY DEF TrueInv, PageInv, PageTypeOK, TypeOK
<1>2. CASE StartSetup(r) \/ Regenerated(r)
  <2>1. Hears(r, "nothing") /\ last' = last /\ ShowsNone(r)
    BY <1>2 DEF StartSetup, Regenerated, Landing, Unseen, Hears, ShowsNone, Switches, news
  <2> QED
    BY <2>1, PageKeepsTrue
<1>3. CASE Enabled(r)
  <2>1. Hears(r, "profile") /\ last' = last
    BY <1>3 DEF Enabled, Landing, Sync, Show, Unseen, Hears, Switches
  <2>2. ShowsNews(r)
    BY <1>3 DEF Enabled, Landing, Sync, Show, ShowsNews, Telling, Tells, Switches
  <2> QED
    BY <2>1, <2>2, PageKeepsTrue
<1>4. CASE Disabled(r)
  <2>1. Hears(r, "profile") /\ last' = last
    BY <1>4 DEF Disabled, Landing, Sync, Show, Hears, Switches
  <2>2. ShowsNews(r)
    BY <1>4 DEF Disabled, Landing, Sync, Show, ShowsNews, Telling, Tells, Switches
  <2> QED
    BY <2>1, <2>2, PageKeepsTrue
<1>5. CASE Failed(r)
  <2>1. Hears(r, "nothing") /\ last' = last
    BY <1>5 DEF Failed, Hears
  <2>2. ShowsNone(r)
    BY <1>1, <1>5, IdsAssumption DEF Failed, ShowsNone, LastDone
  <2> QED
    BY <2>1, <2>2, PageKeepsTrue
<1>6. CASE ReadProfile(r)
  <2> DEFINE w == IF enabled THEN "on" ELSE "off"
  <2>1. Hears(r, w) /\ last' = last /\ ShowsNone(r)
    BY <1>1, <1>6 DEF ReadProfile, Hears, ShowsNone, Asking, news
  <2>2. enabled = (w = "on")
    BY <1>1
  <2> HIDE DEF w
  <2> QED
    BY <2>1, <2>2, PageKeepsTrue
<1>7. CASE RefreshUser(r)
  <2>1. Hears(r, "nothing") /\ last' = last
    BY <1>1, <1>7 DEF RefreshUser, AfterSync, Show, Hears, Asking
  <2>2. ShowsNews(r)
    BY <1>7 DEF RefreshUser, Show, ShowsNews, Telling, Tells
  <2> QED
    BY <2>1, <2>2, PageKeepsTrue
<1>8. CASE RefreshFails(r)
  <2>1. Hears(r, "nothing") /\ last' = last /\ ShowsNone(r)
    BY <1>1, <1>8 DEF RefreshFails, AfterSync, Hears, ShowsNone, Asking
  <2> QED
    BY <2>1, PageKeepsTrue
<1> QED
  BY <1>2, <1>3, <1>4, <1>5, <1>6, <1>7, <1>8

LEMMA TrueNextKeeps ==
    ASSUME TrueInv, [PageNext]_allVars
    PROVE  TrueInv'
<1>0. PageInv /\ PageInv'
  BY PageNextKeeps DEF TrueInv
<1>1. ASSUME NEW r \in Requests, Submit(r) \/ ServerStep(r)
      PROVE  NewsTrue' /\ LastDone' /\ Follows'
  BY <1>0, <1>1, SubmitServes, ServerStepServes, ServerKeepsTrue
<1>2. ASSUME Save \/ CloseSetup \/ CloseManagement \/ UNCHANGED allVars
             \/ \E op \in {"regenerate", "disable"} : OpenManagement(op)
      PROVE  NewsTrue' /\ LastDone' /\ Follows'
  <2>1. UNCHANGED <<enabled, pc, call, reply, shown, waits, lost, last, behind, misled>>
    BY <1>2 DEF Save, CloseSetup, CloseManagement, OpenManagement, allVars, pageVars, news, vars, columns
  <2> QED
    BY <2>1 DEF TrueInv, NewsTrue, LastDone, Follows, Heard, Telling, Landing, Tells
<1> QED
  BY <1>0, <1>1, <1>2, NewsKeepsTrue DEF PageNext, TrueInv

\* When nothing is under way the page says of MFA what the server has stored, however
\* switches, their answers and the profiles read after them overlap: unless the last
\* switch's success was lost, older news landed after it, or it was a setup's.
THEOREM ShownStaysTrue == PageSpec => []ShownIsTrue
<1>1. PageInit => TrueInv
  <2> SUFFICES ASSUME PageInit PROVE TrueInv
    OBVIOUS
  <2>1. PageInv
    BY PageInitInv
  <2>2. NewsTrue /\ LastDone /\ Follows
    BY DEF PageInit, Init, NewsTrue, LastDone, Follows, Telling, Landing
  <2> QED
    BY <2>1, <2>2 DEF TrueInv
<1>2. TrueInv => ShownIsTrue
  <2> SUFFICES ASSUME TrueInv, Quiet, last \notin lost, ~misled,
                      last # None => call[last].op \in Switches
               PROVE  shown = enabled
    BY DEF ShownIsTrue
  <2>1. last \in Requests \cup {None}
    BY DEF TrueInv, PageInv, PageTypeOK
  <2>2. Heard
    BY <2>1 DEF Heard, Quiet
  <2> QED
    BY <2>2 DEF TrueInv, Follows
<1> QED
  BY <1>1, <1>2, TrueNextKeeps, PTL DEF PageSpec
=============================================================================
