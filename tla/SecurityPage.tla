---------------------------- MODULE SecurityPage ----------------------------
(***************************************************************************)
(* SecurityPage.tsx on top of MfaService: the page through which the owner *)
(* of an account manages MFA, with its windows, the recovery codes that it *)
(* shows once, and the profile that it reads again after each change.  An  *)
(* answer of the server and its landing on the page are two steps, and it  *)
(* can be lost in between.                                                 *)
(*                                                                         *)
(* While a window is open its backdrop keeps the user off the page below,  *)
(* but not from closing the window, whatever the page still waits for.     *)
(* Whoever ticks "I saved these codes" has saved them.                     *)
(***************************************************************************)
EXTENDS Mfa

VARIABLES
    shown,       \* mfaOverride ?? user.mfaEnabled
    setup,       \* the setup request whose key the setup window shows, or None
    setupCodes,  \* the request whose codes are setupRecoveryCodes, or None
    action,      \* managementAction: the management window, or "none"
    newCodes,    \* the request whose codes are replacementCodes, or None
    waits,       \* what the page's handler of a request waits for
    saved,       \* history: code sets that the user has saved
    lost,        \* history: requests whose success the page has not shown
    last,        \* history: the request that switched MFA last, or None
    behind,      \* history: requests with news of MFA that are older than that
    misled       \* history: the page shows such older news

windows  == <<setup, setupCodes, action, newCodes>>
news     == <<last, behind, misled>>
pageVars == <<shown, windows, waits, saved, lost, news>>
allVars  == <<vars, pageVars>>

PageInit ==
    /\ Init
    /\ shown = FALSE
    /\ setup = None /\ setupCodes = None /\ action = "none" /\ newCodes = None
    /\ waits = [r \in Requests |-> "nothing"]
    /\ saved = {} /\ lost = {}
    /\ last = None /\ behind = {} /\ misled = FALSE

Wait(r, what) == waits' = [waits EXCEPT ![r] = what]

\* setupStarting, setupSubmitting and managementSubmitting.
Waiting(ops) == \E r \in Requests : call[r].op \in ops /\ waits[r] # "nothing"

-----------------------------------------------------------------------------
\* Requests of the page.

NoWindow == setup = None /\ action = "none"

Asks(op) ==
    CASE op = "setup"       -> ~shown /\ NoWindow /\ ~Waiting({"setup"})
      [] op = "verifySetup" -> setup # None /\ setupCodes = None /\ ~Waiting({"verifySetup"})
      [] op \in {"regenerate", "disable"} ->
            action = op /\ newCodes = None /\ ~Waiting({"regenerate", "disable"})

\* startMfaSetup, verifyMfaSetup and submitManagementAction, up to the answer.
Submit(r) ==
    /\ Administer(r)
    /\ Asks(call'[r].op)
    /\ Wait(r, "answer")
    /\ UNCHANGED <<shown, windows, saved, lost, news>>

Landing(r, how) == waits[r] = "answer" /\ pc[r] = "done" /\ reply[r] = how

Switches == {"verifySetup", "disable"}

\* Requests with an answer or a profile on its way that says whether MFA is on.
Telling ==
    {r \in Requests :
        \/ waits[r] \in {"on", "off"}
        \/ Landing(r, "ok") /\ call[r].op \in Switches}

ServerStep(r) ==
    /\ Proceed(r)
    /\ IF enabled' = enabled THEN UNCHANGED <<last, behind>>
       ELSE last' = r /\ behind' = behind \cup Telling
    /\ UNCHANGED <<shown, windows, waits, saved, lost, misled>>

-----------------------------------------------------------------------------
\* What an answer does.

StartSetup(r) ==
    /\ Landing(r, "ok") /\ call[r].op = "setup"
    /\ setup' = r /\ setupCodes' = None
    /\ Wait(r, "nothing")
    /\ UNCHANGED <<vars, shown, action, newCodes, saved, lost, news>>

\* The codes of an answer that finds its window closed stay unseen.
Unseen(r, open) == IF open THEN {} ELSE {r}

Show(r, on) ==
    /\ shown' = on
    /\ misled' = (r \in behind) /\ behind' = behind \ {r}
    /\ UNCHANGED last

Sync_Forgotten(r, on) == UNCHANGED <<shown, news>> /\ Wait(r, "profile")

\* syncMfaState shows the change and asks for the profile.
Sync(r, on) == Show(r, on) /\ Wait(r, "profile")

Enabled(r) ==
    /\ Landing(r, "ok") /\ call[r].op = "verifySetup"
    /\ setupCodes' = r
    /\ lost' = lost \cup Unseen(r, setup # None)
    /\ Sync(r, TRUE)
    /\ UNCHANGED <<vars, setup, action, newCodes, saved>>

Regenerated(r) ==
    /\ Landing(r, "ok") /\ call[r].op = "regenerate"
    /\ newCodes' = r
    /\ lost' = lost \cup Unseen(r, action # "none")
    /\ Wait(r, "nothing")
    /\ UNCHANGED <<vars, shown, setup, setupCodes, action, saved, news>>

Disabled(r) ==
    /\ Landing(r, "ok") /\ call[r].op = "disable"
    /\ Sync(r, FALSE)
    /\ UNCHANGED <<vars, windows, saved, lost>>

\* The window shows the error; the server may have done what was asked.
Failed(r) ==
    /\ waits[r] = "answer" /\ pc[r] = "done"
    /\ lost' = IF reply[r] = "refused" THEN lost ELSE lost \cup {r}
    /\ Wait(r, "nothing")
    /\ behind' = behind \ {r}
    /\ UNCHANGED <<vars, shown, windows, saved, last, misled>>

\* GET /users/me reads the row.
ReadProfile(r) ==
    /\ waits[r] = "profile"
    /\ Wait(r, IF enabled THEN "on" ELSE "off")
    /\ UNCHANGED <<vars, shown, windows, saved, lost, news>>

\* disable closes the management window once the profile is there.
AfterSync(r) ==
    /\ action' = IF call[r].op = "disable" THEN "none" ELSE action
    /\ Wait(r, "nothing")
    /\ UNCHANGED <<vars, setup, setupCodes, newCodes, saved, lost>>

RefreshUser(r) ==
    /\ waits[r] \in {"on", "off"}
    /\ Show(r, waits[r] = "on")
    /\ AfterSync(r)

\* "details could not be refreshed": the override stays.
RefreshFails(r) ==
    /\ waits[r] \in {"profile", "on", "off"}
    /\ behind' = behind \ {r}
    /\ UNCHANGED <<shown, last, misled>>
    /\ AfterSync(r)

-----------------------------------------------------------------------------
\* Windows.

Save ==
    \E r \in {IF setup = None THEN None ELSE setupCodes,
              IF action = "none" THEN None ELSE newCodes} \ ({None} \cup saved) :
        /\ saved' = saved \cup {r}
        /\ UNCHANGED <<vars, shown, windows, waits, lost, news>>

MayClose_Always(codes) == TRUE

\* "Confirm that you saved your recovery codes before closing this window."
MayClose(codes) == codes = None \/ codes \in saved

CloseSetup ==
    /\ setup # None /\ MayClose(setupCodes)
    /\ setup' = None /\ setupCodes' = None
    /\ UNCHANGED <<vars, shown, action, newCodes, waits, saved, lost, news>>

OpenManagement(op) ==
    /\ shown /\ NoWindow
    /\ action' = op /\ newCodes' = None
    /\ UNCHANGED <<vars, shown, setup, setupCodes, waits, saved, lost, news>>

CloseManagement ==
    /\ action # "none" /\ MayClose(newCodes)
    /\ action' = "none" /\ newCodes' = None
    /\ UNCHANGED <<vars, shown, setup, setupCodes, waits, saved, lost, news>>

PageNext ==
    \/ \E r \in Requests :
        \/ Submit(r) \/ ServerStep(r)
        \/ StartSetup(r) \/ Enabled(r) \/ Regenerated(r) \/ Disabled(r) \/ Failed(r)
        \/ ReadProfile(r) \/ RefreshUser(r) \/ RefreshFails(r)
    \/ Save \/ CloseSetup \/ CloseManagement
    \/ \E op \in {"regenerate", "disable"} : OpenManagement(op)

PageSpec == PageInit /\ [][PageNext]_allVars

-----------------------------------------------------------------------------
\* Properties.

PageTypeOK ==
    /\ TypeOK
    /\ shown \in BOOLEAN /\ misled \in BOOLEAN
    /\ {setup, setupCodes, newCodes, last} \subseteq Requests \cup {None}
    /\ action \in {"none", "regenerate", "disable"}
    /\ waits \in [Requests -> {"nothing", "answer", "profile", "on", "off"}]
    /\ saved \subseteq Requests /\ lost \subseteq Requests /\ behind \subseteq Requests

Quiet == Served = {} /\ \A r \in Requests : waits[r] = "nothing"

\* "Save these codes now. BankShield will not show them again.": recovery codes
\* that work are in the user's hands or still on the screen, whatever windows
\* were opened and closed meanwhile, unless their answer never came or found its
\* window closed.
CodesKnown ==
    Quiet => \A c \in unused :
        \/ c[1] \in saved \cup lost
        \/ setup # None /\ setupCodes = c[1]
        \/ action # "none" /\ newCodes = c[1]

\* What the page says of MFA is so, however switches and the profiles read after them
\* overlap, unless the success of the last switch never reached it, older news landed
\* after it, or that switch was a setup's, which had checked before a verification
\* and turns MFA off again, and says nothing of it.
ShownIsTrue ==
    Quiet /\ last \notin lost /\ ~misled /\ (last # None => call[last].op \in Switches)
        => shown = enabled
=============================================================================
