------------------------------ MODULE BankData ------------------------------
(***************************************************************************)
(* One tab of the customers' and administrators' frontend on top of        *)
(* Administration: the stored session and AuthContext's copy of it, the    *)
(* copy of the data that BankDataContext loads for the signed-in role, and *)
(* the pages' requests, after each of which the data are loaded anew.      *)
(* Other tabs log in and out, and a storage event tells this one.          *)
(*                                                                         *)
(* Logging in, logging out and renewing tokens are one step each: what can *)
(* happen during them is Client's subject.  The requests of a load are     *)
(* one, and one refused to the role is a load that failed.  Left out: demo *)
(* sessions, which ask no server, refreshUser, which the pages of Security *)
(* call, and the limit of one retry, so a request may be refused and sent  *)
(* again any number of times.                                              *)
(***************************************************************************)
EXTENDS Administration

CONSTANTS
    Loads,     \* loads under way at once
    Visitors,  \* who signs in in this browser
    Ours,      \* requests that this tab may make
    Orders,    \* ... and what it asks for, whoever is signed in
    Elsewhere  \* what other browsers ask for

ASSUME LoadsAssumption == None \notin Loads
ASSUME OursAssumption == Ours \subseteq Requests /\ Visitors \subseteq Users
ASSUME AsksAssumption == Elsewhere \cup Orders \subseteq Asks

VARIABLES
    stored,    \* the stored session
    session,        \* AuthContext's copy of it
    unheard,        \* a storage event is on its way
    due,            \* the effect on [reload] is to run
    latest,         \* the load that has the current requestVersion
    loading, error, shown,  \* BankDataContext: its flags, and its data
    loads,          \* loads under way
    handler,        \* who waits for the answer to a request
    told            \* history: requests of this session that the page was told are done

data    == <<due, latest, loading, error, shown>>
tab     == <<stored, session, unheard, data, loads, handler, told>>
allVars == <<vars, tab>>

Session(u) == [by |-> u, role |-> role[u]]
Nothing == [of |-> None, upto |-> {}]
NoLoad  == [by |-> None, upto |-> {}, answer |-> "idle"]
NoPage  == [by |-> None, role |-> "none"]  \* of an unmounted provider

TabInit ==
    /\ Init
    /\ stored = None /\ session = None /\ unheard = FALSE
    /\ due = FALSE /\ latest = None /\ loading = FALSE /\ error = FALSE /\ shown = Nothing
    /\ loads = [l \in Loads |-> NoLoad]
    /\ handler = [r \in Requests |-> None]
    /\ told = {}

-----------------------------------------------------------------------------
\* Sessions.

Due_Once(s) == session = None /\ s # None

\* Another session gives the provider another reload, which its effect depends on.
Due(s) == s # None

Unmount_Kept == UNCHANGED <<loading, error, shown>>

\* Without a session ProtectedApp takes the provider away.
Unmount == loading' = FALSE /\ error' = FALSE /\ shown' = Nothing

\* setSession; the effect's cleanup ends the version.
ShowTo(s, waiting) ==
    /\ session' = s
    /\ due' = Due(s) /\ latest' = None
    /\ IF s = None
       THEN /\ Unmount
            /\ handler' = [r \in Requests |-> IF waiting[r] = None THEN None ELSE NoPage]
       ELSE handler' = waiting /\ UNCHANGED <<loading, error, shown>>
    /\ told' = IF s # None /\ session # None /\ s.by = session.by THEN told ELSE {}

Show(s) == ShowTo(s, handler)

Bearer == IF stored = None THEN None ELSE stored.by

StoreLogin(u) ==
    /\ Authenticated(u)
    /\ stored' = Session(u)

Unstore == stored' = None

Login(u) ==
    /\ session = None
    /\ StoreLogin(u)
    /\ Show(Session(u))
    /\ UNCHANGED <<vars, unheard, loads>>

Logout ==
    /\ session # None
    /\ Unstore
    /\ Show(None)
    /\ UNCHANGED <<vars, unheard, loads>>

LoginElsewhere(u) ==
    /\ stored = None
    /\ StoreLogin(u)
    /\ unheard' = TRUE
    /\ UNCHANGED <<vars, session, data, loads, handler, told>>

LogoutElsewhere ==
    /\ stored # None
    /\ Unstore /\ unheard' = TRUE
    /\ UNCHANGED <<vars, session, data, loads, handler, told>>

StorageEvent ==
    /\ unheard /\ unheard' = FALSE
    /\ Show(stored)
    /\ UNCHANGED <<vars, stored, loads>>

\* After a 401: the tokens are renewed, which stores the session anew, or the
\* session expires, whatever the reason why they could not be renewed.
Renew(waiting) ==
    /\ stored # None /\ Authenticated(stored.by)
    /\ ShowTo(stored, waiting)
    /\ UNCHANGED stored

Expire(waiting) ==
    /\ stored # None
    /\ Unstore
    /\ ShowTo(None, waiting)

-----------------------------------------------------------------------------
\* reload.

\* The data stay until the load lands, whoever they were loaded for.
StartLoad(l) ==
    /\ loads[l] = NoLoad
    /\ loads' = [loads EXCEPT ![l] = [by |-> Bearer, upto |-> {}, answer |-> "none"]]
    /\ latest' = l /\ loading' = TRUE /\ error' = FALSE
    /\ UNCHANGED shown

\* The effect, and the microtask it queues.
RunEffect(l) ==
    /\ due /\ due' = FALSE
    /\ StartLoad(l)
    /\ UNCHANGED <<vars, stored, session, unheard, handler, told>>

\* The pages' buttons "Retry" and "Refresh".
Reload(l) ==
    /\ session # None /\ ~due /\ ~loading
    /\ StartLoad(l)
    /\ UNCHANGED <<vars, stored, session, unheard, due, handler, told>>

\* Only an answer with data is a step of its own before it lands.
ServeLoad(l) ==
    /\ loads[l].answer = "none" /\ Authenticated(loads[l].by)
    /\ loads' = [loads EXCEPT ![l].answer = "ok", ![l].upto = written \cap Ours]
    /\ UNCHANGED <<vars, stored, session, unheard, data, handler, told>>

\* version === requestVersion.current
Current(l) == latest = l

Landed(l) ==
    /\ loads[l].answer = "ok"
    /\ loads' = [loads EXCEPT ![l] = NoLoad]
    /\ IF Current(l)
       THEN /\ shown' = [of |-> loads[l].by, upto |-> loads[l].upto]
            /\ loading' = FALSE
       ELSE UNCHANGED <<shown, loading>>
    /\ UNCHANGED <<vars, stored, session, unheard, due, latest, error, handler, told>>

\* What was refused is empty in the new data.
GaveUp == shown' = Nothing /\ error' = TRUE /\ loading' = FALSE

\* No answer, a 403, or a 401 when no session is stored.
LoadFailed(l) ==
    /\ loads[l].answer = "none"
    /\ loads' = [loads EXCEPT ![l] = NoLoad]
    /\ IF Current(l) THEN GaveUp ELSE UNCHANGED <<shown, error, loading>>
    /\ UNCHANGED <<vars, stored, session, unheard, due, latest, handler, told>>

\* What a load is sent again for lands under an old version, and is left out.
LoadRefused(l) ==
    /\ loads[l].answer = "none"
    /\ Renew(handler) \/ Expire(handler)
    /\ loads' = [loads EXCEPT ![l] = NoLoad]
    /\ UNCHANGED <<vars, unheard>>

-----------------------------------------------------------------------------
\* The pages' requests.

Offered(c) ==
    IF session.role = "ADMIN" THEN c.op = "status" /\ c.target # session.by
    ELSE c.op \in {"add", "remove"}

\* A page shows its controls when the data are there; executeMutation.
Submit(r) ==
    /\ r \in Ours
    /\ session # None /\ ~due /\ ~loading
    /\ \E c \in Orders : Offered(c) /\ Ask(r, [c EXCEPT !.by = Bearer], TRUE)
    /\ error' = FALSE
    /\ handler' = [handler EXCEPT ![r] = session]
    /\ UNCHANGED <<stored, session, unheard, due, latest, loading, shown, loads, told>>

\* Another browser's request.
AskElsewhere(r) ==
    /\ r \notin Ours
    /\ \E c \in Elsewhere : Ask(r, c, FALSE)
    /\ UNCHANGED tab

ServerStep(r) == Serve(r) /\ UNCHANGED tab

Answered(r, hows) == handler[r] # None /\ reply[r] \in hows

Forget(r) == HangUp(r) /\ handler' = [handler EXCEPT ![r] = None]

Reloads_Cached ==
    \E l \in Loads :
        /\ loads[l] = NoLoad
        /\ loads' = [loads EXCEPT ![l] = [by |-> Bearer, upto |-> shown.upto, answer |-> "ok"]]
        /\ latest' = l /\ loading' = TRUE /\ error' = FALSE
        /\ UNCHANGED shown

\* The "await reload()" after a mutation's answer.
Reloads == \E l \in Loads : StartLoad(l)

\* An unmounted page's reload lands nowhere.
Done(r) ==
    /\ Answered(r, {"ok"}) /\ Forget(r)
    /\ IF handler[r] = NoPage
       THEN UNCHANGED <<loads, latest, loading, error, shown, told>>
       ELSE /\ Reloads
            /\ told' = IF handler[r].by = session.by THEN told \cup {r} ELSE told
    /\ UNCHANGED <<stored, session, unheard, due>>

\* Refused, or not answered in time.
Failed(r) ==
    /\ Answered(r, {"refused", "none"} \cup IF stored = None THEN {"unauthorized"} ELSE {})
    /\ Forget(r)
    /\ error' = (error \/ handler[r] # NoPage)
    /\ UNCHANGED <<stored, session, unheard, due, latest, loading, shown, loads, told>>

RequestRenewed(r) ==
    /\ handler[r] # None
    /\ Renew(handler)
    /\ AskAgain(r, [call[r] EXCEPT !.by = stored.by])
    /\ UNCHANGED <<unheard, loads>>

RequestExpired(r) ==
    /\ Answered(r, {"unauthorized"})
    /\ HangUp(r)
    /\ Expire([handler EXCEPT ![r] = None])
    /\ UNCHANGED <<unheard, loads>>

-----------------------------------------------------------------------------
TabNext ==
    \/ \E u \in Visitors : Login(u) \/ LoginElsewhere(u)
    \/ Logout \/ LogoutElsewhere \/ StorageEvent
    \/ \E l \in Loads :
          RunEffect(l) \/ Reload(l) \/ ServeLoad(l) \/ Landed(l) \/ LoadFailed(l) \/ LoadRefused(l)
    \/ \E r \in Requests :
          \/ Submit(r) \/ AskElsewhere(r) \/ ServerStep(r)
          \/ Done(r) \/ Failed(r) \/ RequestRenewed(r) \/ RequestExpired(r)

TabSpec == TabInit /\ [][TabNext]_allVars

-----------------------------------------------------------------------------
\* Properties.

Sessions == [by : Users, role : Roles] \cup {None}

\* Only a mounted provider has a version, loads, shows or waits.
TabTypeOK ==
    /\ ServerTypeOK
    /\ stored \in Sessions /\ session \in Sessions
    /\ latest \in Loads \cup {None} /\ latest # None => session # None
    /\ due \/ loading \/ error \/ shown # Nothing => session # None
    /\ \A r \in Requests : handler[r] \notin {None, NoPage} => session # None

Quiet ==
    /\ ~due /\ ~unheard /\ ~loading
    /\ \A r \in Requests : handler[r] = None

\* Once everything has landed the page shows the data of whoever is signed in,
\* or an error and none, however sessions and loads followed each other.
ShownIsOwn ==
    Quiet /\ session # None => shown.of = session.by \/ (error /\ shown = Nothing)

\* ... and what the page was told is done is in what it shows.
OwnChangesShown == Quiet /\ session # None /\ ~error => told \subseteq shown.upto

=============================================================================
