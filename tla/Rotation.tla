------------------------------ MODULE Rotation ------------------------------
(***************************************************************************)
(* What the service promises about the refresh tokens of one account, with *)
(* every request, race and database statement left out: a login opens a    *)
(* family of tokens; a live token is traded for at most one other of its   *)
(* family; one that was traded or closed is worth nothing ever again.      *)
(* Sessions is shown to implement this module.                             *)
(***************************************************************************)
CONSTANTS
    Tokens,   \* every refresh token there will ever be
    First,    \* the one that is live at the start
    None      \* the family of a token that is not issued yet

VARIABLES
    family,   \* the login that each issued token goes back to
    live      \* the tokens that are worth something

vars == <<family, live>>

Init ==
    /\ family = [t \in Tokens |-> IF t = First THEN First ELSE None]
    /\ live = {First}

Issue(t, f) ==
    /\ family[t] = None
    /\ family' = [family EXCEPT ![t] = f]

\* A login.
Open(t) ==
    /\ Issue(t, t)
    /\ live' = live \cup {t}

\* A refresh: u takes the place of t.
Trade(t, u) ==
    /\ t \in live
    /\ Issue(u, family[t])
    /\ live' = (live \ {t}) \cup {u}

\* A logout, a revocation, or an event that ends several sessions at once.
Close(closed) ==
    /\ closed \subseteq live
    /\ live' = live \ closed
    /\ UNCHANGED family

Next ==
    \/ \E t \in Tokens : Open(t)
    \/ \E t, u \in Tokens : Trade(t, u)
    \/ \E closed \in SUBSET live : Close(closed)

Spec == Init /\ [][Next]_vars

\* Only issued tokens are live, and no two of one login: a token that is used
\* twice never buys a second session.
OneLivePerFamily ==
    /\ \A t \in live : family[t] # None
    /\ \A t, u \in live : family[t] = family[u] => t = u
=============================================================================
