--------------------------- MODULE SessionLifecycle ---------------------------
(***************************************************************************)
(* What the session table of mathplat promises to the rest of the system,  *)
(* whatever handler touches it: a session is opened once, for one user,    *)
(* and once it has been closed it stays closed.  A step of the system      *)
(* opens at most one session, or closes sessions of one single user; it    *)
(* never does both.  AuthService is shown to implement this module.        *)
(***************************************************************************)
CONSTANTS Users, Sids, None

VARIABLES
  holder,   \* holder[s]: the user session s belongs to, None before it is opened
  live      \* the sessions that are open

vars == <<holder, live>>

Init ==
  /\ holder = [s \in Sids |-> None]
  /\ live = {}

\* A login creates a session row.
Open(s, u) ==
  /\ holder[s] = None
  /\ holder' = [holder EXCEPT ![s] = u]
  /\ live' = live \cup {s}

\* A logout, a login elsewhere, an expiry or a reused refresh token ends
\* sessions of the user it concerns.
Close(S) ==
  /\ live' = live \ S
  /\ UNCHANGED holder

Next ==
  \/ \E s \in Sids, u \in Users : Open(s, u)
  \/ \E u \in Users : \E S \in SUBSET {s \in live : holder[s] = u} : Close(S)

Spec == Init /\ [][Next]_vars

-----------------------------------------------------------------------------
TypeOK ==
  /\ holder \in [Sids -> Users \cup {None}]
  /\ live \subseteq {s \in Sids : holder[s] # None}

\* A session that was opened and is no longer live is never live again, and
\* never changes hands: no handler writes isValid = true or userId on a row
\* that exists.
KeepsClosed ==
  \A s \in Sids : holder[s] # None =>
    /\ holder'[s] = holder[s]
    /\ s \notin live => s \notin live'
ClosedForGood == [][KeepsClosed]_vars
=============================================================================
