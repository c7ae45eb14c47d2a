------------------------------- MODULE Presence -------------------------------
(***************************************************************************)
(* What the socket gateway promises: a socket is absent, or it is present  *)
(* as one user and listens to a set of rooms that holds its user's own     *)
(* room and the broadcast room for as long as it is present.  Absent       *)
(* sockets are in no room.  SocketGateway, which spreads this over four    *)
(* maps per process, is shown to implement it.                             *)
(***************************************************************************)
CONSTANTS Sockets, Users, Rooms, None, Default(_)

VARIABLES
  who,   \* who[s]: the user of socket s, None while it is absent
  hears  \* hears[s]: the rooms s listens to

vars == <<who, hears>>

Init == who = [s \in Sockets |-> None] /\ hears = [s \in Sockets |-> {}]

Enter(s, u) ==
  /\ who[s] = None
  /\ who' = [who EXCEPT ![s] = u]
  /\ hears' = [hears EXCEPT ![s] = Default(u)]

Join(s, r) ==
  /\ who[s] # None
  /\ hears' = [hears EXCEPT ![s] = @ \cup {r}]
  /\ UNCHANGED who

Leave(s, r) ==
  /\ who[s] # None /\ r \notin Default(who[s])
  /\ hears' = [hears EXCEPT ![s] = @ \ {r}]
  /\ UNCHANGED who

\* Sockets S go: their clients close them, or their process stops.
Gone(S) ==
  /\ who' = [s \in Sockets |-> IF s \in S THEN None ELSE who[s]]
  /\ hears' = [s \in Sockets |-> IF s \in S THEN {} ELSE hears[s]]

Next ==
  \/ \E s \in Sockets, u \in Users : Enter(s, u)
  \/ \E s \in Sockets, r \in Rooms : Join(s, r) \/ Leave(s, r)
  \/ \E S \in SUBSET Sockets : Gone(S)

Spec == Init /\ [][Next]_vars
=============================================================================
