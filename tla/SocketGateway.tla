---------------------------- MODULE SocketGateway ----------------------------
(***************************************************************************)
(* src/src/core/socket: SocketAuthAdapter, SocketGateway and               *)
(* RoomManagerService.                                                     *)
(*                                                                         *)
(* Each process has its own Socket.io server with the in-memory adapter    *)
(* (main.ts sets no other), its own gateway and its own room manager.  All *)
(* awaits of these handlers settle in microtasks, so a handler is one      *)
(* step; what interleaves is clients, processes and lost connections.      *)
(*                                                                         *)
(* Abstracted: a Map entry whose set has become empty is removed by the    *)
(* code and is the empty set here; event payloads are left out.            *)
(***************************************************************************)
EXTENDS FiniteSets

CONSTANTS
  Procs, Sockets, Users,
  Groups,       \* rooms of the form group:x and channel:x
  BadRooms,     \* room ids that do not have a valid form
  None,
  UserRoom(_),  \* user:{userId}
  Broadcast,    \* broadcast:all
  TokensCarrySub  \* access tokens have the sub claim the adapter asks for

ASSUME SwitchType == TokensCarrySub \in BOOLEAN
ASSUME NoneIsFresh == None \notin Users \cup Procs
ASSUME RoomIds ==
  /\ \A u, w \in Users : UserRoom(u) = UserRoom(w) => u = w
  /\ \A u \in Users : UserRoom(u) \notin Groups \cup BadRooms \cup {Broadcast}
  /\ Broadcast \notin Groups \cup BadRooms
  /\ Groups \cap BadRooms = {}

VARIABLES
  place,             \* place[s]: the process s is connected to, None without a connection
  data,              \* data[s]: socket.data.userId
  adapter,           \* adapter[p][r]: the sockets Socket.io has in room r
  connectedClients,  \* connectedClients[p]: pairs <<socket, user>>
  userSockets,       \* userSockets[p][u]
  roomMembers        \* roomMembers[p][r]

vars == <<place, data, adapter, connectedClients, userSockets, roomMembers>>

Rooms == {UserRoom(u) : u \in Users} \cup Groups \cup {Broadcast}

-----------------------------------------------------------------------------
(* RoomManagerService, on the maps of one process *)

IsValidRoomId(r) == r \in Rooms
\* Faulty variant: the broadcast room may be left.
IsOwnRoom(r, u) == r = UserRoom(u)
IsDefaultRoom(r, u) == r = UserRoom(u) \/ r = Broadcast
DefaultRooms(u) == {UserRoom(u), Broadcast}

\* addToRoom, for the rooms R; the adapter does the same.
AddTo(members, R, s) == [r \in Rooms |-> IF r \in R THEN members[r] \cup {s} ELSE members[r]]
\* removeFromRoom
RemoveFrom(members, x, s) == [r \in Rooms |-> IF r = x THEN members[r] \ {s} ELSE members[r]]
\* Faulty variant: the rooms the socket joined itself are forgotten.
RemoveFromDefaultsOnly(members, S) ==
  [r \in Rooms |-> IF r \in Groups THEN members[r] ELSE members[r] \ S]
\* removeFromAllRooms, for the sockets S.
RemoveFromAll(members, S) == [r \in Rooms |-> members[r] \ S]

-----------------------------------------------------------------------------
(* SocketGateway *)

\* authenticate: the token verifies and names a user and a session.
Authenticates(u) == TokensCarrySub

\* Faulty variant: the second device of a user replaces the first in userSockets.
RegisterReplaces(p, s, u) ==
  /\ connectedClients' = [connectedClients EXCEPT ![p] = @ \cup {<<s, u>>}]
  /\ userSockets' = [userSockets EXCEPT ![p][u] = {s}]
Register(p, s, u) ==
  /\ connectedClients' = [connectedClients EXCEPT ![p] = @ \cup {<<s, u>>}]
  /\ userSockets' = [userSockets EXCEPT ![p][u] = @ \cup {s}]

\* Faulty variant: socket.data is not filled in.
HandleConnectionAnonymous(p, s, u) ==
  /\ place[s] = None
  /\ place' = [place EXCEPT ![s] = p]
  /\ adapter' = [adapter EXCEPT ![p] = AddTo(@, DefaultRooms(u), s)]
  /\ roomMembers' = [roomMembers EXCEPT ![p] = AddTo(@, DefaultRooms(u), s)]
  /\ Register(p, s, u)
  /\ UNCHANGED data
HandleConnection(p, s, u) ==
  /\ place[s] = None
  /\ Authenticates(u)
  /\ place' = [place EXCEPT ![s] = p]
  /\ data' = [data EXCEPT ![s] = u]
  /\ adapter' = [adapter EXCEPT ![p] = AddTo(@, DefaultRooms(u), s)]
  /\ roomMembers' = [roomMembers EXCEPT ![p] = AddTo(@, DefaultRooms(u), s)]
  /\ Register(p, s, u)

\* A handshake without a usable token: an error event, and disconnect(true).
RefuseConnection(s) == place[s] = None /\ UNCHANGED vars

Unregister(p, S) ==
  /\ connectedClients' = [connectedClients EXCEPT ![p] = {c \in @ : c[1] \notin S}]
  /\ userSockets' = [userSockets EXCEPT ![p] = [u \in Users |->
       @[u] \ {s \in S : <<s, u>> \in connectedClients[p]}]]

\* Socket.io takes S out of its rooms and handleDisconnect runs for each.
Disconnect(p, S) ==
  /\ place' = [s \in Sockets |-> IF s \in S THEN None ELSE place[s]]
  /\ data' = [s \in Sockets |-> IF s \in S THEN None ELSE data[s]]
  /\ adapter' = [adapter EXCEPT ![p] = [r \in Rooms |-> @[r] \ S]]
  /\ roomMembers' = [roomMembers EXCEPT ![p] = RemoveFromAll(@, S)]
  /\ Unregister(p, S)

\* The client closes, or its pings stop.
HandleDisconnect(s) == place[s] # None /\ Disconnect(place[s], {s})

HandleRoomJoin(s, r) ==
  LET p == place[s]
  IN /\ p # None
     /\ IF IsValidRoomId(r)
        THEN /\ adapter' = [adapter EXCEPT ![p] = AddTo(@, {r}, s)]
             /\ roomMembers' = [roomMembers EXCEPT ![p] = AddTo(@, {r}, s)]
        ELSE UNCHANGED <<adapter, roomMembers>>
     /\ UNCHANGED <<place, data, connectedClients, userSockets>>

\* Faulty variant: any room may be left.
LeaveAnyRoom(s, r) ==
  LET p == place[s]
  IN /\ p # None
     /\ adapter' = [adapter EXCEPT ![p] = RemoveFrom(@, r, s)]
     /\ roomMembers' = [roomMembers EXCEPT ![p] = RemoveFrom(@, r, s)]
     /\ UNCHANGED <<place, data, connectedClients, userSockets>>
\* Leaving a room one is not in, or that does not exist, changes nothing.
HandleRoomLeave(s, r) ==
  LET p == place[s]
  IN /\ p # None
     /\ IF IsDefaultRoom(r, data[s])
        THEN UNCHANGED <<adapter, roomMembers>>
        ELSE /\ adapter' = [adapter EXCEPT ![p] = RemoveFrom(@, r, s)]
             /\ roomMembers' = [roomMembers EXCEPT ![p] = RemoveFrom(@, r, s)]
     /\ UNCHANGED <<place, data, connectedClients, userSockets>>

\* chat:send is refused or delivered: the room manager decides, the adapter
\* delivers, and neither changes.
HandleChatSend(s) == place[s] # None /\ UNCHANGED vars
HandlePing(s) == place[s] # None /\ UNCHANGED vars

\* sendNotificationToUser and broadcastNotification emit to a room of their own
\* process.
Notified(p, u) == adapter[p][UserRoom(u)]
NotifiedAll(p) == adapter[p][Broadcast]

\* The event goes to the user's room.  Then the first socket is looked up in
\* server.sockets.sockets: server is the Namespace "/" and its sockets a Map, so
\* this is undefined and the call throws.  Nobody is disconnected; the same holds,
\* without the error, for a user who has no socket here.
ForceLogoutUser(p, u) == UNCHANGED vars

\* PM2 restarts a process: the new one starts with empty maps.
Restart(p) ==
  LET S == {s \in Sockets : place[s] = p}
  IN /\ S # {}
     /\ place' = [s \in Sockets |-> IF s \in S THEN None ELSE place[s]]
     /\ data' = [s \in Sockets |-> IF s \in S THEN None ELSE data[s]]
     /\ adapter' = [adapter EXCEPT ![p] = [r \in Rooms |-> {}]]
     /\ roomMembers' = [roomMembers EXCEPT ![p] = [r \in Rooms |-> {}]]
     /\ connectedClients' = [connectedClients EXCEPT ![p] = {}]
     /\ userSockets' = [userSockets EXCEPT ![p] = [u \in Users |-> {}]]

Init ==
  /\ place = [s \in Sockets |-> None]
  /\ data = [s \in Sockets |-> None]
  /\ adapter = [p \in Procs |-> [r \in Rooms |-> {}]]
  /\ connectedClients = [p \in Procs |-> {}]
  /\ userSockets = [p \in Procs |-> [u \in Users |-> {}]]
  /\ roomMembers = [p \in Procs |-> [r \in Rooms |-> {}]]

Next ==
  \/ \E s \in Sockets, p \in Procs, u \in Users : HandleConnection(p, s, u)
  \/ \E s \in Sockets : \/ RefuseConnection(s) \/ HandleDisconnect(s)
                         \/ HandleChatSend(s) \/ HandlePing(s)
  \/ \E s \in Sockets, r \in Rooms \cup BadRooms : HandleRoomJoin(s, r) \/ HandleRoomLeave(s, r)
  \/ \E p \in Procs, u \in Users : ForceLogoutUser(p, u)
  \/ \E p \in Procs : Restart(p)

Spec == Init /\ [][Next]_vars

-----------------------------------------------------------------------------
(* Properties *)

TypeOK ==
  /\ place \in [Sockets -> Procs \cup {None}]
  /\ data \in [Sockets -> Users \cup {None}]
  /\ adapter \in [Procs -> [Rooms -> SUBSET Sockets]]
  /\ connectedClients \in [Procs -> SUBSET (Sockets \X Users)]
  /\ userSockets \in [Procs -> [Users -> SUBSET Sockets]]
  /\ roomMembers \in [Procs -> [Rooms -> SUBSET Sockets]]
  /\ \A s \in Sockets : place[s] = None <=> data[s] = None

\* The gateway's two maps are inverse to each other and list the process's live
\* connections, no more and no fewer: whoever goes by userSockets, as
\* forceLogoutUser does (socket.gateway.ts:438), finds every socket the user has
\* in the process and none that is gone.
ClientsAgree ==
  \A p \in Procs, s \in Sockets, u \in Users :
    /\ <<s, u>> \in connectedClients[p] <=> place[s] = p /\ data[s] = u
    /\ s \in userSockets[p][u] <=> place[s] = p /\ data[s] = u

\* The room manager, asked whether a socket may speak in a room, and Socket.io,
\* which delivers, have the same members, all of them connected here.
RoomsAgree ==
  \A p \in Procs, r \in Rooms :
    /\ roomMembers[p][r] = adapter[p][r]
    /\ \A s \in roomMembers[p][r] : place[s] = p

\* Whatever a connected socket joins and leaves, a notification to its user and
\* one to everybody sent in its process reach it.
DefaultRoomsKept ==
  \A s \in Sockets : place[s] # None =>
    s \in Notified(place[s], data[s]) \cap NotifiedAll(place[s])

Hears(s) == IF place[s] = None THEN {} ELSE {r \in Rooms : s \in roomMembers[place[s]][r]}

\* Four maps per process behave as the one table of Presence.
Abstract == INSTANCE Presence WITH
  who <- data, hears <- [s \in Sockets |-> Hears(s)], Default <- DefaultRooms
ImplementsPresence == Abstract!Spec

\* socket.gateway.ts:376: the notification goes to all the sockets of the user.
NotificationReachesUser ==
  \A p \in Procs, u \in Users : \A s \in Sockets : data[s] = u => s \in Notified(p, u)
=============================================================================
