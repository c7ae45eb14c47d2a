------------------------- MODULE SocketGatewayProofs -------------------------
(***************************************************************************)
(* Proofs about SocketGateway, for any number of processes, sockets, users *)
(* and rooms: the four maps of every process always agree with each other  *)
(* and with the connections there are.  The properties are inductive only  *)
(* together: a disconnection is right about rooms because the room maps    *)
(* list connected sockets only, and about clients because both client maps *)
(* list exactly the connections.                                           *)
(***************************************************************************)
EXTENDS SocketGateway, TLAPS

\* The inductive invariant.
GInv == TypeOK /\ ClientsAgree /\ RoomsAgree /\ DefaultRoomsKept

\* Every default room is a room.
LEMMA DefaultRoomsAreRooms ==
  ASSUME NEW u \in Users
  PROVE  DefaultRooms(u) \subseteq Rooms /\ UserRoom(u) \in Rooms /\ Broadcast \in Rooms
BY DEF DefaultRooms, Rooms

\* The gateway starts with empty maps and no connection.
LEMMA InitGInv == Init => GInv
<1> SUFFICES ASSUME Init PROVE GInv
  OBVIOUS
<1>1. TypeOK
  BY DEF Init, TypeOK
<1>2. ClientsAgree /\ RoomsAgree /\ DefaultRoomsKept
  BY NoneIsFresh DEF Init, ClientsAgree, RoomsAgree, DefaultRoomsKept
<1>3. QED
  BY <1>1, <1>2 DEF GInv

-----------------------------------------------------------------------------
(* One lemma per action *)

\* A socket that connects is entered in all four maps.
LEMMA HandleConnectionKeeps ==
  ASSUME GInv, NEW s \in Sockets, NEW p \in Procs, NEW u \in Users, HandleConnection(p, s, u)
  PROVE  GInv'
<1> DEFINE D == DefaultRooms(u)
<1> USE DEF GInv
<1>1. D \subseteq Rooms /\ UserRoom(u) \in D /\ Broadcast \in D
  BY DefaultRoomsAreRooms DEF DefaultRooms
<1> HIDE DEF D
<1>2. /\ place[s] = None /\ place' = [place EXCEPT ![s] = p] /\ data' = [data EXCEPT ![s] = u]
      /\ adapter' = [adapter EXCEPT ![p] = [r \in Rooms |->
            IF r \in D THEN adapter[p][r] \cup {s} ELSE adapter[p][r]]]
      /\ roomMembers' = [roomMembers EXCEPT ![p] = [r \in Rooms |->
            IF r \in D THEN roomMembers[p][r] \cup {s} ELSE roomMembers[p][r]]]
      /\ connectedClients' = [connectedClients EXCEPT ![p] = connectedClients[p] \cup {<<s, u>>}]
      /\ userSockets' = [userSockets EXCEPT ![p] =
            [userSockets[p] EXCEPT ![u] = userSockets[p][u] \cup {s}]]
  BY DEF HandleConnection, Register, AddTo, D
<1>3. \A z \in Sockets : /\ z = s => place'[z] = p /\ data'[z] = u
                         /\ z # s => place'[z] = place[z] /\ data'[z] = data[z]
  BY <1>2 DEF TypeOK
<1>4. \A q \in Procs, r \in Rooms :
        /\ adapter'[q][r] = IF q = p /\ r \in D THEN adapter[q][r] \cup {s} ELSE adapter[q][r]
        /\ roomMembers'[q][r] =
             IF q = p /\ r \in D THEN roomMembers[q][r] \cup {s} ELSE roomMembers[q][r]
  BY <1>2 DEF TypeOK
<1>5. \A q \in Procs :
        connectedClients'[q] =
          IF q = p THEN connectedClients[q] \cup {<<s, u>>} ELSE connectedClients[q]
  BY <1>2 DEF TypeOK
<1>6. \A q \in Procs, w \in Users :
        userSockets'[q][w] =
          IF q = p /\ w = u THEN userSockets[q][w] \cup {s} ELSE userSockets[q][w]
  BY <1>2 DEF TypeOK
<1>7. TypeOK'
  <2>1. place' \in [Sockets -> Procs \cup {None}] /\ data' \in [Sockets -> Users \cup {None}]
    BY <1>2 DEF TypeOK
  <2>2. /\ adapter' \in [Procs -> [Rooms -> SUBSET Sockets]]
        /\ roomMembers' \in [Procs -> [Rooms -> SUBSET Sockets]]
    BY <1>2 DEF TypeOK
  <2>3. connectedClients' \in [Procs -> SUBSET (Sockets \X Users)]
    BY <1>2 DEF TypeOK
  <2>4. userSockets' \in [Procs -> [Users -> SUBSET Sockets]]
    <3>1. [userSockets[p] EXCEPT ![u] = userSockets[p][u] \cup {s}] \in [Users -> SUBSET Sockets]
      BY DEF TypeOK
    <3>2. QED
      BY <1>2, <3>1 DEF TypeOK
  <2>5. \A z \in Sockets : place'[z] = None <=> data'[z] = None
    BY <1>3, NoneIsFresh DEF TypeOK
  <2>6. QED
    BY <2>1, <2>2, <2>3, <2>4, <2>5 DEF TypeOK
<1>8. ClientsAgree'
  <2> SUFFICES ASSUME NEW q \in Procs, NEW z \in Sockets, NEW w \in Users
               PROVE  /\ <<z, w>> \in connectedClients'[q] <=> place'[z] = q /\ data'[z] = w
                      /\ z \in userSockets'[q][w] <=> place'[z] = q /\ data'[z] = w
    BY DEF ClientsAgree
  <2>1. /\ <<z, w>> \in connectedClients[q] <=> place[z] = q /\ data[z] = w
        /\ z \in userSockets[q][w] <=> place[z] = q /\ data[z] = w
    BY DEF ClientsAgree
  <2>2. CASE z = s
    <3>1. place[s] = None /\ place'[s] = p /\ data'[s] = u
      BY <1>2, <1>3
    <3>2. <<s, w>> \notin connectedClients[q] /\ s \notin userSockets[q][w]
      BY <2>1, <2>2, <3>1, NoneIsFresh
    <3>3. <<s, w>> \in connectedClients'[q] <=> q = p /\ w = u
      <4>1. CASE q = p
        <5>1. connectedClients'[q] = connectedClients[q] \cup {<<s, u>>}
          BY <1>5, <4>1
        <5>2. QED
          BY <3>2, <4>1, <5>1
      <4>2. CASE q # p
        <5>1. connectedClients'[q] = connectedClients[q]
          BY <1>5, <4>2
        <5>2. QED
          BY <3>2, <4>2, <5>1
      <4>3. QED
        BY <4>1, <4>2
    <3>4. s \in userSockets'[q][w] <=> q = p /\ w = u
      BY <1>6, <3>2
    <3>5. QED
      BY <2>2, <3>1, <3>3, <3>4
  <2>3. CASE z # s
    <3>1. <<z, w>> # <<s, u>> /\ place'[z] = place[z] /\ data'[z] = data[z]
      BY <1>3, <2>3
    <3>2. <<z, w>> \in connectedClients'[q] <=> <<z, w>> \in connectedClients[q]
      BY <1>5, <3>1
    <3>3. z \in userSockets'[q][w] <=> z \in userSockets[q][w]
      BY <1>6, <2>3
    <3>4. QED
      BY <2>1, <3>1, <3>2, <3>3
  <2>4. QED
    BY <2>2, <2>3
<1>9. RoomsAgree'
  <2> SUFFICES ASSUME NEW q \in Procs, NEW r \in Rooms
               PROVE  /\ roomMembers'[q][r] = adapter'[q][r]
                      /\ \A z \in roomMembers'[q][r] : place'[z] = q
    BY DEF RoomsAgree
  <2>1. /\ roomMembers[q][r] = adapter[q][r] /\ roomMembers[q][r] \subseteq Sockets
        /\ \A z \in roomMembers[q][r] : place[z] = q
    BY DEF RoomsAgree, TypeOK
  <2>2. roomMembers'[q][r] = adapter'[q][r]
    BY <1>4, <2>1
  <2>3. ASSUME NEW z \in roomMembers'[q][r] PROVE place'[z] = q
    <3>1. CASE z \in roomMembers[q][r]
      BY <1>2, <1>3, <2>1, <3>1, NoneIsFresh
    <3>2. CASE z \notin roomMembers[q][r]
      <4>1. q = p /\ z = s
        BY <1>4, <2>3, <3>2
      <4>2. QED
        BY <1>3, <4>1
    <3>3. QED
      BY <3>1, <3>2
  <2>4. QED
    BY <2>2, <2>3
<1>10. DefaultRoomsKept'
  <2> SUFFICES ASSUME NEW z \in Sockets, place'[z] # None
               PROVE  z \in adapter'[place'[z]][UserRoom(data'[z])] \cap adapter'[place'[z]][Broadcast]
    BY DEF DefaultRoomsKept, Notified, NotifiedAll
  <2>1. CASE z = s
    BY <1>1, <1>3, <1>4, <2>1
  <2>2. CASE z # s
    <3>1. place[z] # None /\ place[z] \in Procs /\ data[z] \in Users
      BY <1>3, <2>2 DEF TypeOK
    <3>2. z \in adapter[place[z]][UserRoom(data[z])] \cap adapter[place[z]][Broadcast]
      BY <3>1 DEF DefaultRoomsKept, Notified, NotifiedAll
    <3>3. UserRoom(data[z]) \in Rooms /\ Broadcast \in Rooms
      BY <3>1, DefaultRoomsAreRooms
    <3>4. \A x \in Rooms : adapter[place[z]][x] \subseteq adapter'[place[z]][x]
      BY <1>4, <3>1
    <3>5. QED
      BY <1>3, <2>2, <3>2, <3>3, <3>4
  <2>3. QED
    BY <2>1, <2>2
<1>11. QED
  BY <1>7, <1>8, <1>9, <1>10

\* Sockets S of process p leave, in all maps at once; what Disconnect and Restart
\* have in common.
Gone(p, S) ==
  /\ S \subseteq {s \in Sockets : place[s] = p}
  /\ place' = [s \in Sockets |-> IF s \in S THEN None ELSE place[s]]
  /\ data' = [s \in Sockets |-> IF s \in S THEN None ELSE data[s]]
  /\ adapter' = [adapter EXCEPT ![p] = [r \in Rooms |-> adapter[p][r] \ S]]
  /\ roomMembers' = [roomMembers EXCEPT ![p] = [r \in Rooms |-> roomMembers[p][r] \ S]]
  /\ connectedClients' = [connectedClients EXCEPT ![p] = {c \in connectedClients[p] : c[1] \notin S}]
  /\ userSockets' = [userSockets EXCEPT ![p] = [u \in Users |-> userSockets[p][u] \ S]]

\* Sockets that leave disappear from all four maps, and nobody else does.
LEMMA GoneKeeps ==
  ASSUME GInv, NEW p \in Procs, NEW S, Gone(p, S)
  PROVE  GInv'
<1> USE DEF GInv
<1>1. \A z \in Sockets : /\ z \in S => place'[z] = None /\ data'[z] = None /\ place[z] = p
                         /\ z \notin S => place'[z] = place[z] /\ data'[z] = data[z]
  BY DEF Gone
<1>2. \A q \in Procs, r \in Rooms :
        /\ adapter'[q][r] = IF q = p THEN adapter[q][r] \ S ELSE adapter[q][r]
        /\ roomMembers'[q][r] = IF q = p THEN roomMembers[q][r] \ S ELSE roomMembers[q][r]
  BY DEF Gone, TypeOK
<1>3. \A q \in Procs, z \in Sockets, w \in Users :
        <<z, w>> \in connectedClients'[q] <=> <<z, w>> \in connectedClients[q] /\ (q = p => z \notin S)
  BY DEF Gone, TypeOK
<1>4. \A q \in Procs, w \in Users :
        userSockets'[q][w] = IF q = p THEN userSockets[q][w] \ S ELSE userSockets[q][w]
  BY DEF Gone, TypeOK
<1>5. TypeOK'
  <2>1. place' \in [Sockets -> Procs \cup {None}] /\ data' \in [Sockets -> Users \cup {None}]
    BY DEF Gone, TypeOK
  <2>2. adapter' \in [Procs -> [Rooms -> SUBSET Sockets]]
    BY DEF Gone, TypeOK
  <2>3. roomMembers' \in [Procs -> [Rooms -> SUBSET Sockets]]
    BY DEF Gone, TypeOK
  <2>4. connectedClients' \in [Procs -> SUBSET (Sockets \X Users)]
    BY DEF Gone, TypeOK
  <2>5. userSockets' \in [Procs -> [Users -> SUBSET Sockets]]
    BY DEF Gone, TypeOK
  <2>6. \A z \in Sockets : place'[z] = None <=> data'[z] = None
    BY <1>1 DEF TypeOK
  <2>7. QED
    BY <2>1, <2>2, <2>3, <2>4, <2>5, <2>6 DEF TypeOK
<1>6. ClientsAgree'
  <2> SUFFICES ASSUME NEW q \in Procs, NEW z \in Sockets, NEW w \in Users
               PROVE  /\ <<z, w>> \in connectedClients'[q] <=> place'[z] = q /\ data'[z] = w
                      /\ z \in userSockets'[q][w] <=> place'[z] = q /\ data'[z] = w
    BY DEF ClientsAgree
  <2>1. /\ <<z, w>> \in connectedClients[q] <=> place[z] = q /\ data[z] = w
        /\ z \in userSockets[q][w] <=> place[z] = q /\ data[z] = w
    BY DEF ClientsAgree
  <2>2. CASE z \in S
    <3>1. place'[z] = None /\ place[z] = p /\ q # None
      BY <1>1, <2>2, NoneIsFresh
    <3>2. <<z, w>> \notin connectedClients'[q]
      BY <1>3, <2>1, <2>2, <3>1
    <3>3. z \notin userSockets'[q][w]
      BY <1>4, <2>1, <2>2, <3>1
    <3>4. QED
      BY <3>1, <3>2, <3>3
  <2>3. CASE z \notin S
    BY <1>1, <1>3, <1>4, <2>1, <2>3
  <2>4. QED
    BY <2>2, <2>3
<1>7. RoomsAgree'
  <2> SUFFICES ASSUME NEW q \in Procs, NEW r \in Rooms
               PROVE  /\ roomMembers'[q][r] = adapter'[q][r]
                      /\ \A z \in roomMembers'[q][r] : place'[z] = q
    BY DEF RoomsAgree
  <2>1. /\ roomMembers[q][r] = adapter[q][r] /\ roomMembers[q][r] \subseteq Sockets
        /\ \A z \in roomMembers[q][r] : place[z] = q
    BY DEF RoomsAgree, TypeOK
  <2>2. roomMembers'[q][r] = adapter'[q][r]
    BY <1>2, <2>1
  <2>3. ASSUME NEW z \in roomMembers'[q][r] PROVE place'[z] = q
    <3>1. z \in roomMembers[q][r] /\ (q = p => z \notin S)
      BY <1>2, <2>3
    <3>2. z \in Sockets /\ place[z] = q
      BY <2>1, <3>1
    <3>3. QED
      BY <1>1, <3>1, <3>2
  <2>4. QED
    BY <2>2, <2>3
<1>8. DefaultRoomsKept'
  <2> SUFFICES ASSUME NEW z \in Sockets, place'[z] # None
               PROVE  z \in adapter'[place'[z]][UserRoom(data'[z])] \cap adapter'[place'[z]][Broadcast]
    BY DEF DefaultRoomsKept, Notified, NotifiedAll
  <2>1. z \notin S /\ place'[z] = place[z] /\ data'[z] = data[z]
    BY <1>1
  <2>2. place[z] \in Procs /\ data[z] \in Users
    BY <2>1 DEF TypeOK
  <2>3. z \in adapter[place[z]][UserRoom(data[z])] \cap adapter[place[z]][Broadcast]
    BY <2>1 DEF DefaultRoomsKept, Notified, NotifiedAll
  <2>4. UserRoom(data[z]) \in Rooms /\ Broadcast \in Rooms
    BY <2>2, DefaultRoomsAreRooms
  <2>5. ASSUME NEW q \in Procs, NEW r \in Rooms, z \in adapter[q][r] PROVE z \in adapter'[q][r]
    BY <1>2, <2>1, <2>5
  <2>6. /\ z \in adapter'[place[z]][UserRoom(data[z])]
        /\ z \in adapter'[place[z]][Broadcast]
    BY <2>2, <2>3, <2>4, <2>5
  <2>7. QED
    BY <2>1, <2>6
<1>9. QED
  BY <1>5, <1>6, <1>7, <1>8

\* handleDisconnect finds its sockets in connectedClients, so userSockets loses them.
LEMMA DisconnectIsGone ==
  ASSUME GInv, NEW p \in Procs, NEW S \in SUBSET {s \in Sockets : place[s] = p}, Disconnect(p, S)
  PROVE  Gone(p, S)
<1>1. ASSUME NEW u \in Users
      PROVE  userSockets[p][u] \ {s \in S : <<s, u>> \in connectedClients[p]} = userSockets[p][u] \ S
  BY DEF GInv, TypeOK, ClientsAgree
<1>2. userSockets' = [userSockets EXCEPT ![p] = [u \in Users |->
         userSockets[p][u] \ {s \in S : <<s, u>> \in connectedClients[p]}]]
  BY DEF Disconnect, Unregister
<1>3. [u \in Users |-> userSockets[p][u] \ {s \in S : <<s, u>> \in connectedClients[p]}]
        = [u \in Users |-> userSockets[p][u] \ S]
  BY <1>1
<1>4. userSockets' = [userSockets EXCEPT ![p] = [u \in Users |-> userSockets[p][u] \ S]]
  BY <1>2, <1>3
<1>5. QED
  BY <1>4 DEF Disconnect, Unregister, RemoveFromAll, Gone

\* The maps of a process list nobody but its own sockets, so empty maps are right.
LEMMA RestartIsGone ==
  ASSUME GInv, NEW p \in Procs, Restart(p)
  PROVE  Gone(p, {s \in Sockets : place[s] = p})
<1> DEFINE S == {s \in Sockets : place[s] = p}
<1>1. \A r \in Rooms : adapter[p][r] \ S = {} /\ roomMembers[p][r] \ S = {}
  BY DEF GInv, TypeOK, RoomsAgree
<1>2. ASSUME NEW u \in Users PROVE userSockets[p][u] \ S = {}
  <2>1. userSockets[p][u] \subseteq Sockets
    BY DEF GInv, TypeOK
  <2>2. \A s \in Sockets : s \in userSockets[p][u] => place[s] = p
    BY DEF GInv, ClientsAgree
  <2>3. QED
    BY <2>1, <2>2
<1>3. {c \in connectedClients[p] : c[1] \notin S} = {}
  <2> SUFFICES ASSUME NEW c \in connectedClients[p] PROVE c[1] \in S
    OBVIOUS
  <2>1. PICK s \in Sockets, u \in Users : c = <<s, u>>
    BY DEF GInv, TypeOK
  <2>2. QED
    BY <2>1 DEF GInv, ClientsAgree
<1>4. /\ [r \in Rooms |-> adapter[p][r] \ S] = [r \in Rooms |-> {}]
      /\ [r \in Rooms |-> roomMembers[p][r] \ S] = [r \in Rooms |-> {}]
      /\ [u \in Users |-> userSockets[p][u] \ S] = [u \in Users |-> {}]
  BY <1>1, <1>2
<1>5. QED
  BY <1>3, <1>4 DEF Restart, Gone

\* A socket changes the members of one room that is not one of its default rooms, or
\* adds itself: both maps follow.
LEMMA RoomKeeps ==
  ASSUME GInv, NEW s \in Sockets, NEW r, place[s] # None,
         \/ HandleRoomJoin(s, r) \/ HandleRoomLeave(s, r)
  PROVE  GInv'
<1> DEFINE p == place[s]
<1> USE DEF GInv
<1>1. p \in Procs /\ data[s] \in Users
  BY DEF TypeOK
<1>2. UNCHANGED <<place, data, connectedClients, userSockets>>
  BY DEF HandleRoomJoin, HandleRoomLeave
<1>3. CASE UNCHANGED <<adapter, roomMembers>>
  BY <1>2, <1>3 DEF TypeOK, ClientsAgree, RoomsAgree, DefaultRoomsKept, Notified, NotifiedAll
<1>4. CASE /\ adapter' = [adapter EXCEPT ![p] = AddTo(adapter[p], {r}, s)]
           /\ roomMembers' = [roomMembers EXCEPT ![p] = AddTo(roomMembers[p], {r}, s)]
  <2>1. \A q \in Procs, x \in Rooms :
          /\ adapter'[q][x] = IF q = p /\ x = r THEN adapter[q][x] \cup {s} ELSE adapter[q][x]
          /\ roomMembers'[q][x] = IF q = p /\ x = r THEN roomMembers[q][x] \cup {s} ELSE roomMembers[q][x]
    BY <1>1, <1>4 DEF TypeOK, AddTo
  <2>2. /\ adapter' \in [Procs -> [Rooms -> SUBSET Sockets]]
        /\ roomMembers' \in [Procs -> [Rooms -> SUBSET Sockets]]
    BY <1>1, <1>4 DEF TypeOK, AddTo
  <2>3. TypeOK' /\ ClientsAgree'
    BY <1>2, <2>2 DEF TypeOK, ClientsAgree
  <2>4. RoomsAgree'
    <3> SUFFICES ASSUME NEW q \in Procs, NEW x \in Rooms
                 PROVE  /\ roomMembers'[q][x] = adapter'[q][x]
                        /\ \A z \in roomMembers'[q][x] : place[z] = q
      BY <1>2 DEF RoomsAgree
    <3>1. /\ roomMembers[q][x] = adapter[q][x]
          /\ \A z \in roomMembers[q][x] : place[z] = q
      BY DEF RoomsAgree
    <3>2. roomMembers'[q][x] = adapter'[q][x]
      BY <2>1, <3>1
    <3>3. ASSUME NEW z \in roomMembers'[q][x] PROVE place[z] = q
      <4>1. CASE z \in roomMembers[q][x]
        BY <3>1, <4>1
      <4>2. CASE z \notin roomMembers[q][x]
        <5>1. q = p /\ z = s
          BY <2>1, <3>3, <4>2
        <5>2. QED
          BY <5>1
      <4>3. QED
        BY <4>1, <4>2
    <3>4. QED
      BY <3>2, <3>3
  <2>5. \A q \in Procs, x \in Rooms : adapter[q][x] \subseteq adapter'[q][x]
    BY <2>1
  <2>6. DefaultRoomsKept'
    BY <1>2, <2>5, DefaultRoomsAreRooms DEF DefaultRoomsKept, Notified, NotifiedAll, TypeOK
  <2>7. QED
    BY <2>3, <2>4, <2>6
<1>5. CASE /\ ~IsDefaultRoom(r, data[s])
           /\ adapter' = [adapter EXCEPT ![p] = RemoveFrom(adapter[p], r, s)]
           /\ roomMembers' = [roomMembers EXCEPT ![p] = RemoveFrom(roomMembers[p], r, s)]
  <2>1. \A q \in Procs, x \in Rooms :
          /\ adapter'[q][x] = IF q = p /\ x = r THEN adapter[q][x] \ {s} ELSE adapter[q][x]
          /\ roomMembers'[q][x] = IF q = p /\ x = r THEN roomMembers[q][x] \ {s} ELSE roomMembers[q][x]
    BY <1>1, <1>5 DEF TypeOK, RemoveFrom
  <2>2. /\ adapter' \in [Procs -> [Rooms -> SUBSET Sockets]]
        /\ roomMembers' \in [Procs -> [Rooms -> SUBSET Sockets]]
    BY <1>1, <1>5 DEF TypeOK, RemoveFrom
  <2>3. TypeOK' /\ ClientsAgree'
    BY <1>2, <2>2 DEF TypeOK, ClientsAgree
  <2>4. RoomsAgree'
    <3> SUFFICES ASSUME NEW q \in Procs, NEW x \in Rooms
                 PROVE  /\ roomMembers'[q][x] = adapter'[q][x]
                        /\ \A z \in roomMembers'[q][x] : place[z] = q
      BY <1>2 DEF RoomsAgree
    <3>1. /\ roomMembers[q][x] = adapter[q][x]
          /\ \A z \in roomMembers[q][x] : place[z] = q
      BY DEF RoomsAgree
    <3>2. roomMembers'[q][x] = adapter'[q][x]
      BY <2>1, <3>1
    <3>3. ASSUME NEW z \in roomMembers'[q][x] PROVE place[z] = q
      BY <2>1, <3>1, <3>3
    <3>4. QED
      BY <3>2, <3>3
  <2>5. DefaultRoomsKept'
    <3> SUFFICES ASSUME NEW z \in Sockets, place[z] # None
                 PROVE  z \in adapter'[place[z]][UserRoom(data[z])] \cap adapter'[place[z]][Broadcast]
      BY <1>2 DEF DefaultRoomsKept, Notified, NotifiedAll
    <3>1. place[z] \in Procs /\ data[z] \in Users
      BY DEF TypeOK
    <3>2. UserRoom(data[z]) \in Rooms /\ Broadcast \in Rooms
      BY <3>1, DefaultRoomsAreRooms
    <3>3. z \in adapter[place[z]][UserRoom(data[z])] \cap adapter[place[z]][Broadcast]
      BY DEF DefaultRoomsKept, Notified, NotifiedAll
    <3>4. z = s => r # UserRoom(data[z]) /\ r # Broadcast
      BY <1>5 DEF IsDefaultRoom
    <3>5. QED
      BY <2>1, <3>1, <3>2, <3>3, <3>4
  <2>6. QED
    BY <2>3, <2>4, <2>5
<1>6. QED
  BY <1>3, <1>4, <1>5 DEF HandleRoomJoin, HandleRoomLeave

-----------------------------------------------------------------------------
\* Every step keeps the invariant.
LEMMA NextKeeps == GInv /\ [Next]_vars => GInv'
<1> SUFFICES ASSUME GInv, [Next]_vars PROVE GInv'
  OBVIOUS
<1>1. CASE \E s \in Sockets, p \in Procs, u \in Users : HandleConnection(p, s, u)
  BY <1>1, HandleConnectionKeeps
<1>2. CASE UNCHANGED vars
  BY <1>2 DEF vars, GInv, TypeOK, ClientsAgree, RoomsAgree, DefaultRoomsKept, Notified, NotifiedAll
<1>3. ASSUME NEW s \in Sockets, HandleDisconnect(s) PROVE GInv'
  <2>1. place[s] \in Procs /\ {s} \in SUBSET {z \in Sockets : place[z] = place[s]}
    BY <1>3 DEF HandleDisconnect, GInv, TypeOK
  <2>2. Gone(place[s], {s})
    BY <1>3, <2>1, DisconnectIsGone DEF HandleDisconnect
  <2>3. QED
    BY <2>1, <2>2, GoneKeeps
<1>4. CASE \E p \in Procs, u \in Users : ForceLogoutUser(p, u)
  BY <1>2, <1>4 DEF ForceLogoutUser
<1>5. CASE \E p \in Procs : Restart(p)
  BY <1>5, RestartIsGone, GoneKeeps
<1>6. CASE \E s \in Sockets, r \in Rooms \cup BadRooms : HandleRoomJoin(s, r) \/ HandleRoomLeave(s, r)
  BY <1>6, RoomKeeps DEF HandleRoomJoin, HandleRoomLeave
<1>7. CASE \E s \in Sockets : RefuseConnection(s) \/ HandleChatSend(s) \/ HandlePing(s)
  BY <1>2, <1>7 DEF RefuseConnection, HandleChatSend, HandlePing
<1>8. QED
  BY <1>1, <1>2, <1>3, <1>4, <1>5, <1>6, <1>7 DEF Next

\* The four maps of every process and the connections themselves are in agreement
\* under every order of connections, room changes, lost connections and restarts.
THEOREM GatewayInvariance == Spec => []GInv
BY InitGInv, NextKeeps, PTL DEF Spec

\* The maps hold sockets and users only, and a connection has a user as long as it has
\* a process.
THEOREM GatewayTypeCorrect == Spec => []TypeOK
<1>1. GInv => TypeOK
  BY DEF GInv
<1>2. QED
  BY GatewayInvariance, <1>1, PTL

\* connectedClients and userSockets stay inverse to each other and list exactly the
\* live connections of their process (socket.gateway.ts:116-171).
THEOREM ClientMapsAgree == Spec => []ClientsAgree
<1>1. GInv => ClientsAgree
  BY DEF GInv
<1>2. QED
  BY GatewayInvariance, <1>1, PTL

\* The room manager and Socket.io agree about every room, and list connected sockets
\* only (room-manager.service.ts).
THEOREM RoomMapsAgree == Spec => []RoomsAgree
<1>1. GInv => RoomsAgree
  BY DEF GInv
<1>2. QED
  BY GatewayInvariance, <1>1, PTL

\* No sequence of joins and leaves takes a connected socket out of its user's room or
\* out of the broadcast room.
THEOREM NotificationsStayReachable == Spec => []DefaultRoomsKept
<1>1. GInv => DefaultRoomsKept
  BY DEF GInv
<1>2. QED
  BY GatewayInvariance, <1>1, PTL

-----------------------------------------------------------------------------
(* Refinement of Presence *)

\* What the mapping makes of a step: who each socket is, and what it hears.
LEMMA HeardBy ==
  ASSUME NEW s \in Sockets
  PROVE  Hears(s) = IF place[s] = None THEN {} ELSE {r \in Rooms : s \in roomMembers[place[s]][r]}
BY DEF Hears

\* Nobody is present at first.
LEMMA InitRefines == Init => Abstract!Init
BY DEF Init, Abstract!Init, Hears

\* A connection is one Enter: the socket hears its default rooms and no other.
LEMMA ConnectionRefines ==
  ASSUME GInv, NEW s \in Sockets, NEW p \in Procs, NEW u \in Users, HandleConnection(p, s, u)
  PROVE  Abstract!Enter(s, u)
<1> DEFINE D == DefaultRooms(u)
<1>1. D \subseteq Rooms
  BY DefaultRoomsAreRooms
<1>2. /\ place[s] = None /\ place' = [place EXCEPT ![s] = p] /\ data' = [data EXCEPT ![s] = u]
      /\ roomMembers' = [roomMembers EXCEPT ![p] = [r \in Rooms |->
            IF r \in D THEN roomMembers[p][r] \cup {s} ELSE roomMembers[p][r]]]
  BY DEF HandleConnection, AddTo
<1> HIDE DEF D
<1>3. data[s] = None
  BY <1>2 DEF GInv, TypeOK
<1>4. \A q \in Procs, r \in Rooms : roomMembers'[q][r] =
        IF q = p /\ r \in D THEN roomMembers[q][r] \cup {s} ELSE roomMembers[q][r]
  BY <1>2 DEF GInv, TypeOK
<1>5. Hears(s)' = D
  <2>1. place'[s] = p /\ p # None
    BY <1>2, NoneIsFresh DEF GInv, TypeOK
  <2>2. \A r \in Rooms : s \notin roomMembers[p][r]
    BY <1>2, <2>1 DEF GInv, RoomsAgree
  <2>3. \A r \in Rooms : s \in roomMembers'[p][r] <=> r \in D
    BY <1>4, <2>2
  <2>4. QED
    BY <1>1, <2>1, <2>3 DEF Hears
<1>6. ASSUME NEW z \in Sockets, z # s PROVE Hears(z)' = Hears(z)
  <2>1. place'[z] = place[z] /\ place[z] \in Procs \cup {None}
    BY <1>2, <1>6 DEF GInv, TypeOK
  <2>2. place[z] # None => \A r \in Rooms : z \in roomMembers'[place[z]][r] <=> z \in roomMembers[place[z]][r]
    <3>1. \A q \in Procs, r \in Rooms : z \in roomMembers'[q][r] <=> z \in roomMembers[q][r]
      BY <1>4, <1>6
    <3>2. QED
      BY <2>1, <3>1
  <2>3. QED
    BY <2>1, <2>2 DEF Hears
<1>7. [z \in Sockets |-> Hears(z)]' = [[z \in Sockets |-> Hears(z)] EXCEPT ![s] = D]
  BY <1>5, <1>6
<1>8. QED
  BY <1>2, <1>3, <1>7 DEF Abstract!Enter, D

\* Sockets that leave together leave the abstraction together.
LEMMA GoneRefines ==
  ASSUME GInv, NEW p \in Procs, NEW S, Gone(p, S)
  PROVE  S \in SUBSET Sockets /\ Abstract!Gone(S)
<1>1. S \in SUBSET Sockets
  BY DEF Gone
<1>2. \A q \in Procs, r \in Rooms :
        roomMembers'[q][r] = IF q = p THEN roomMembers[q][r] \ S ELSE roomMembers[q][r]
  BY DEF Gone, GInv, TypeOK
<1>3. ASSUME NEW z \in S PROVE Hears(z)' = {}
  BY <1>1, <1>3 DEF Gone, Hears
<1>4. ASSUME NEW z \in Sockets, z \notin S PROVE Hears(z)' = Hears(z)
  <2>1. place'[z] = place[z] /\ place[z] \in Procs \cup {None}
    BY <1>4 DEF Gone, GInv, TypeOK
  <2>2. place[z] # None => \A r \in Rooms : z \in roomMembers'[place[z]][r] <=> z \in roomMembers[place[z]][r]
    BY <1>2, <1>4, <2>1
  <2>3. QED
    BY <2>1, <2>2 DEF Hears
<1>5. [z \in Sockets |-> Hears(z)]'
        = [z \in Sockets |-> IF z \in S THEN {} ELSE [x \in Sockets |-> Hears(x)][z]]
  BY <1>3, <1>4
<1>6. QED
  BY <1>1, <1>5 DEF Abstract!Gone, Gone

\* Joining and leaving a room are Join and Leave, or change nothing that is heard.
LEMMA RoomRefines ==
  ASSUME GInv, NEW s \in Sockets, NEW r, HandleRoomJoin(s, r) \/ HandleRoomLeave(s, r)
  PROVE  Abstract!Next \/ UNCHANGED Abstract!vars
<1> DEFINE p == place[s]
<1>1. p \in Procs /\ p # None /\ data[s] \in Users /\ data[s] # None
  BY NoneIsFresh DEF HandleRoomJoin, HandleRoomLeave, GInv, TypeOK
<1>2. UNCHANGED <<place, data>>
  BY DEF HandleRoomJoin, HandleRoomLeave
<1>3. ASSUME roomMembers' = roomMembers PROVE UNCHANGED Abstract!vars
  BY <1>2, <1>3 DEF Abstract!vars, Hears
<1>4. ASSUME NEW z \in Sockets, z # s,
             \A q \in Procs, x \in Rooms : z \in roomMembers'[q][x] <=> z \in roomMembers[q][x]
      PROVE  Hears(z)' = Hears(z)
  <2>1. place[z] \in Procs \cup {None}
    BY DEF GInv, TypeOK
  <2>2. QED
    BY <1>2, <1>4, <2>1 DEF Hears
<1>5. CASE r \in Rooms /\ roomMembers' = [roomMembers EXCEPT ![p] = AddTo(roomMembers[p], {r}, s)]
  <2>1. \A q \in Procs, x \in Rooms : roomMembers'[q][x] =
          IF q = p /\ x = r THEN roomMembers[q][x] \cup {s} ELSE roomMembers[q][x]
    BY <1>1, <1>5 DEF GInv, TypeOK, AddTo
  <2>2. \A x \in Rooms : s \in roomMembers'[p][x] <=> s \in roomMembers[p][x] \/ x = r
    BY <1>1, <2>1
  <2>3. Hears(s)' = Hears(s) \cup {r}
    BY <1>1, <1>2, <1>5, <2>2 DEF Hears
  <2>4. ASSUME NEW z \in Sockets, z # s PROVE Hears(z)' = Hears(z)
    <3>1. ASSUME NEW q \in Procs, NEW x \in Rooms
          PROVE  z \in roomMembers'[q][x] <=> z \in roomMembers[q][x]
      <4>1. CASE q = p /\ x = r
        BY <2>1, <2>4, <4>1
      <4>2. CASE ~(q = p /\ x = r)
        BY <2>1, <4>2
      <4>3. QED
        BY <4>1, <4>2
    <3>2. QED
      BY <1>4, <2>4, <3>1
  <2>5. [z \in Sockets |-> Hears(z)]'
          = [[z \in Sockets |-> Hears(z)] EXCEPT ![s] = [z \in Sockets |-> Hears(z)][s] \cup {r}]
    BY <2>3, <2>4
  <2>6. Abstract!Join(s, r)
    BY <1>1, <1>2, <2>5 DEF Abstract!Join
  <2>7. QED
    BY <1>5, <2>6 DEF Abstract!Next
<1>6. CASE /\ ~IsDefaultRoom(r, data[s])
           /\ roomMembers' = [roomMembers EXCEPT ![p] = RemoveFrom(roomMembers[p], r, s)]
  <2>1. \A q \in Procs, x \in Rooms : roomMembers'[q][x] =
          IF q = p /\ x = r THEN roomMembers[q][x] \ {s} ELSE roomMembers[q][x]
    BY <1>1, <1>6 DEF GInv, TypeOK, RemoveFrom
  <2>2. \A x \in Rooms : s \in roomMembers'[p][x] <=> s \in roomMembers[p][x] /\ x # r
    BY <1>1, <2>1
  <2>3. Hears(s)' = Hears(s) \ {r}
    BY <1>1, <1>2, <2>2 DEF Hears
  <2>4. ASSUME NEW z \in Sockets, z # s PROVE Hears(z)' = Hears(z)
    <3>1. ASSUME NEW q \in Procs, NEW x \in Rooms
          PROVE  z \in roomMembers'[q][x] <=> z \in roomMembers[q][x]
      <4>1. CASE q = p /\ x = r
        BY <2>1, <2>4, <4>1
      <4>2. CASE ~(q = p /\ x = r)
        BY <2>1, <4>2
      <4>3. QED
        BY <4>1, <4>2
    <3>2. QED
      BY <1>4, <2>4, <3>1
  <2>5. [z \in Sockets |-> Hears(z)]'
          = [[z \in Sockets |-> Hears(z)] EXCEPT ![s] = [z \in Sockets |-> Hears(z)][s] \ {r}]
    BY <2>3, <2>4
  <2>6. r \notin DefaultRooms(data[s])
    BY <1>6 DEF IsDefaultRoom, DefaultRooms
  <2>7. Abstract!Leave(s, r)
    BY <1>1, <1>2, <2>5, <2>6 DEF Abstract!Leave
  <2>8. CASE r \in Rooms
    BY <2>7, <2>8 DEF Abstract!Next
  <2>9. CASE r \notin Rooms
    <3>1. Hears(s)' = Hears(s)
      BY <2>3, <2>9 DEF Hears
    <3>2. [z \in Sockets |-> Hears(z)]' = [z \in Sockets |-> Hears(z)]
      BY <2>4, <3>1
    <3>3. QED
      BY <1>2, <3>2 DEF Abstract!vars
  <2>10. QED
    BY <2>8, <2>9
<1>7. QED
  BY <1>3, <1>5, <1>6 DEF HandleRoomJoin, HandleRoomLeave, IsValidRoomId

\* Every step of the gateway is a step of Presence or changes nothing of it.
LEMMA NextRefines == GInv /\ [Next]_vars => [Abstract!Next]_(Abstract!vars)
<1> SUFFICES ASSUME GInv, [Next]_vars PROVE Abstract!Next \/ UNCHANGED Abstract!vars
  OBVIOUS
<1>1. ASSUME NEW s \in Sockets, NEW p \in Procs, NEW u \in Users, HandleConnection(p, s, u)
      PROVE  Abstract!Next
  BY <1>1, ConnectionRefines DEF Abstract!Next
<1>2. CASE UNCHANGED vars
  BY <1>2 DEF vars, Abstract!vars, Hears
<1>3. ASSUME NEW p \in Procs, NEW S, Gone(p, S) PROVE Abstract!Next
  BY <1>3, GoneRefines DEF Abstract!Next
<1>4. ASSUME NEW s \in Sockets, HandleDisconnect(s) PROVE Abstract!Next
  <2>1. place[s] \in Procs /\ {s} \in SUBSET {z \in Sockets : place[z] = place[s]}
    BY <1>4 DEF HandleDisconnect, GInv, TypeOK
  <2>2. Gone(place[s], {s})
    BY <1>4, <2>1, DisconnectIsGone DEF HandleDisconnect
  <2>3. QED
    BY <1>3, <2>1, <2>2
<1>5. CASE \E p \in Procs, u \in Users : ForceLogoutUser(p, u)
  BY <1>2, <1>5 DEF ForceLogoutUser
<1>6. ASSUME NEW p \in Procs, Restart(p) PROVE Abstract!Next
  BY <1>3, <1>6, RestartIsGone
<1>7. CASE \E s \in Sockets, r \in Rooms \cup BadRooms : HandleRoomJoin(s, r) \/ HandleRoomLeave(s, r)
  BY <1>7, RoomRefines
<1>8. CASE \E s \in Sockets : RefuseConnection(s) \/ HandleChatSend(s) \/ HandlePing(s)
  BY <1>2, <1>8 DEF RefuseConnection, HandleChatSend, HandlePing
<1>9. QED
  BY <1>1, <1>2, <1>4, <1>5, <1>6, <1>7, <1>8 DEF Next

\* The gateway, with four maps in each process, implements the one table of Presence:
\* a socket enters with its default rooms, keeps them while it is present, and is out
\* of every room when it is gone (socket.gateway.ts:116-280).
THEOREM GatewayRefinement == Spec => ImplementsPresence
<1>1. Spec => []GInv
  BY GatewayInvariance
<1>2. Init => Abstract!Init
  BY InitRefines
<1>3. GInv /\ [Next]_vars => [Abstract!Next]_(Abstract!vars)
  BY NextRefines
<1>4. QED
  BY <1>1, <1>2, <1>3, PTL DEF Spec, ImplementsPresence, Abstract!Spec
=============================================================================
