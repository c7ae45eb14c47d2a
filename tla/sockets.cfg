SPECIFICATION Spec
CONSTANTS
  Procs = {p1, p2}
  Sockets = {s1, s2, s3, s4}
  Users = {u1, u2}
  Groups = {group}
  BadRooms = {bad}
  None = None
  UserRoom <- MCUserRoom
  Broadcast = broadcast
  TokensCarrySub = TRUE
SYMMETRY Symmetry
INVARIANTS
  TypeOK
  ClientsAgree
  RoomsAgree
  DefaultRoomsKept
PROPERTY
  ImplementsPresence
