--------------------------- MODULE MCSocketGateway ---------------------------
(* Small instances of SocketGateway for TLC. *)
EXTENDS SocketGateway, TLC

MCUserRoom(u) == <<"user", u>>
Symmetry ==
  Permutations(Procs) \cup Permutations(Sockets) \cup Permutations(Users)
=============================================================================
