--------------------------- MODULE MCAccountLifecycle ---------------------------
(* Small instances of AccountLifecycle for TLC. *)
EXTENDS AccountLifecycle, TLC

Symmetry ==
  Permutations(Users) \cup Permutations(Sids) \cup Permutations(Tokens) \cup Permutations(Reqs)
=============================================================================
