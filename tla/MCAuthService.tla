---------------------------- MODULE MCAuthService ----------------------------
(* Small instances of AuthService for TLC. *)
EXTENDS AuthService, TLC

\* Users are interchangeable, and so are session ids, tokens and request slots.
Symmetry ==
  Permutations(Users) \cup Permutations(Sids) \cup Permutations(Tokens) \cup Permutations(Reqs)
=============================================================================
