---------------------------- MODULE MCReadThrough ----------------------------
(* Small instances of ReadThrough for TLC. *)
EXTENDS ReadThrough, TLC

CONSTANTS alice, bob, x

Problem == [kind |-> "problem", user |-> None, id |-> x]
ProgressOf(u) == [kind |-> "progress", user |-> u, id |-> x]
Badges == [kind |-> "achievements", user |-> alice, id |-> None]

\* A problem, the progress of two users with the same topic, and a list.
MCEntries == {Problem, ProgressOf(alice), ProgressOf(bob), Badges}
=============================================================================
