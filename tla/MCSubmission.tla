---------------------------- MODULE MCSubmission ----------------------------
(* Small instances of Submission for TLC. *)
EXTENDS Submission, TLC

\* Requests are interchangeable.
Symmetry == Permutations(Reqs)

OneTopic == [p \in Problems |-> CHOOSE t \in Topics : TRUE]

\* Two right answers meet both achievements at once; with fewer of them it takes
\* the XP that the first rewards to meet the second.
Conditions ==
  [a \in Achievements |->
     IF a = "firstTwo" THEN [totalProblemsSolved |-> 2]
     ELSE [totalXp |-> 20, totalProblemsSolved |-> 1]]
Rewards == [a \in Achievements |-> IF a = "firstTwo" THEN 100 ELSE 0]
=============================================================================
