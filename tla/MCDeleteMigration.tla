-------------------------- MODULE MCDeleteMigration --------------------------
(* Small instances of Curriculum and DeleteMigration for TLC. *)
EXTENDS DeleteMigration, TLC

CONSTANTS
  math, algebra, equations, linear, solve,  \* a seeded branch, root first
  history, geometry, systems, square, graph \* rows that may be made beside each

MCNodes == {math, algebra, equations, linear, solve, history, geometry, systems, square, graph}
MCTable ==
  math :> "curriculum" @@ history :> "curriculum"
    @@ algebra :> "chapter" @@ geometry :> "chapter"
    @@ equations :> "section" @@ systems :> "section"
    @@ linear :> "topic" @@ square :> "topic"
    @@ solve :> "objective" @@ graph :> "objective"
MCParent ==
  math :> None @@ history :> None @@ algebra :> math @@ geometry :> math
    @@ equations :> algebra @@ systems :> algebra
    @@ linear :> equations @@ square :> equations @@ solve :> linear @@ graph :> linear
MCGrade == math :> 1 @@ history :> 2
\* Lists are read without a filter.
MCFilters == {None}
MCSeeded == {math, algebra, equations, linear, solve}

Symmetry == Permutations(Reqs) \cup Permutations(Jobs)
=============================================================================
