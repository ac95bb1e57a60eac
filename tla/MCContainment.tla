--------------------------- MODULE MCContainment ---------------------------
(* Containment for model checking: the sets that are interchangeable.      *)
EXTENDS Containment, TLC

TaskSymmetry == Permutations(Task)

\* Sound when no replacement is emitted: then no definition tells two ids apart.
FullSymmetry == Permutations(Node) \cup Permutations(Task)
=============================================================================
