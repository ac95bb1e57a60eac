---------------------------- MODULE BlastRadius ----------------------------
(***************************************************************************)
(* The traversal of SqliteStateBackend.compute_blast_radius: a bounded     *)
(* breadth-first walk over the edges table from the poisoned root.  The    *)
(* code has two loops, chosen by the number of edges; both are modelled,   *)
(* one action per level.  The edges do not change under a walk: the sparse *)
(* loop reads them with one statement, and the dense one, which asks level *)
(* by level, runs under the exclusive lock or in one SQLite transaction.   *)
(* One caller does neither: /observe.  Its dense walk beside a commit is   *)
(* outside this module.                                                    *)
(***************************************************************************)
EXTENDS Integers, FiniteSets, Lineage

CONSTANTS
  Node,         \* node ids
  DepthBounds,  \* the values settings.MAX_TRAVERSAL_DEPTH may be given
  SparseEdges   \* the edge count up to which the sparse loop is used (10_000
                \* in the code)

ASSUME NodeAssumption == IsFiniteSet(Node)
ASSUME DepthAssumption == DepthBounds \subseteq Nat
ASSUME SparseAssumption == SparseEdges \in Nat

VARIABLES
  nodes,    \* ids in the nodes table
  edges,    \* <<parent, child>> rows of the edges table
  root,     \* poisoned_root_id
  bound,    \* _max_traversal_depth
  visited,  \* the set of the same name
  level,    \* current_level (sparse), current (dense)
  depth,    \* distance of level from the root
  pc        \* "sparse" or "dense" while the loop runs, then "done"

vars == <<nodes, edges, root, bound, visited, level, depth, pc>>

TypeOK ==
  /\ nodes \subseteq Node
  /\ edges \subseteq Node \X Node
  /\ root \in Node
  /\ bound \in Nat
  /\ visited \subseteq Node
  /\ level \subseteq Node
  /\ depth \in Nat
  /\ pc \in {"sparse", "dense", "done"}

\* A child of an edge row is a committed node (commit_node writes the node's row
\* first); a parent need not be: shadow mode commits unresolved parents
\* and covers[] entries are not required to exist.  The root need not be in
\* the nodes table either.  Cycles are possible through such rows.
Init ==
  /\ nodes \in SUBSET Node
  /\ edges \in SUBSET (Node \X nodes)
  /\ root \in Node
  /\ bound \in DepthBounds
  /\ visited = {root}
  /\ level = {root}
  /\ depth = 0
  /\ pc = IF Cardinality(edges) <= SparseEdges THEN "sparse" ELSE "dense"

-----------------------------------------------------------------------------
(* Slips of the traversal, used to show that the properties can fail.      *)

\* The columns of the edges table are swapped when the adjacency is built.
NextLevelUpwards == (UNION {Parents(edges, n) : n \in level}) \ visited

\* The early exit forgets that the root may be missing from the nodes table.
TotalExpectedWithoutRoot == Cardinality(nodes)

\* The depth test is off by one.
SparseLevelShort ==
  /\ pc = "sparse"
  /\ LET next == IF depth + 1 >= bound THEN {}
                 ELSE (UNION {Children(edges, n) : n \in level}) \ visited
     IN /\ visited' = visited \cup next
        /\ level' = next
        /\ depth' = depth + 1
        /\ pc' = IF next = {} THEN "done" ELSE "sparse"
  /\ UNCHANGED <<nodes, edges, root, bound>>

-----------------------------------------------------------------------------
\* The children of the level that no earlier level reached.
NextLevel == (UNION {Children(edges, n) : n \in level}) \ visited

\* One turn of "while current_level": nodes at the depth bound are kept and
\* not expanded.
SparseLevel ==
  /\ pc = "sparse"
  /\ LET next == IF depth >= bound THEN {} ELSE NextLevel
     IN /\ visited' = visited \cup next
        /\ level' = next
        /\ depth' = depth + 1
        /\ pc' = IF next = {} THEN "done" ELSE "sparse"
  /\ UNCHANGED <<nodes, edges, root, bound>>

\* nodes_count, plus one when the root has no row of its own.
TotalExpected == Cardinality(nodes) + (IF root \in nodes THEN 0 ELSE 1)

\* The dense loop's exits: the depth bound, an empty next level, and the
\* early exit once every node has been reached.
DenseStop ==
  /\ pc = "dense"
  /\ depth >= bound \/ NextLevel = {}
  /\ pc' = "done"
  /\ UNCHANGED <<nodes, edges, root, bound, visited, level, depth>>

DenseLevel ==
  /\ pc = "dense"
  /\ depth < bound /\ NextLevel # {}
  /\ visited' = visited \cup NextLevel
  /\ level' = NextLevel
  /\ depth' = depth + 1
  /\ pc' = IF Cardinality(visited') = TotalExpected THEN "done" ELSE "dense"
  /\ UNCHANGED <<nodes, edges, root, bound>>

\* compute_blast_radius has returned.
Terminated == pc = "done" /\ UNCHANGED vars

Next == SparseLevel \/ DenseLevel \/ DenseStop \/ Terminated

Spec == Init /\ [][Next]_vars /\ WF_vars(SparseLevel \/ DenseLevel \/ DenseStop)

-----------------------------------------------------------------------------
\* Within[d]: the ids at distance at most d from the root.
Within ==
  LET W[d \in 0..bound] ==
        IF d = 0 THEN {root}
        ELSE W[d - 1] \cup UNION {Children(edges, n) : n \in W[d - 1]}
  IN W

\* Both loops return exactly the ids within MAX_TRAVERSAL_DEPTH of the root:
\* the depth test, the dense early exit and its root correction lose none and
\* add none.
ExactWithinBound == pc = "done" => visited = Within[bound]

\* When the database holds no more nodes than MAX_TRAVERSAL_DEPTH, the depth
\* bound never cuts the walk short and the blast radius is the complete set
\* of descendants.
CompleteWhenDeepEnough ==
  pc = "done" /\ Cardinality(nodes \cup {root}) <= bound
    => visited = Descendants(edges, Node, root)

\* Nothing but the root and its descendants is ever collected, so containment
\* never over-quarantines, truncated walk or not.
OnlyDescendants == visited \subseteq Descendants(edges, Node, root)
=============================================================================
