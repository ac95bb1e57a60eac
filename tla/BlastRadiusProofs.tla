------------------------- MODULE BlastRadiusProofs -------------------------
(***************************************************************************)
(* The bounded walk collects only descendants, and collects all of them    *)
(* whenever the database has at most MAX_TRAVERSAL_DEPTH nodes; whatever   *)
(* the bound, it collects exactly the ids within that distance.  For every *)
(* finite set of ids, every edge table and either loop.                    *)
(***************************************************************************)
EXTENDS BlastRadius, LineageProofs, FiniteSetTheorems

\* What is reached lies among the committed ids, the root, and the descendants.
Reached ==
  /\ root \in visited
  /\ level \subseteq visited
  /\ edges \subseteq Node \X nodes
  /\ visited \subseteq nodes \cup {root}
  /\ visited \subseteq Descendants(edges, Node, root)

\* Everything behind the current level has been expanded ...
Explored ==
  pc # "done" => \A n \in visited \ level : Children(edges, n) \subseteq visited

\* ... and every level has brought at least one new node.
Progress == pc # "done" => depth < Cardinality(visited)

\* A walk that has ended on a small enough database left nothing out.
Ended ==
  pc = "done" /\ Cardinality(nodes \cup {root}) <= bound
    => Closed(edges, visited)

\* The inductive invariant.
WalkInv == TypeOK /\ Reached /\ Explored /\ Progress /\ Ended

\* Sets of ids are finite and their cardinality grows with them.
LEMMA NodeSets ==
  ASSUME NEW S \in SUBSET Node
  PROVE  /\ IsFiniteSet(S)
         /\ Cardinality(S) \in Nat
         /\ \A T \in SUBSET S : /\ Cardinality(T) \in Nat
                                /\ Cardinality(T) <= Cardinality(S)
                                /\ Cardinality(T) = Cardinality(S) => T = S
<1>1. IsFiniteSet(S)
    BY NodeAssumption, FS_Subset
<1>2. ASSUME NEW T \in SUBSET S
      PROVE  /\ Cardinality(T) \in Nat
             /\ Cardinality(T) <= Cardinality(S)
             /\ Cardinality(T) = Cardinality(S) => T = S
    BY <1>1, FS_Subset, FS_CardinalityType
<1> QED
    BY <1>1, <1>2, FS_CardinalityType

\* The dense loop's target is the number of ids a walk can reach.
LEMMA TotalExpectedCounts ==
  ASSUME TypeOK
  PROVE  TotalExpected = Cardinality(nodes \cup {root})
<1>1. IsFiniteSet(nodes) /\ Cardinality(nodes) \in Nat
    BY NodeSets DEF TypeOK
<1>2. CASE root \in nodes
  <2>1. nodes \cup {root} = nodes
      BY <1>2
  <2> QED
      BY <1>1, <1>2, <2>1 DEF TotalExpected
<1>3. CASE root \notin nodes
    BY <1>1, <1>3, FS_AddElement DEF TotalExpected
<1> QED
    BY <1>2, <1>3

\* The next level consists of unvisited, committed descendants, and holds all
\* the unvisited children of the level.
LEMMA NextLevelFacts ==
  ASSUME WalkInv
  PROVE  /\ NextLevel \subseteq nodes
         /\ NextLevel \subseteq Node
         /\ NextLevel \cap visited = {}
         /\ NextLevel \subseteq Descendants(edges, Node, root)
         /\ \A n \in level : Children(edges, n) \subseteq visited \cup NextLevel
<1>1. ASSUME NEW c \in NextLevel
      PROVE  /\ c \in nodes /\ c \notin visited
             /\ c \in Descendants(edges, Node, root)
  <2>1. PICK n \in level : c \in Children(edges, n)
      BY <1>1 DEF NextLevel
  <2>2. PICK e \in edges : e[1] = n /\ e[2] = c
      BY <2>1 DEF Children
  <2>3. Closed(edges, Descendants(edges, Node, root))
      BY DescendantsClosed DEF WalkInv, TypeOK
  <2>4. n \in Descendants(edges, Node, root)
      BY <2>1 DEF WalkInv, Reached
  <2>5. c \in Descendants(edges, Node, root)
      BY <2>2, <2>3, <2>4 DEF Closed
  <2>6. c \in nodes
      BY <2>2 DEF WalkInv, Reached
  <2> QED
      BY <1>1, <2>5, <2>6 DEF NextLevel
<1>2. ASSUME NEW n \in level
      PROVE  Children(edges, n) \subseteq visited \cup NextLevel
    BY <1>2 DEF NextLevel
<1> QED
    BY <1>1, <1>2 DEF WalkInv, TypeOK

\* A level that brings something new makes visited strictly larger.
LEMMA VisitedGrows ==
  ASSUME WalkInv, pc # "done", NextLevel # {}
  PROVE  depth + 1 < Cardinality(visited \cup NextLevel)
<1>1. visited \cup NextLevel \in SUBSET Node /\ visited # visited \cup NextLevel
    BY NextLevelFacts DEF WalkInv, TypeOK
<1>2. /\ Cardinality(visited) \in Nat
      /\ Cardinality(visited \cup NextLevel) \in Nat
      /\ Cardinality(visited) <= Cardinality(visited \cup NextLevel)
      /\ Cardinality(visited) # Cardinality(visited \cup NextLevel)
    BY <1>1, NodeSets
<1> QED
    BY <1>2 DEF WalkInv, Progress, TypeOK

\* With nothing new below the level, visited is closed under children.
LEMMA ExhaustedIsClosed ==
  ASSUME WalkInv, pc # "done", NextLevel = {}
  PROVE  Closed(edges, visited)
<1> SUFFICES ASSUME NEW e \in edges, e[1] \in visited
             PROVE  e[2] \in visited
    BY DEF Closed
<1>1. e[2] \in Children(edges, e[1])
    BY DEF Children
<1>2. CASE e[1] \in level
    BY <1>1, <1>2, NextLevelFacts
<1>3. CASE e[1] \notin level
    BY <1>1, <1>3 DEF WalkInv, Explored
<1> QED
    BY <1>2, <1>3

\* The depth bound is out of reach on a small enough database.
LEMMA BoundNotReached ==
  ASSUME WalkInv, pc # "done",
         Cardinality(nodes \cup {root}) <= bound
  PROVE  depth < bound
<1>1. nodes \cup {root} \in SUBSET Node /\ visited \in SUBSET (nodes \cup {root})
    BY DEF WalkInv, TypeOK, Reached
<1>2. /\ Cardinality(visited) <= Cardinality(nodes \cup {root})
      /\ Cardinality(visited) \in Nat
      /\ Cardinality(nodes \cup {root}) \in Nat
    BY <1>1, NodeSets
<1> QED
    BY <1>2 DEF WalkInv, TypeOK, Progress

\* Reaching every id is reaching a closed set.
LEMMA EverythingIsClosed ==
  ASSUME WalkInv, NEW S \in SUBSET (nodes \cup {root}),
         Cardinality(S) = TotalExpected
  PROVE  Closed(edges, S)
<1>1. nodes \cup {root} \in SUBSET Node
    BY DEF WalkInv, TypeOK
<1>2. S = nodes \cup {root}
    BY <1>1, NodeSets, TotalExpectedCounts DEF WalkInv
<1> QED
    BY <1>2 DEF Closed, WalkInv, Reached

\* A walk starts with the root alone.
LEMMA WalkInit == Init => WalkInv
<1> SUFFICES ASSUME Init PROVE WalkInv
    OBVIOUS
<1>1. TypeOK
    BY DepthAssumption DEF Init, TypeOK
<1>2. Reached
    BY DescendantsRoot DEF Init, Reached
<1>3. Cardinality(visited) = 1
    BY FS_Singleton DEF Init
<1> QED
    BY <1>1, <1>2, <1>3 DEF Init, WalkInv, Explored, Progress, Ended

\* What a step that expands the level establishes, in either loop.
LEMMA ExpandStep ==
  ASSUME WalkInv, pc # "done", NextLevel # {},
         visited' = visited \cup NextLevel, level' = NextLevel,
         depth' = depth + 1, UNCHANGED <<nodes, edges, root, bound>>
  PROVE  /\ Reached'
         /\ \A n \in visited' \ level' : Children(edges', n) \subseteq visited'
         /\ depth' < Cardinality(visited')
         /\ visited' \subseteq Node /\ level' \subseteq Node /\ depth' \in Nat
<1>1. Reached'
    BY NextLevelFacts DEF WalkInv, Reached
<1>2. \A n \in visited' \ level' : Children(edges', n) \subseteq visited'
    BY NextLevelFacts DEF WalkInv, Explored
<1>3. depth' < Cardinality(visited')
    BY VisitedGrows
<1> QED
    BY <1>1, <1>2, <1>3, NextLevelFacts DEF WalkInv, TypeOK

\* Every turn of either loop preserves the invariant.
LEMMA WalkStep == WalkInv /\ [Next]_vars => WalkInv'
<1> SUFFICES ASSUME WalkInv, [Next]_vars PROVE WalkInv'
    OBVIOUS
<1>1. CASE SparseLevel
  <2>1. CASE depth >= bound \/ NextLevel = {}
    <3>1. /\ visited' = visited /\ level' = {} /\ depth' = depth + 1
          /\ pc' = "done" /\ UNCHANGED <<nodes, edges, root, bound>>
        BY <1>1, <2>1 DEF SparseLevel
    <3>2. TypeOK' /\ Reached'
        BY <3>1 DEF WalkInv, TypeOK, Reached
    <3>3. Ended'
      <4> SUFFICES ASSUME Cardinality(nodes \cup {root}) <= bound
                   PROVE  Closed(edges, visited)
          BY <3>1 DEF Ended
      <4>1. depth < bound
          BY <1>1, BoundNotReached DEF SparseLevel
      <4>2. NextLevel = {}
          BY <2>1, <4>1 DEF WalkInv, TypeOK
      <4> QED
          BY <1>1, <4>2, ExhaustedIsClosed DEF SparseLevel
    <3> QED
        BY <3>1, <3>2, <3>3 DEF WalkInv, Explored, Progress
  <2>2. CASE ~(depth >= bound \/ NextLevel = {})
    <3>1. /\ visited' = visited \cup NextLevel /\ level' = NextLevel
          /\ depth' = depth + 1 /\ pc' = "sparse" /\ pc # "done"
          /\ UNCHANGED <<nodes, edges, root, bound>>
        BY <1>1, <2>2 DEF SparseLevel
    <3> QED
        BY <2>2, <3>1, ExpandStep
           DEF WalkInv, TypeOK, Explored, Progress, Ended
  <2> QED
      BY <2>1, <2>2
<1>2. CASE DenseLevel
  <2>1. /\ visited' = visited \cup NextLevel /\ level' = NextLevel
        /\ depth' = depth + 1 /\ pc # "done" /\ NextLevel # {}
        /\ UNCHANGED <<nodes, edges, root, bound>>
      BY <1>2 DEF DenseLevel
  <2>2. /\ Reached'
        /\ \A n \in visited' \ level' : Children(edges', n) \subseteq visited'
        /\ depth' < Cardinality(visited')
        /\ visited' \subseteq Node /\ level' \subseteq Node /\ depth' \in Nat
      BY <2>1, ExpandStep
  <2>3. CASE Cardinality(visited') = TotalExpected
    <3>1. pc' = "done"
        BY <1>2, <2>3 DEF DenseLevel
    <3>2. visited' \in SUBSET (nodes \cup {root})
        BY <2>1, <2>2 DEF Reached
    <3>3. Closed(edges, visited')
        BY <2>3, <3>2, EverythingIsClosed
    <3> QED
        BY <2>1, <2>2, <3>1, <3>3
           DEF WalkInv, TypeOK, Explored, Progress, Ended
  <2>4. CASE Cardinality(visited') # TotalExpected
    <3>1. pc' = "dense"
        BY <1>2, <2>4 DEF DenseLevel
    <3> QED
        BY <2>1, <2>2, <3>1 DEF WalkInv, TypeOK, Explored, Progress, Ended
  <2> QED
      BY <2>3, <2>4
<1>3. CASE DenseStop
  <2>1. /\ pc' = "done" /\ pc # "done"
        /\ UNCHANGED <<nodes, edges, root, bound, visited, level, depth>>
      BY <1>3 DEF DenseStop
  <2>2. Ended'
    <3> SUFFICES ASSUME Cardinality(nodes \cup {root}) <= bound
                 PROVE  Closed(edges, visited)
        BY <2>1 DEF Ended
    <3>1. depth < bound
        BY <2>1, BoundNotReached
    <3>2. NextLevel = {}
        BY <1>3, <3>1 DEF DenseStop, WalkInv, TypeOK
    <3> QED
        BY <2>1, <3>2, ExhaustedIsClosed
  <2> QED
      BY <2>1, <2>2 DEF WalkInv, TypeOK, Reached, Explored, Progress
<1>4. CASE Terminated \/ UNCHANGED vars
  <2>1. UNCHANGED vars
      BY <1>4 DEF Terminated
  <2> QED
      BY <2>1 DEF vars, WalkInv, TypeOK, Reached, Explored, Progress, Ended
<1> QED
    BY <1>1, <1>2, <1>3, <1>4 DEF Next

\* The inductive invariant holds throughout the walk.
THEOREM WalkInvariant == Spec => []WalkInv
<1>1. Init => WalkInv
    BY WalkInit
<1>2. WalkInv /\ [Next]_vars => WalkInv'
    BY WalkStep
<1> QED
    BY <1>1, <1>2, PTL DEF Spec

\* The state of both loops of compute_blast_radius keeps its type for every
\* database, rows without a node included.
THEOREM WalkTyped == Spec => []TypeOK
<1>1. WalkInv => TypeOK
    BY DEF WalkInv
<1> QED
    BY <1>1, WalkInvariant, PTL

\* Containment never over-quarantines: for every database, root and depth
\* bound, the walk collects nothing but the root and its descendants.
THEOREM WalkOnlyDescendants == Spec => []OnlyDescendants
<1>1. WalkInv => OnlyDescendants
    BY DEF WalkInv, Reached, OnlyDescendants
<1> QED
    BY <1>1, WalkInvariant, PTL

\* Containment never under-quarantines a database of at most
\* MAX_TRAVERSAL_DEPTH nodes: both loops return every descendant.
THEOREM WalkComplete == Spec => []CompleteWhenDeepEnough
<1>1. WalkInv => CompleteWhenDeepEnough
  <2> SUFFICES ASSUME WalkInv, pc = "done",
                      Cardinality(nodes \cup {root}) <= bound
               PROVE  visited = Descendants(edges, Node, root)
      BY DEF CompleteWhenDeepEnough
  <2>1. Closed(edges, visited)
      BY DEF WalkInv, Ended
  <2> QED
      BY <2>1, DescendantsUnique DEF WalkInv, TypeOK, Reached
<1> QED
    BY <1>1, WalkInvariant, PTL

-----------------------------------------------------------------------------
(* The reference: what lies within a distance of the root.                 *)

\* A set of ids and their children.
Expand(S) == S \cup UNION {Children(edges, n) : n \in S}

\* w counts the distances from the root up to k.
Distances(w, k) ==
  w = [d \in 0..k |-> IF d = 0 THEN {root} ELSE Expand(w[d - 1])]

\* There are distances up to any bound ...
LEMMA DistancesExist == \A k \in Nat : \E w : Distances(w, k)
<1> DEFINE P == {k \in Nat : \E w : Distances(w, k)}
<1>1. 0 \in P
  <2> DEFINE w == [d \in 0..0 |-> {root}]
  <2>1. Distances(w, 0)
      BY DEF Distances
  <2> QED
      BY <2>1
<1>2. ASSUME NEW k \in P PROVE k + 1 \in P
  <2>1. PICK v : Distances(v, k)
      OBVIOUS
  <2> DEFINE w == [d \in 0..(k + 1) |-> IF d <= k THEN v[d] ELSE Expand(v[k])]
  <2>2. k \in Nat
      OBVIOUS
  <2>3. ASSUME NEW d \in 0..(k + 1)
        PROVE  w[d] = IF d = 0 THEN {root} ELSE Expand(w[d - 1])
    <3>1. CASE d = 0
        BY <2>1, <2>2, <3>1 DEF Distances
    <3>2. CASE d # 0 /\ d <= k
      <4>1. w[d - 1] = v[d - 1] /\ w[d] = v[d] /\ d \in 0..k
          BY <2>2, <3>2
      <4>2. v[d] = Expand(v[d - 1])
          BY <2>1, <3>2, <4>1 DEF Distances
      <4> QED
          BY <3>2, <4>1, <4>2
    <3>3. CASE d = k + 1
      <4>1. w[d] = Expand(v[k]) /\ w[d - 1] = v[k] /\ d # 0
          BY <2>2, <3>3
      <4> QED
          BY <4>1
    <3> QED
        BY <2>2, <3>1, <3>2, <3>3
  <2>4. Distances(w, k + 1)
    <3> HIDE DEF Expand
    <3> QED
      BY <2>3 DEF Distances
  <2> QED
      BY <2>2, <2>4
<1> HIDE DEF P
<1>3. P = Nat
    BY <1>1, <1>2, AllNaturals DEF P
<1> QED
    BY <1>3 DEF P

\* ... so that Within satisfies its recursive definition.
LEMMA WithinUnfolds ==
  ASSUME TypeOK
  PROVE  /\ Within[0] = {root}
         /\ \A d \in 1..bound : Within[d] = Expand(Within[d - 1])
<1>1. \E w : Distances(w, bound)
    BY DistancesExist DEF TypeOK
<1>2. Within = CHOOSE w : Distances(w, bound)
    BY DEF Within, Distances, Expand
<1>3. Distances(Within, bound)
    BY <1>1, <1>2
<1> HIDE DEF Within
<1> DEFINE Turn(w) ==
      [d \in 0..bound |-> IF d = 0 THEN {root} ELSE Expand(w[d - 1])]
<1>4. Within = Turn(Within)
    BY <1>3 DEF Distances
<1>5. ASSUME NEW w
      PROVE  /\ Turn(w)[0] = {root}
             /\ \A d \in 1..bound : Turn(w)[d] = Expand(w[d - 1])
    BY DEF TypeOK
<1> HIDE DEF Turn
<1> QED
    BY <1>4, <1>5

\* Nothing lies beyond a closed set of ids.
LEMMA WithinStops ==
  ASSUME TypeOK, NEW d \in 0..bound, Closed(edges, Within[d])
  PROVE  Within[bound] = Within[d]
<1> DEFINE P == {k \in Nat : d + k <= bound => Within[d + k] = Within[d]}
<1>1. bound \in Nat /\ d \in Nat /\ d <= bound
    BY DEF TypeOK
<1>2. 0 \in P
    BY <1>1
<1>3. ASSUME NEW k \in P PROVE k + 1 \in P
  <2> SUFFICES ASSUME d + (k + 1) <= bound
               PROVE  Within[d + (k + 1)] = Within[d]
      OBVIOUS
  <2>1. k \in Nat /\ d + (k + 1) \in 1..bound /\ (d + (k + 1)) - 1 = d + k
      BY <1>1
  <2>2. Within[d + k] = Within[d]
      BY <1>1, <2>1
  <2>3. Within[d + (k + 1)] = Expand(Within[d])
      BY <2>1, <2>2, WithinUnfolds
  <2>4. ASSUME NEW n \in Within[d]
        PROVE  Children(edges, n) \subseteq Within[d]
      BY <2>4 DEF Closed, Children
  <2>5. Expand(Within[d]) = Within[d]
      BY <2>4 DEF Expand
  <2> QED
      BY <2>3, <2>5
<1> HIDE DEF P
<1>4. P = Nat
    BY <1>2, <1>3, AllNaturals DEF P
<1>5. bound - d \in Nat /\ d + (bound - d) = bound
    BY <1>1
<1> QED
    BY <1>4, <1>5 DEF P

\* The walk has collected exactly what lies within its depth, and in the end
\* exactly what lies within the bound.
Measured ==
  /\ pc # "done" => depth <= bound /\ visited = Within[depth]
  /\ pc = "done" => visited = Within[bound]

\* One level further is one unit of distance further.
LEMMA LevelMeasured ==
  ASSUME WalkInv, Measured, pc # "done", depth < bound
  PROVE  visited \cup NextLevel = Within[depth + 1]
<1>1. depth + 1 \in 1..bound /\ (depth + 1) - 1 = depth
    BY DEF WalkInv, TypeOK
<1>2. Within[depth + 1] = Expand(visited)
    BY <1>1, WithinUnfolds DEF Measured, WalkInv
<1>3. ASSUME NEW n \in visited
      PROVE  Children(edges, n) \subseteq visited \cup NextLevel
    BY NextLevelFacts DEF WalkInv, Explored
<1>4. NextLevel \subseteq UNION {Children(edges, n) : n \in visited}
    BY DEF NextLevel, WalkInv, Reached
<1> QED
    BY <1>2, <1>3, <1>4 DEF Expand

\* A walk that stops stops at the bound or has nothing left to reach.
LEMMA StopMeasured ==
  ASSUME WalkInv, Measured, pc # "done", depth >= bound \/ NextLevel = {}
  PROVE  visited = Within[bound]
<1>1. depth \in 0..bound /\ depth \in Nat /\ bound \in Nat
    BY DEF WalkInv, TypeOK, Measured
<1>2. CASE depth >= bound
  <2>1. depth = bound
      BY <1>1, <1>2
  <2> QED
      BY <2>1 DEF Measured
<1>3. CASE NextLevel = {}
    BY <1>1, <1>3, ExhaustedIsClosed, WithinStops DEF Measured, WalkInv
<1> QED
    BY <1>2, <1>3

\* What the reference says depends on the edges, the root and the bound.
LEMMA WithinUnchanged ==
  ASSUME UNCHANGED <<nodes, edges, root, bound>>
  PROVE  Within' = Within
BY DEF Within

\* A walk starts at distance 0.
LEMMA MeasuredInit == Init => WalkInv /\ Measured
<1> SUFFICES ASSUME Init PROVE Measured
    BY WalkInit
<1>1. Within[0] = {root}
    BY WalkInit, WithinUnfolds DEF WalkInv
<1>2. bound \in Nat
    BY WalkInit DEF WalkInv, TypeOK
<1> QED
    BY <1>1, <1>2 DEF Init, Measured

\* Every turn of either loop keeps the measure.
LEMMA MeasuredStep == WalkInv /\ Measured /\ [Next]_vars => Measured'
<1> SUFFICES ASSUME WalkInv, Measured, [Next]_vars PROVE Measured'
    OBVIOUS
<1>0. depth \in Nat /\ bound \in Nat
    BY DEF WalkInv, TypeOK
<1>1. CASE SparseLevel
  <2>1. Within' = Within /\ bound' = bound /\ pc # "done"
      BY <1>1, WithinUnchanged DEF SparseLevel
  <2>2. CASE depth >= bound \/ NextLevel = {}
    <3>1. visited' = visited /\ pc' = "done"
        BY <1>1, <2>2 DEF SparseLevel
    <3> QED
        BY <2>1, <2>2, <3>1, StopMeasured DEF Measured
  <2>3. CASE ~(depth >= bound \/ NextLevel = {})
    <3>1. /\ visited' = visited \cup NextLevel /\ depth' = depth + 1
          /\ pc' = "sparse" /\ depth < bound
        BY <1>0, <1>1, <2>3 DEF SparseLevel
    <3> QED
        BY <1>0, <2>1, <3>1, LevelMeasured DEF Measured
  <2> QED
      BY <2>2, <2>3
<1>2. CASE DenseLevel
  <2>1. /\ Within' = Within /\ bound' = bound /\ pc # "done" /\ depth < bound
        /\ visited' = visited \cup NextLevel /\ level' = NextLevel
        /\ depth' = depth + 1 /\ NextLevel # {}
        /\ UNCHANGED <<nodes, edges, root, bound>>
      BY <1>2, WithinUnchanged DEF DenseLevel
  <2>2. visited' = Within[depth + 1]
      BY <2>1, LevelMeasured
  <2>3. CASE Cardinality(visited') = TotalExpected
    <3>1. visited' \in SUBSET (nodes \cup {root})
        BY <2>1, ExpandStep DEF Reached
    <3>2. Closed(edges, visited')
        BY <2>3, <3>1, EverythingIsClosed
    <3>3. depth + 1 \in 0..bound
        BY <1>0, <2>1
    <3>4. visited' = Within[bound]
        BY <2>2, <3>2, <3>3, WithinStops DEF WalkInv
    <3>5. pc' = "done"
        BY <1>2, <2>3 DEF DenseLevel
    <3> QED
        BY <2>1, <3>4, <3>5 DEF Measured
  <2>4. CASE Cardinality(visited') # TotalExpected
    <3>1. pc' = "dense"
        BY <1>2, <2>4 DEF DenseLevel
    <3> QED
        BY <1>0, <2>1, <2>2, <3>1 DEF Measured
  <2> QED
      BY <2>3, <2>4
<1>3. CASE DenseStop
  <2>1. Within' = Within /\ bound' = bound /\ pc # "done"
      BY <1>3, WithinUnchanged DEF DenseStop
  <2>2. /\ visited' = visited /\ pc' = "done"
        /\ depth >= bound \/ NextLevel = {}
      BY <1>3 DEF DenseStop
  <2> QED
      BY <2>1, <2>2, StopMeasured DEF Measured
<1>4. CASE Terminated \/ UNCHANGED vars
  <2>1. UNCHANGED vars /\ Within' = Within
      BY <1>4, WithinUnchanged DEF Terminated, vars
  <2> QED
      BY <2>1 DEF vars, Measured
<1> QED
    BY <1>1, <1>2, <1>3, <1>4 DEF Next

\* For every database, cycles and rows without a node included, both loops of
\* compute_blast_radius return exactly the ids within MAX_TRAVERSAL_DEPTH.
THEOREM WalkExact == Spec => []ExactWithinBound
<1>1. Init => Measured
    BY MeasuredInit
<1>2. WalkInv /\ Measured /\ [Next]_vars => Measured'
    BY MeasuredStep
<1>3. Measured => ExactWithinBound
    BY DEF Measured, ExactWithinBound
<1> QED
    BY <1>1, <1>2, <1>3, WalkInvariant, PTL DEF Spec
=============================================================================
