\* Every edge relation over four ids, either loop, with a depth bound that cuts
\* some walks short (2) and one that cuts none of at most three nodes (3).
SPECIFICATION Spec
CONSTANTS
  n1 = n1  n2 = n2  n3 = n3  n4 = n4
  Node = {n1, n2, n3, n4}
  DepthBounds = {2, 3}
  SparseEdges = 3
INVARIANTS CompleteWhenDeepEnough OnlyDescendants ExactWithinBound
