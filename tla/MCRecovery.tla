----------------------------- MODULE MCRecovery -----------------------------
(* Recovery for model checking: four lineages over three ids.              *)
EXTENDS Recovery, TLC

CONSTANTS a, b, c

\* c compacts a and b, as /context-compacted declares it.
Compaction ==
  LET E == {<<a, c>>, <<b, c>>}
  IN [nodes |-> {a, b, c}, declared |-> E, covers |-> E, edges |-> E,
      carried |-> E]

\* b compacts a and c compacts both.
Nested ==
  LET E == {<<a, b>>, <<a, c>>, <<b, c>>}
  IN [nodes |-> {a, b, c}, declared |-> E, covers |-> E, edges |-> E,
      carried |-> E]

\* c, submitted as a candidate, covers a and b without declaring b a parent,
\* and a is not committed: walks over edges and over declared parents part.
HiddenCover ==
  LET D == {<<a, c>>}
      C == {<<a, c>>, <<b, c>>, <<a, b>>}
  IN [nodes |-> {b, c}, declared |-> D, covers |-> C, edges |-> D \cup C,
      carried |-> D]

\* b and c declare each other, and the row of a, which c covers, was cut off.
Cycle ==
  LET D == {<<c, b>>, <<b, c>>}
  IN [nodes |-> {a, b, c}, declared |-> D, covers |-> {<<a, c>>}, edges |-> D,
      carried |-> {<<b, c>>}]

AllGraphs == {Compaction, Nested, HiddenCover, Cycle}

\* Requests, and the ids drawn for rebuilt nodes, are interchangeable.
Symmetry == Permutations(Task) \cup Permutations(FreshNode)
=============================================================================
