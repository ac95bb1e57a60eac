------------------------------ MODULE Lineage ------------------------------
(***************************************************************************)
(* The lineage relation kept in the edges table: a pair <<parent, child>>  *)
(* for every parent_dependency_commitment and every covers[] entry of a    *)
(* committed node.  Descendants is the reference meaning of the blast      *)
(* radius: the least set that holds the root and is closed under children. *)
(***************************************************************************)

Children(E, n) == {e[2] : e \in {f \in E : f[1] = n}}

Parents(E, n) == {e[1] : e \in {f \in E : f[2] = n}}

Closed(E, S) == \A e \in E : e[1] \in S => e[2] \in S

\* V is the set of all node ids, E a subset of V \X V and r a member of V.
Descendants(E, V, r) ==
  {n \in V : \A S \in SUBSET V : r \in S /\ Closed(E, S) => n \in S}
=============================================================================
