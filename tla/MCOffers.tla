------------------------------ MODULE MCOffers ------------------------------
(* A DAG for the runs: m was derived from r, and s stands apart.           *)
EXTENDS Offers, TLC

CONSTANTS r, m, s

Chain == {<<r, m>>}

\* s may stand in for r; a checkpoint of m holds s.
Pairs == {<<r, s>>}
Snapshots == {<<m, {s}>>}
\* Clients' ids are alike.
Symmetry == Permutations(ClientNode)
=============================================================================
