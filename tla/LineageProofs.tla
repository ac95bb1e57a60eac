--------------------------- MODULE LineageProofs ---------------------------
(***************************************************************************)
(* Facts that several proofs share.  Induction over the naturals, stated   *)
(* about sets.  The lineage operators: Descendants holds the root, is      *)
(* closed under children, and lies inside every closed set that holds the  *)
(* root.                                                                   *)
(***************************************************************************)
EXTENDS Lineage, Naturals, WellFoundedInduction, TLAPS

-----------------------------------------------------------------------------
(* Induction over the naturals, as a statement about sets of them.         *)

\* A nonempty set of naturals has a least member.
LEMMA LeastNatural ==
  ASSUME NEW T \in SUBSET Nat, T # {}
  PROVE  \E m \in T : \A k \in T : m <= k
<1> DEFINE R == OpToRel(<, Nat)
<1>1. IsWellFoundedOn(R, Nat)
    BY NatLessThanWellFounded, Zenon
<1>2. \A x, y \in Nat : x < y => <<x, y>> \in R
    BY DEF OpToRel
<1> HIDE DEF R
<1>3. PICK x \in T : \A y \in T : ~(<<y, x>> \in R)
    BY <1>1, WFMin
<1>4. ASSUME NEW k \in T
      PROVE  x <= k
  <2>1. x \in Nat /\ k \in Nat
      OBVIOUS
  <2>2. ~(k < x)
      BY <1>2, <1>3, <2>1
  <2> QED
      BY <2>1, <2>2
<1> QED
    BY <1>4

\* A set that holds 0 and the successor of every member holds every natural.
LEMMA AllNaturals ==
  ASSUME NEW P \in SUBSET Nat, 0 \in P, \A n \in P : n + 1 \in P
  PROVE  P = Nat
<1> SUFFICES ASSUME Nat \ P # {} PROVE FALSE
    OBVIOUS
<1>1. PICK m \in Nat \ P : \A k \in Nat \ P : m <= k
    BY LeastNatural
<1>2. m # 0 /\ m - 1 \in Nat
    BY <1>1
<1>3. m - 1 \in P
    BY <1>1, <1>2
<1> QED
    BY <1>1, <1>2, <1>3

-----------------------------------------------------------------------------
(* The lineage operators. *)

\* The blast radius of a root holds the root and stays among the ids.
LEMMA DescendantsRoot ==
  ASSUME NEW V, NEW E, NEW r \in V
  PROVE  r \in Descendants(E, V, r) /\ Descendants(E, V, r) \subseteq V
BY DEF Descendants

\* A child of a descendant is a descendant.
LEMMA DescendantsClosed ==
  ASSUME NEW V, NEW E, E \subseteq V \X V, NEW r \in V
  PROVE  Closed(E, Descendants(E, V, r))
<1> SUFFICES ASSUME NEW e \in E, e[1] \in Descendants(E, V, r)
             PROVE  e[2] \in Descendants(E, V, r)
    BY DEF Closed
<1>1. e[2] \in V
    OBVIOUS
<1>2. ASSUME NEW S \in SUBSET V, r \in S, Closed(E, S)
      PROVE  e[2] \in S
    BY <1>2 DEF Descendants, Closed
<1> QED
    BY <1>1, <1>2 DEF Descendants

\* Nothing smaller than the descendants is closed and holds the root.
LEMMA DescendantsLeast ==
  ASSUME NEW V, NEW E, NEW r \in V,
         NEW S \in SUBSET V, r \in S, Closed(E, S)
  PROVE  Descendants(E, V, r) \subseteq S
BY DEF Descendants

\* A set between the root and its descendants that is closed is all of them.
LEMMA DescendantsUnique ==
  ASSUME NEW V, NEW E, E \subseteq V \X V, NEW r \in V,
         NEW S \in SUBSET V, r \in S, Closed(E, S),
         S \subseteq Descendants(E, V, r)
  PROVE  S = Descendants(E, V, r)
BY DescendantsLeast
=============================================================================
