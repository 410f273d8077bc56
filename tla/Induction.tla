------------------------------ MODULE Induction ------------------------------
(***************************************************************************)
(* Induction over the natural numbers, stated of a set instead of a predicate, *)
(* for the proofs about functions that are defined by recursion on a number.    *)
(***************************************************************************)
EXTENDS Naturals, WellFoundedInduction, TLAPS

\* Were there a number outside the set, there would be a least one: it is not 0, and the
\* number before it is in the set.
LEMMA SetInduction ==
  ASSUME NEW G, 0 \in G, \A n \in Nat : n \in G => n + 1 \in G
  PROVE  Nat \subseteq G
<1> SUFFICES ASSUME ~(Nat \subseteq G) PROVE FALSE
  OBVIOUS
<1> DEFINE B == {n \in Nat : n \notin G}
<1>1. \E x \in B : \A y \in B : ~(<<y, x>> \in OpToRel(<, Nat))
  <2>1. B \subseteq Nat /\ B # {} OBVIOUS
  <2>2. QED BY <2>1, NatLessThanWellFounded, WFMin, Zenon
<1>2. PICK x \in B : \A y \in B : ~(y < x) BY <1>1 DEF OpToRel
<1>3. x # 0 /\ x - 1 \in Nat OBVIOUS
<1>4. x - 1 \in G BY <1>2, <1>3
<1>5. QED BY <1>3, <1>4
=============================================================================
