---------------------------- MODULE Numbers_proofs ----------------------------
(* Induction over data, with a set in the place of an operator for what is   *)
(* to be shown.                                                              *)
EXTENDS Naturals, WellFoundedInduction, TLAPS

(* A set of numbers that is not empty has a least one.                       *)
LEMMA LeastNumber ==
  ASSUME NEW S \in SUBSET Nat, S # {}
  PROVE  \E d \in S : \A e \in S : d <= e
<1>1. PICK d \in S : \A e \in S : ~(<<e, d>> \in OpToRel(<, Nat))
  BY NatLessThanWellFounded, WFMin
<1>2. ASSUME NEW x \in Nat, NEW y \in Nat, x < y PROVE <<x, y>> \in OpToRel(<, Nat)
  BY <1>2, Zenon DEF OpToRel
<1>3. \A e \in S : ~(e < d)
  BY <1>1, <1>2
<1> QED
  BY <1>3

(* Upwards from 0, with the set of those for which it holds.                 *)
LEMMA Upwards ==
  ASSUME NEW S, NEW m \in Nat, 0 \in S, \A n \in 1..m : n - 1 \in S => n \in S
  PROVE  0..m \subseteq S
<1> DEFINE Bad == {n \in 0..m : n \notin S}
<1> SUFFICES ASSUME Bad # {} PROVE FALSE
  OBVIOUS
<1>1. PICK d \in Bad : \A e \in Bad : d <= e
  <2>1. Bad \in SUBSET Nat
    OBVIOUS
  <2> HIDE DEF Bad
  <2> QED
    BY <2>1, LeastNumber
<1>2. d \in 1..m /\ d \notin S
  OBVIOUS
<1>3. d - 1 \in 0..m /\ d - 1 < d
  BY <1>2
<1>4. d - 1 \in S
  <2> HIDE DEF Bad
  <2>1. d - 1 \notin Bad
    BY <1>1, <1>2, <1>3
  <2> QED
    BY <1>3, <2>1 DEF Bad
<1> QED
  BY <1>2, <1>4
=============================================================================
