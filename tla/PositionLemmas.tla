--------------------------- MODULE PositionLemmas --------------------------
(***************************************************************************)
(* The least and the greatest of a set of positions, which is what the     *)
(* SelectInSeq and SelectLastInSeq of the modules choose.                  *)
(***************************************************************************)
EXTENDS Integers, FiniteSetsExt, WellFoundedInduction, TLAPS

(* A set of natural numbers that has an element has a least one.           *)
LEMMA LeastExists ==
  ASSUME NEW I, I \subseteq Nat, I # {}
  PROVE  \E x \in I : \A y \in I : x =< y
<1>1. \E x \in I : \A y \in I : ~ (<<y, x>> \in OpToRel(<, Nat))
  BY NatLessThanWellFounded, WFMin
<1>2. ASSUME NEW x \in Nat, NEW y \in Nat, y < x
      PROVE  <<y, x>> \in OpToRel(<, Nat)
  <2>1. <<y, x>> \in Nat \X Nat /\ <<y, x>>[1] < <<y, x>>[2]  BY <1>2
  <2> QED  BY <2>1 DEF OpToRel
<1>3. \E x \in I : \A y \in I : ~ (y < x)  BY <1>1, <1>2
<1> QED  BY <1>3

(* Min of a set of positions is one of them, and none is less.             *)
LEMMA MinIsLeast ==
  ASSUME NEW I, I \subseteq Nat, I # {}
  PROVE  Min(I) \in I /\ \A y \in I : Min(I) =< y
BY LeastExists DEF Min

(* Max of a set of positions of a sequence is one of them, and none is     *)
(* greater.                                                                *)
LEMMA MaxIsGreatest ==
  ASSUME NEW n \in Nat, NEW I, I \subseteq 1 .. n, I # {}
  PROVE  Max(I) \in I /\ \A y \in I : y =< Max(I)
<1> DEFINE J == {k \in Nat : \E i \in I : k = n - i}
<1>1. \A y \in I : y \in 1 .. n /\ n - y \in J  OBVIOUS
<1>2. J \subseteq Nat /\ J # {}  BY <1>1
<1>3. PICK j \in J : \A y \in J : j =< y
  <2> HIDE DEF J
  <2> QED  BY <1>2, LeastExists
<1>4. PICK m \in I : j = n - m  BY <1>3
<1>5. \A y \in I : n - m =< n - y  BY <1>1, <1>3, <1>4
<1>6. \A y \in I : m >= y  BY <1>1, <1>5
<1>7. \E x \in I : \A y \in I : x >= y  BY <1>6
<1>8. Max(I) \in I /\ \A y \in I : Max(I) >= y  BY <1>7 DEF Max
<1> QED  BY <1>1, <1>8
============================================================================
