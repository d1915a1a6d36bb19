---------------------------- MODULE IntegerLemmas ----------------------------
(***************************************************************************)
(* The least and the greatest of a set of natural numbers, and induction.  *)
(***************************************************************************)
EXTENDS Integers, FiniteSetsExt, WellFoundedInduction, TLAPS

\* A set of natural numbers has a least element (the first entry of a batch).
LEMMA MinNat ==
    ASSUME NEW S \in SUBSET Nat, S # {}
    PROVE  /\ Min(S) \in S
           /\ \A s \in S : Min(S) <= s
<1> DEFINE R == {ss \in Nat \X Nat : ss[1] < ss[2]}
<1>1. IsWellFoundedOn(R, Nat)
  BY ONLY NatLessThanWellFounded, Zenon DEF OpToRel
<1>2. PICK m \in S : \A y \in S : ~(<<y, m>> \in R)
  BY <1>1, WFMin
<1>3. ASSUME NEW y \in S PROVE m <= y
  <2>1. <<y, m>> \in Nat \X Nat
    OBVIOUS
  <2>2. ~(y < m)
    BY <1>2, <2>1
  <2>3. QED  BY <2>2
<1>4. QED  BY <1>3 DEF Min

\* Induction: a set of natural numbers with 0 and every successor has them all.
LEMMA NatInd ==
    ASSUME NEW B \in SUBSET Nat, 0 \in B, \A n \in Nat : n \in B => n + 1 \in B
    PROVE  \A n \in Nat : n \in B
<1> SUFFICES ASSUME Nat \ B # {} PROVE FALSE
  OBVIOUS
<1> DEFINE m == Min(Nat \ B)
<1>1. /\ m \in Nat \ B
      /\ \A s \in Nat \ B : m <= s
  BY MinNat
<1> HIDE DEF m
<1>2. m # 0 /\ m - 1 \in Nat /\ m - 1 \in B
  BY <1>1
<1> QED
  BY <1>1, <1>2

\* A bounded set of natural numbers has a greatest one (the last entry).
LEMMA MaxNat ==
    ASSUME NEW n \in Int, NEW S \in SUBSET (0..n), S # {}
    PROVE  /\ Max(S) \in S
           /\ \A s \in S : s <= Max(S)
<1> DEFINE T == {n - s : s \in S}
<1>1. T \subseteq Nat /\ T # {}
  <2>1. T \subseteq Nat
    OBVIOUS
  <2>2. PICK s \in S : TRUE
    OBVIOUS
  <2>3. n - s \in T
    OBVIOUS
  <2>4. QED  BY <2>1, <2>3
<1>2. PICK m \in T : \A y \in T : m <= y
  BY <1>1, MinNat
<1>3. PICK x \in S : m = n - x
  BY <1>2
<1>4. \A y \in S : y <= x
  <2> SUFFICES ASSUME NEW y \in S PROVE y <= x
    OBVIOUS
  <2>1. n - y \in T
    OBVIOUS
  <2>2. m <= n - y
    BY <2>1, <1>2
  <2> QED  BY <2>2, <1>3
<1>5. QED  BY <1>4 DEF Max

=============================================================================
