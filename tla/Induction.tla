----------------------------- MODULE Induction -----------------------------
(***************************************************************************)
(* Induction over the naturals, stated for sets, and division.  Induction  *)
(* follows from the well-foundedness of strict inclusion among finite sets,*)
(* applied to the intervals below a number.                                *)
(***************************************************************************)
EXTENDS Integers, FiniteSetTheorems, TLAPS

(* Every non-empty set of naturals has a least element.                      *)
LEMMA LeastNumber ==
  ASSUME NEW T, T \subseteq Nat, T # {}
  PROVE  \E m \in T : \A n \in T : m <= n
<1> DEFINE below == {0..n : n \in T}
<1>1. below \subseteq FiniteSubsetsOf(Nat) /\ below # {}
  <2>1. \A n \in T : IsFiniteSet(0..n) /\ 0..n \in SUBSET Nat
    BY FS_Interval
  <2> QED BY <2>1 DEF FiniteSubsetsOf
<1>2. PICK x \in below : \A y \in below : <<y, x>> \notin StrictSubsetOrdering(Nat)
  BY <1>1, FS_StrictSubsetOrderingWellFounded, WFMin
<1>3. PICK m \in T : x = 0..m
  BY <1>2
<1>4. ASSUME NEW n \in T, n < m PROVE FALSE
  <2>1. 0..n \in SUBSET (0..m) /\ 0..n # 0..m
    BY <1>4
  <2>2. <<0..n, x>> \in StrictSubsetOrdering(Nat)
    BY <2>1, <1>3, <1>1 DEF StrictSubsetOrdering
  <2> QED BY <2>2, <1>2
<1> QED BY <1>3, <1>4

(* A set that has 0 and with each natural its successor has all naturals.    *)
LEMMA SetInduction ==
  ASSUME NEW T, 0 \in T, \A n \in Nat : n \in T => n + 1 \in T
  PROVE  Nat \subseteq T
<1> SUFFICES ASSUME Nat \ T # {} PROVE FALSE
  OBVIOUS
<1>1. PICK m \in Nat \ T : \A n \in Nat \ T : m <= n
  BY LeastNumber
<1> QED BY <1>1

(* Finitely many integers in a row have a greatest among them.               *)
LEMMA GreatestValue ==
  ASSUME NEW f, NEW n \in Nat \ {0}, \A k \in 1..n : f[k] \in Int
  PROVE  \E l \in 1..n : \A k \in 1..n : f[k] <= f[l]
<1> DEFINE Has(m) == \E l \in 1..m : \A k \in 1..m : f[k] <= f[l]
           T == {m \in Nat : m \in 1..n => Has(m)}
<1>1. 0 \in T
  OBVIOUS
<1>2. ASSUME NEW m \in Nat, m \in T PROVE m + 1 \in T
  <2> SUFFICES ASSUME m + 1 \in 1..n PROVE Has(m + 1)
    OBVIOUS
  <2>1. CASE m = 0
    BY <2>1
  <2>2. CASE m # 0
    <3>1. PICK l \in 1..m : \A k \in 1..m : f[k] <= f[l]
      BY <1>2, <2>2
    <3>2. CASE f[m + 1] <= f[l]
      <4>1. l \in 1..(m + 1) /\ \A k \in 1..(m + 1) : f[k] <= f[l]
        BY <3>1, <3>2
      <4> QED BY <4>1
    <3>3. CASE ~(f[m + 1] <= f[l])
      <4>1. \A k \in 1..(m + 1) : f[k] <= f[m + 1]
        BY <3>1, <3>3
      <4> QED BY <4>1
    <3> QED BY <3>2, <3>3
  <2> QED BY <2>1, <2>2
<1>3. n \in T
  <2> HIDE DEF T
  <2> QED BY <1>1, <1>2, SetInduction
<1> QED BY <1>3

-----------------------------------------------------------------------------
(* Division with remainder.                                                *)

(* Quotients and remainders of naturals.                                    *)
LEMMA Division ==
  ASSUME NEW i \in Nat, NEW m \in Nat \ {0}
  PROVE  i \div m \in Nat /\ i % m \in 0..(m - 1) /\ i = m * (i \div m) + (i % m)
<1>1. i \div m \in Int /\ i % m \in 0..(m - 1)
  OBVIOUS
<1>2. i = m * (i \div m) + (i % m)
  OBVIOUS
<1> DEFINE d == i \div m
           r == i % m
<1>3. d \in Int /\ r \in 0..(m - 1) /\ i = m * d + r
  BY <1>1, <1>2
<1> HIDE DEF d, r
<1>4. ASSUME d <= -1 PROVE FALSE
  <2>1. m * d <= -m
    BY <1>3, <1>4
  <2> QED BY <1>3, <2>1
<1>5. d \in Nat
  BY <1>3, <1>4
<1> QED BY <1>1, <1>2, <1>5 DEF d

(* They are unique, ...                                                     *)
LEMMA DivisionOf ==
  ASSUME NEW q \in Nat, NEW m \in Nat \ {0}, NEW r \in Nat, r < m
  PROVE  (q * m + r) \div m = q /\ (q * m + r) % m = r
OBVIOUS

(* ... and monotonic.                                                       *)
LEMMA DivisionBelow ==
  ASSUME NEW q \in Nat, NEW m \in Nat \ {0}, NEW i \in Nat, i < q * m
  PROVE  i \div m < q
OBVIOUS
=============================================================================
