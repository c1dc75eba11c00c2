------------------------------ MODULE Induction ------------------------------
(***************************************************************************)
(* Induction on a set of natural numbers, for the facts about counters,    *)
(* sequences and recursive functions the proofs rest on.                   *)
(***************************************************************************)
EXTENDS Integers, TLAPS, WellFoundedInduction

LEMMA NatWellFounded == IsWellFoundedOn({p \in Nat \X Nat : p[1] < p[2]}, Nat)
BY NatLessThanWellFounded DEF OpToRel

LEMMA LeastNumber ==
  ASSUME NEW S \in SUBSET Nat, S # {}
  PROVE  \E n \in S : \A m \in S : n <= m
<1>1. PICK n \in S : \A m \in S : <<m, n>> \notin {p \in Nat \X Nat : p[1] < p[2]}
  BY NatWellFounded, WFMin
<1>2. \A m \in S : ~ (m < n)
  BY <1>1
<1> QED
  BY <1>2

LEMMA SetInduction ==
  ASSUME NEW S \in SUBSET Nat, 0 \in S, \A n \in S : n + 1 \in S
  PROVE  S = Nat
<1> SUFFICES ASSUME Nat \ S # {} PROVE FALSE
  OBVIOUS
<1>1. PICK n \in Nat \ S : \A m \in Nat \ S : n <= m
  BY LeastNumber
<1>2. n # 0 /\ n - 1 \in Nat
  BY <1>1
<1>3. n - 1 \in S
  BY <1>1, <1>2
<1>4. (n - 1) + 1 = n
  BY <1>1
<1> QED
  BY <1>1, <1>3, <1>4

\* A set of numbers with an upper bound has a largest.
LEMMA GreatestNumber ==
  ASSUME NEW S \in SUBSET Nat, S # {}, NEW b \in Nat, \A n \in S : n <= b
  PROVE  \E n \in S : \A m \in S : m <= n
<1> DEFINE D == {b - n : n \in S}
<1>1. D \in SUBSET Nat /\ D # {}
  <2>1. \A n \in S : b - n \in Nat
    OBVIOUS
  <2> QED
    BY <2>1
<1> HIDE DEF D
<1>2. PICK x \in D : \A y \in D : x <= y
  BY <1>1, LeastNumber
<1> USE DEF D
<1>3. PICK n \in S : x = b - n
  BY <1>2
<1>4. \A m \in S : b - n <= b - m
  BY <1>2, <1>3
<1> QED
  BY <1>4
=============================================================================
