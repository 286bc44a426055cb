---------------------------- MODULE NumberLemmas -----------------------------
(***************************************************************************)
(* What the proofs need to know of natural numbers and the provers do not  *)
(* find by themselves: least elements, induction over a set, and division  *)
(* by a number that is not a literal.                                      *)
(***************************************************************************)
EXTENDS Integers, WellFoundedInduction, TLAPS

\* Every nonempty set of naturals has a least element.
LEMMA LeastElement ==
  ASSUME NEW T \in SUBSET Nat, T # {}
  PROVE  \E x \in T : \A y \in T : x <= y
<1>1. \E x \in T : \A y \in T : ~(<<y, x>> \in OpToRel(<, Nat))
  BY NatLessThanWellFounded, WFMin
<1>2. PICK x \in T : \A y \in T : ~(<<y, x>> \in OpToRel(<, Nat))
  BY <1>1
<1>3. ASSUME NEW y \in T PROVE x <= y
  <2>1. ~(<<y, x>> \in OpToRel(<, Nat))
    BY <1>2
  <2>2. x \in Nat /\ y \in Nat
    OBVIOUS
  <2>3. ~(y < x)
    BY <2>1, <2>2 DEF OpToRel
  <2>. QED
    BY <2>2, <2>3
<1>. QED
  BY <1>2, <1>3

\* A set that has 0, and with a number the next one, has them all: induction,
\* over the set of the numbers for which a formula holds.
LEMMA SetInduction ==
  ASSUME NEW S \in SUBSET Nat, 0 \in S, \A n \in S : n + 1 \in S
  PROVE  S = Nat
<1> SUFFICES ASSUME Nat \ S # {} PROVE FALSE
  OBVIOUS
<1>1. PICK m \in Nat \ S : \A x \in Nat \ S : m <= x
  BY LeastElement
<1>2. m # 0 /\ m - 1 \in Nat /\ m - 1 \in S
  BY <1>1
<1>. QED
  BY <1>1, <1>2

LEMMA TimesGrows ==
  ASSUME NEW a \in Nat, NEW b \in Nat, NEW c \in Nat, a <= b
  PROVE  a * c <= b * c
<1>1. PICK d \in Nat : b = a + d
  BY b - a \in Nat
<1>2. b * c = a * c + d * c /\ d * c \in Nat
  BY <1>1, SMT
<1>. QED
  BY <1>2

\* Division by n has one quotient and one remainder.
LEMMA DivModIs ==
  ASSUME NEW n \in Nat \ {0}, NEW q \in Nat, NEW r \in 0..(n - 1)
  PROVE  (n * q + r) % n = r /\ (n * q + r) \div n = q
<1> DEFINE x == n * q + r
           k == x \div n
           s == x % n
<1>1. x \in Nat
  OBVIOUS
<1>2. x = n * k + s /\ s \in 0..(n - 1) /\ k \in Nat
  <2> HIDE DEF x
  <2>. QED
    BY <1>1, SMT
<1>3. x = n * q + r
  OBVIOUS
<1> HIDE DEF x, k, s
<1>4. k = q
  <2>1. CASE k > q
    <3>1. PICK d \in Nat : k = q + 1 + d
      BY <1>2, <2>1, k - q - 1 \in Nat
    <3>2. n * k = n * q + n + n * d /\ n * d \in Nat
      BY <3>1
    <3>. QED
      BY <3>2, <1>2, <1>3
  <2>2. CASE k < q
    <3>1. PICK d \in Nat : q = k + 1 + d
      BY <1>2, <2>2, q - k - 1 \in Nat
    <3>2. n * q = n * k + n + n * d /\ n * d \in Nat
      BY <3>1, <1>2
    <3>. QED
      BY <3>2, <1>2, <1>3
  <2>. QED
    BY <2>1, <2>2, <1>2
<1>. QED
  BY <1>2, <1>3, <1>4 DEF x, k, s

LEMMA DivModOf ==
  ASSUME NEW n \in Nat \ {0}, NEW x \in Nat
  PROVE  x \div n \in Nat /\ x % n \in 0..(n - 1) /\ x = n * (x \div n) + (x % n)
BY SMT

\* The distance from x to the next multiple of n, which is what aligns x.
LEMMA NextMultiple ==
  ASSUME NEW n \in Nat \ {0}, NEW x \in Nat
  PROVE  LET a == (n - (x % n)) % n
         IN  a \in 0..(n - 1) /\ (x + a) % n = 0
<1> DEFINE q == x \div n
           r == x % n
           a == (n - r) % n
<1>1. q \in Nat /\ r \in 0..(n - 1) /\ x = n * q + r
  BY DivModOf
<1> HIDE DEF q, r
<1>2. CASE r = 0
  <2>1. n - r = n * 1 + 0
    BY <1>2
  <2>2. (n * 1 + 0) % n = 0
    BY DivModIs
  <2>3. a = 0
    BY <2>1, <2>2
  <2>4. x + a = n * q + 0 /\ 0 \in 0..(n - 1)
    BY <1>1, <1>2, <2>3
  <2>5. (x + a) % n = 0
    BY <1>1, <2>4, DivModIs
  <2>. QED
    BY <2>3, <2>5 DEF r
<1>3. CASE r # 0
  <2>1. n - r \in 0..(n - 1) /\ n - r = n * 0 + (n - r)
    BY <1>1, <1>3
  <2>2. a = n - r
    BY <2>1, DivModIs
  <2>3. x + a = n * (q + 1) + 0 /\ q + 1 \in Nat /\ 0 \in 0..(n - 1)
    BY <1>1, <2>2
  <2>4. (x + a) % n = 0
    BY <2>3, DivModIs
  <2>. QED
    BY <2>1, <2>2, <2>4 DEF r
<1>. QED
  BY <1>2, <1>3
=============================================================================
