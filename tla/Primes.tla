------------------------------- MODULE Primes -------------------------------
(***************************************************************************)
(* The pure operators behind the size of a linear hash table:              *)
(* lhash_is_prime and lhash_next_prime of src/src/lhash-impl.h, and        *)
(* is_prime of src/src/next-prime.bc, the script the comment above         *)
(* lhash_next_prime computes its numbers with.                             *)
(*                                                                         *)
(* lhash_is_prime divides by the odd numbers d from 3 on for as long as    *)
(* s = d^2 is below n, and answers s >= n: it says FALSE exactly when one  *)
(* of those d divides n.  The operators state what the loops return; MCLHash*)
(* compares them with the loops.                                           *)
(***************************************************************************)
EXTENDS Integers

CONSTANT PrimeLimit  \* N, the largest prime below 2^32, in lhash_next_prime

ASSUME PrimeLimitAssumption == PrimeLimit \in Nat /\ PrimeLimit % 2 = 1

OddFrom3(n) == {d \in 3..n : d % 2 = 1}

\* lhash_is_prime(n): no odd d with d^2 < n divides n.
IsPrime(n) == \A d \in OddFrom3(n) : d * d < n => n % d # 0

\* n |= 1
NextOdd(n) == IF n % 2 = 1 THEN n ELSE n + 1

\* Where the search of lhash_next_prime may stop: at N or above it, or at a
\* number lhash_is_prime accepts.
Accepted(m) == m >= PrimeLimit \/ IsPrime(m)

Candidates(n) ==
  {m \in NextOdd(n)..(NextOdd(n) + PrimeLimit) : m % 2 = 1 /\ Accepted(m)}

\* lhash_next_prime(n): the first odd number from n on that is accepted.
NextPrime(n) == CHOOSE m \in Candidates(n) :
                  \A k \in NextOdd(n)..(m - 1) : k % 2 = 1 => ~Accepted(k)

\* is_prime(n) of next-prime.bc: it starts with s = 4 where the C code starts
\* with s = 9, so s stays at d^2 - 5 and the last d it tries reaches the
\* square root.
BcIsPrime(n) == n % 2 # 0 /\ \A d \in OddFrom3(n) : d * d - 5 < n => n % d # 0
=============================================================================
