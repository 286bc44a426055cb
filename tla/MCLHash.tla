------------------------------ MODULE MCLHash -------------------------------
(***************************************************************************)
(* An instance of LHash for TLC.  Strings are numbers, and the hash        *)
(* function is chosen to collide: four of the six keys start from the slots*)
(* 0 and 1 of the first table, so that probes wrap around the start of the *)
(* table, and meet in other groups in the larger ones.                     *)
(***************************************************************************)
EXTENDS LHashInv

MCNoKey == 0

\* Lengths around the limit of the 'len' byte.
MCStrLen == [k \in Keys |-> <<0, 3, 255, 256, 300, 7>>[k]]

\* A hash that depends on the length too, as LHASH_HASH does.  The numbers are
\* the hashes with the true lengths; 1517 is 37 * 41, two of the table sizes.
MCHashOf(k, l) == <<37, 74, 38, 0, 41, 82>>[k] + (1517 - MCStrLen[k]) + l
-----------------------------------------------------------------------------
(***************************************************************************)
(* The loops of lhash_is_prime, lhash_next_prime and of the is_prime of    *)
(* next-prime.bc, line by line, against the operators of Primes, on both   *)
(* sides of PrimeLimit.                                                    *)
(***************************************************************************)
RECURSIVE IsPrimeLoop(_, _, _)
IsPrimeLoop(n, d, sq) == IF sq < n /\ n % d # 0
                          THEN IsPrimeLoop(n, d + 2, sq + 4 * (d + 1))
                          ELSE sq >= n

RECURSIVE NextPrimeLoop(_)
NextPrimeLoop(n) == IF n < PrimeLimit /\ ~IsPrimeLoop(n, 3, 9)
                      THEN NextPrimeLoop(n + 2) ELSE n

ASSUME PrimeLoops ==
  \A n \in 1..600 :
    /\ n % 2 = 1 => IsPrime(n) = IsPrimeLoop(n, 3, 9)
    /\ BcIsPrime(n) = (n % 2 # 0 /\ IsPrimeLoop(n, 3, 4))
    /\ NextPrime(n) = NextPrimeLoop(NextOdd(n))
=============================================================================
