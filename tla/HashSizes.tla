----------------------------- MODULE HashSizes ------------------------------
(***************************************************************************)
(* The arithmetic of src/lib/gnulib/hash.c: the factors a table accepts,   *)
(* and the number of buckets it makes for a candidate.  The factors, which *)
(* are floats, are fractions here; only the truncation of a product to an  *)
(* integer is kept of what floats do.                                      *)
(***************************************************************************)
EXTENDS Integers

\* A tuning has its factors as fractions <<numerator, denominator>>.
Fraction == Nat \X (Nat \ {0})

Tuning == [shrink_threshold : Fraction, shrink_factor : Fraction,
           growth_threshold : Fraction, growth_factor : Fraction,
           is_n_buckets : BOOLEAN]

-----------------------------------------------------------------------------
\* The divisor at which the loop of is_prime stops.
LastDivisor(c) == CHOOSE d \in 3..c : /\ d % 2 = 1
                                      /\ d * d >= c \/ c % d = 0
                                      /\ \A x \in 3..(d - 1) :
                                           x % 2 = 1 => x * x < c /\ c % x # 0

is_prime(c) == c % LastDivisor(c) # 0

\* The odd number a candidate is made, at least 11.
MadeOdd(c) == LET d == IF c < 10 THEN 10 ELSE c
              IN IF d % 2 = 1 THEN d ELSE d + 1

\* The loop of next_prime, k rounds on.  It never comes near SIZE_MAX: see
\* BucketSize.
next_prime(c) ==
  LET from[k \in Nat] == LET p == MadeOdd(c) + 2 * k
                         IN IF is_prime(p) THEN p ELSE from[k + 1]
  IN from[0]

Times(x, f) == (x * f[1]) \div f[2]

Less(f, g) == f[1] * g[2] < g[1] * f[2]

PlusTenth(f) == <<10 * f[1] + f[2], 10 * f[2]>>

check_tuning(t) == /\ Less(<<1, 10>>, t.growth_threshold)
                   /\ Less(t.growth_threshold, <<9, 10>>)
                   /\ Less(<<11, 10>>, t.growth_factor)
                   /\ Less(PlusTenth(t.shrink_threshold), t.shrink_factor)
                   /\ ~Less(<<1, 1>>, t.shrink_factor)
                   /\ Less(PlusTenth(t.shrink_threshold), t.growth_threshold)

\* compute_bucket_size.  The sizes the options admit (at most 32M nodes, by
\* 1/.11) are far from those that it refuses.
BucketSize(c, t) ==
  next_prime(IF t.is_n_buckets THEN c
             ELSE (c * t.growth_threshold[2]) \div t.growth_threshold[1])

\* The candidates hash_insert and hash_delete compute from the size of the
\* table: one product of floats, cut to an integer at the end.
Scaled(n, f, t) ==
  IF t.is_n_buckets THEN Times(n, f)
  ELSE (n * f[1] * t.growth_threshold[1]) \div (f[2] * t.growth_threshold[2])

GrownCandidate(n, t) == Scaled(n, t.growth_factor, t)
ShrunkCandidate(n, t) == Scaled(n, t.shrink_factor, t)
=============================================================================
