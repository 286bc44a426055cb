------------------------------ MODULE MCGHash -------------------------------
(***************************************************************************)
(* An instance of GHash for TLC.  The hashes make keys share a bucket in   *)
(* the table of 11, in that of 23, in both and in neither, so that a       *)
(* transfer spreads some chains and joins others.                          *)
(***************************************************************************)
EXTENDS GHash

MCNoKey == 0
MCHashOf(k) == <<0, 23, 8, 195, 30>>[k]

Factors(thr, grow, shrink_thr, shrink) ==
  [growth_threshold |-> thr, growth_factor |-> grow,
   shrink_threshold |-> shrink_thr, shrink_factor |-> shrink,
   is_n_buckets |-> FALSE]

\* What GHASH_INIT passes with a small load, a table that both grows and
\* shrinks, and factors that are refused.
Program == Factors(<<3, 20>>, <<5, 2>>, <<0, 1>>, <<1, 1>>)
Shrinking == Factors(<<1, 4>>, <<2, 1>>, <<1, 8>>, <<1, 2>>)
Refused == Factors(<<1, 4>>, <<2, 1>>, <<1, 5>>, <<1, 4>>)

MCTunings == {Program, Shrinking, Refused}
MCShrinking == {Shrinking}

\* Factors the options admit, with which a table of 11 buckets "grows" to 11:
\* 11 times 13/10 times 1/5 is cut to 2, and 2 divided by 1/5 is less than 11.
Slow == Factors(<<1, 5>>, <<13, 10>>, <<0, 1>>, <<1, 1>>)

ASSUME SlowStays == /\ check_tuning(Slow)
                    /\ BucketSize(GrownCandidate(11, Slow), Slow) = 11

\* The sizes are odd, at least 11, at least the candidate, and have no divisor.
ASSUME SizesPrime ==
  \A c \in 0..400 : LET p == next_prime(c)
                    IN p >= 11 /\ p >= c /\ \A d \in 2..(p - 1) : p % d # 0
=============================================================================
