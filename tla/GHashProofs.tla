---------------------------- MODULE GHashProofs ------------------------------
(***************************************************************************)
(* The Gnulib table, for every finite set of keys, every hash, any number  *)
(* of entries in memory, all factors and all sizes asked for.  Every       *)
(* overflow entry is given a place (a bucket, the free list, or nowhere)   *)
(* and the invariant says of each step of a transfer, of its undoing, of a *)
(* deletion or of a clear how entries and keys change their places.        *)
(***************************************************************************)
EXTENDS GHash, NumberLemmas, FiniteSetTheorems, SequenceTheorems

-----------------------------------------------------------------------------
(***************************************************************************)
(* The sizes.  The loop of next_prime ends since there are primes beyond   *)
(* every number.                                                           *)
(***************************************************************************)
Divides(d, n) == \E q \in Nat : n = d * q

\* Some number is a multiple of all numbers up to n.
LEMMA CommonMultiple ==
  \A n \in Nat : \E m \in Nat \ {0} : \A d \in 1..n : Divides(d, m)
<1> DEFINE S == {n \in Nat : \E m \in Nat \ {0} : \A d \in 1..n : Divides(d, m)}
<1>1. 0 \in S
  BY 1 \in Nat \ {0}
<1>2. ASSUME NEW n \in S PROVE n + 1 \in S
  <2>1. PICK m \in Nat \ {0} : \A d \in 1..n : Divides(d, m)
    BY <1>2
  <2>2. n \in Nat /\ m * (n + 1) \in Nat \ {0}
    BY <1>2
  <2>3. ASSUME NEW d \in 1..(n + 1) PROVE Divides(d, m * (n + 1))
    <3>1. CASE d = n + 1
      <4>1. m * (n + 1) = d * m
        BY <3>1, <2>2
      <4>. QED
        BY <4>1 DEF Divides
    <3>2. CASE d # n + 1
      <4>1. d \in 1..n
        BY <3>2, <2>2
      <4>2. PICK q \in Nat : m = d * q
        BY <4>1, <2>1 DEF Divides
      <4>3. m * (n + 1) = d * (q * (n + 1)) /\ q * (n + 1) \in Nat
        BY <4>2, <2>2
      <4>. QED
        BY <4>3 DEF Divides
    <3>. QED
      BY <3>1, <3>2
  <2>. QED
    BY <2>2, <2>3
<1> HIDE DEF S
<1>3. S = Nat
  <2>1. S \in SUBSET Nat
    BY DEF S
  <2>. QED
    BY <1>1, <1>2, <2>1, SetInduction
<1>. QED
  BY <1>3 DEF S

\* There are numbers without divisors beyond every number: the least divisor of
\* what comes after such a multiple.
LEMMA PrimeBeyond ==
  ASSUME NEW n \in Nat, n >= 2
  PROVE  \E p \in Nat : p > n /\ \A d \in 2..(p - 1) : ~Divides(d, p)
<1>1. PICK m \in Nat \ {0} : \A d \in 1..n : Divides(d, m)
  BY CommonMultiple
<1> DEFINE N == m + 1
           T == {d \in Nat : d >= 2 /\ Divides(d, N)}
<1>2. N \in T
  <2>1. N \in Nat /\ N >= 2 /\ N = N * 1
    OBVIOUS
  <2>. QED
    BY <2>1 DEF Divides
<1>3. PICK p \in T : \A y \in T : p <= y
  <2> HIDE DEF T
  <2>1. T \in SUBSET Nat
    BY DEF T
  <2>. QED
    BY <1>2, <2>1, LeastElement
<1>4. PICK q \in Nat : N = p * q
  BY <1>3 DEF Divides
<1>5. p \in Nat /\ p >= 2
  BY <1>3
<1>6. p > n
  <2> SUFFICES ASSUME p <= n PROVE FALSE
    BY <1>5
  <2>1. PICK r \in Nat : m = p * r
    <3>1. p \in 1..n
      BY <1>5
    <3>. QED
      BY <1>1, <3>1 DEF Divides
  <2>2. p * q = p * r + 1
    BY <1>4, <2>1
  <2>3. CASE q <= r
    <3>1. q * p <= r * p
      BY <2>3, <1>5, TimesGrows
    <3>2. q * p = p * q /\ r * p = p * r /\ p * q \in Nat /\ p * r \in Nat
      BY <1>5
    <3>. QED
      BY <3>1, <3>2, <2>2
  <2>4. CASE q > r
    <3>1. (r + 1) * p <= q * p
      BY <2>4, <1>5, TimesGrows
    <3>2. (r + 1) * p = p * r + p /\ q * p = p * q /\ p * q \in Nat /\ p * r \in Nat
      BY <1>5
    <3>. QED
      BY <3>1, <3>2, <2>2, <1>5
  <2>. QED
    BY <2>3, <2>4
<1>7. ASSUME NEW d \in 2..(p - 1), Divides(d, p) PROVE FALSE
  <2>1. PICK r \in Nat : p = d * r
    BY <1>7 DEF Divides
  <2>2. d \in Nat /\ d >= 2 /\ d < p
    BY <1>5
  <2>3. N = d * (r * q) /\ r * q \in Nat
    BY <1>4, <2>1, <2>2
  <2>4. d \in T
    BY <2>2, <2>3 DEF Divides
  <2>. QED
    BY <1>3, <2>2, <2>4, <1>5
<1>. QED
  BY <1>5, <1>6, <1>7

\* A remainder of 0 is a division.
LEMMA RemainderNone ==
  ASSUME NEW d \in Nat \ {0}, NEW n \in Nat, n % d = 0
  PROVE  Divides(d, n)
<1>1. n \div d \in Nat /\ n = d * (n \div d) + (n % d)
  BY DivModOf
<1>2. n = d * (n \div d)
  BY <1>1
<1>. QED
  BY <1>1, <1>2 DEF Divides

\* is_prime says yes to a number without divisors.
LEMMA IsPrime ==
  ASSUME NEW c \in Nat, c >= 11, c % 2 = 1, \A d \in 2..(c - 1) : ~Divides(d, c)
  PROVE  is_prime(c)
<1> DEFINE D == {d \in 3..c : d % 2 = 1 /\ (d * d >= c \/ c % d = 0)}
           Ends(d) == /\ d % 2 = 1
                      /\ d * d >= c \/ c % d = 0
                      /\ \A x \in 3..(d - 1) : x % 2 = 1 => x * x < c /\ c % x # 0
<1>1. c \in D
  <2>1. c * c >= c
    <3>1. 1 * c <= c * c
      BY TimesGrows
    <3>. QED
      BY <3>1
  <2>. QED
    BY <2>1
<1>2. \A d \in D : d \in Nat
  OBVIOUS
<1>3. PICK l \in D : \A y \in D : l <= y
  <2> HIDE DEF D
  <2>1. D \in SUBSET Nat
    BY <1>2
  <2>. QED
    BY <1>1, <2>1, LeastElement
<1>4. l \in 3..c /\ Ends(l)
  <2>1. ASSUME NEW x \in 3..(l - 1), x % 2 = 1 PROVE x * x < c /\ c % x # 0
    <3>1. x \in 3..c /\ x < l
      BY <1>3
    <3>2. x \notin D
      BY <1>3, <3>1
    <3>3. ~(x * x >= c \/ c % x = 0)
      BY <2>1, <3>1, <3>2
    <3>4. x * x \in Nat
      BY <3>1
    <3>. QED
      BY <3>3, <3>4
  <2>. QED
    BY <1>3, <2>1
<1> DEFINE e == LastDivisor(c)
<1>5. e \in 3..c /\ Ends(e)
  <2>1. e = CHOOSE d \in 3..c : Ends(d)
    BY DEF LastDivisor
  <2> HIDE DEF Ends, e
  <2>. QED
    BY <1>4, <2>1
<1> HIDE DEF e
<1>6. e # c
  <2> SUFFICES ASSUME e = c PROVE FALSE
    OBVIOUS
  <2> DEFINE x == c - 2
  <2>1. x \in 3..(c - 1) /\ x % 2 = 1
    OBVIOUS
  <2>2. x * x < c
    BY <1>5, <2>1
  <2>3. 9 * x <= x * x
    BY <2>1, TimesGrows, 9 <= x, 9 \in Nat
  <2>. QED
    BY <2>1, <2>2, <2>3
<1>7. e \in 2..(c - 1)
  BY <1>5, <1>6
<1>8. c % e # 0
  <2>1. e \in Nat \ {0} /\ ~Divides(e, c)
    BY <1>7
  <2>. QED
    BY <2>1, RemainderNone
<1>. QED
  BY <1>8 DEF is_prime, e

IsSize(n) == n \in Nat /\ n >= 11 /\ n % 2 = 1 /\ is_prime(n)

\* The loop of next_prime ends at a size.
LEMMA NextPrimeIs ==
  ASSUME NEW c \in Nat
  PROVE  IsSize(next_prime(c))
<1> DEFINE m == MadeOdd(c)
           Turn(f) == [k \in Nat |-> LET p == m + 2 * k
                                     IN IF is_prime(p) THEN p ELSE f[k + 1]]
<1>1. m \in Nat /\ m >= 11 /\ m % 2 = 1
  <2> DEFINE d == IF c < 10 THEN 10 ELSE c
  <2>1. d \in Nat /\ d >= 10 /\ m = IF d % 2 = 1 THEN d ELSE d + 1
    BY DEF MadeOdd
  <2> HIDE DEF d, m
  <2>2. CASE d % 2 = 1
    BY <2>1, <2>2
  <2>3. CASE d % 2 # 1
    BY <2>1, <2>3
  <2>. QED
    BY <2>2, <2>3
<1> HIDE DEF m
<1>2. ASSUME NEW k \in Nat
      PROVE  \E j \in Nat : j >= k /\ is_prime(m + 2 * j)
  <2>1. m + 2 * k \in Nat /\ m + 2 * k >= 2
    BY <1>1
  <2>2. PICK p \in Nat : p > m + 2 * k /\ \A d \in 2..(p - 1) : ~Divides(d, p)
    BY <2>1, PrimeBeyond
  <2>3. p % 2 = 1
    <3>1. ~Divides(2, p)
      BY <1>1, <2>2
    <3>2. p % 2 # 0
      BY <3>1, RemainderNone
    <3>. QED
      BY <3>2
  <2>4. is_prime(p)
    BY <1>1, <2>2, <2>3, IsPrime
  <2>5. PICK j \in Nat : p = m + 2 * j
    <3>1. (p - m) \div 2 \in Nat /\ p = m + 2 * ((p - m) \div 2)
      BY <1>1, <2>1, <2>2, <2>3
    <3>. QED
      BY <3>1
  <2>. QED
    BY <2>2, <2>4, <2>5, <1>1
<1>3. \E f : f = Turn(f)
  <2> DEFINE After(k) == {j \in Nat : j >= k /\ is_prime(m + 2 * j)}
             First(k) == CHOOSE j \in After(k) : \A x \in After(k) : j <= x
  <2>1. \A k \in Nat : First(k) \in After(k) /\ \A x \in After(k) : First(k) <= x
    <3> TAKE k \in Nat
    <3>1. After(k) \in SUBSET Nat /\ After(k) # {}
      BY <1>2
    <3> HIDE DEF After
    <3>2. \E j \in After(k) : \A x \in After(k) : j <= x
      BY <3>1, LeastElement
    <3>. QED
      BY <3>2
  <2> HIDE DEF First
  <2>2. \A k \in Nat : is_prime(m + 2 * k) => First(k) = k
    <3> SUFFICES ASSUME NEW k \in Nat, is_prime(m + 2 * k) PROVE First(k) = k
      OBVIOUS
    <3>1. k \in After(k)
      OBVIOUS
    <3>2. First(k) \in Nat /\ First(k) >= k
      BY <2>1
    <3>3. First(k) <= k
      BY <2>1, <3>1
    <3>. QED
      BY <3>2, <3>3
  <2>3. \A k \in Nat : ~is_prime(m + 2 * k) => First(k) = First(k + 1)
    <3> SUFFICES ASSUME NEW k \in Nat, ~is_prime(m + 2 * k) PROVE First(k) = First(k + 1)
      OBVIOUS
    <3>1. \A j \in Nat : j \in After(k) <=> j \in After(k + 1)
      <4> TAKE j \in Nat
      <4>1. CASE j = k
        <5>1. ~is_prime(m + 2 * j) /\ ~(j >= k + 1)
          BY <4>1
        <5>. QED
          BY <5>1
      <4>2. CASE j # k
        <5>1. j >= k <=> j >= k + 1
          BY <4>2
        <5>. QED
          BY <5>1
      <4>. QED
        BY <4>1, <4>2
    <3>2. First(k) \in After(k) /\ First(k) \in Nat /\ \A x \in After(k) : First(k) <= x
      BY <2>1
    <3>3. First(k + 1) \in After(k + 1) /\ First(k + 1) \in Nat
          /\ \A x \in After(k + 1) : First(k + 1) <= x
      BY <2>1
    <3> HIDE DEF After
    <3>4. First(k) <= First(k + 1) /\ First(k + 1) <= First(k)
      BY <3>1, <3>2, <3>3
    <3>. QED
      BY <3>2, <3>3, <3>4
  <2> DEFINE g == [k \in Nat |-> m + 2 * First(k)]
  <2>4. g = Turn(g)
    <3>1. \A k \in Nat : g[k] = IF is_prime(m + 2 * k) THEN m + 2 * k ELSE g[k + 1]
      BY <2>2, <2>3
    <3>. QED
      BY <3>1
  <2>. QED
    BY <2>4
<1> DEFINE h == CHOOSE f : f = Turn(f)
<1>4. h = Turn(h)
  BY <1>3
<1>5. next_prime(c) = h[0]
  BY DEF next_prime, m
<1> HIDE DEF h
<1>6. \A k \in Nat : h[k] = IF is_prime(m + 2 * k) THEN m + 2 * k ELSE h[k + 1]
  BY <1>4
<1> SUFFICES ASSUME ~IsSize(h[0]) PROVE FALSE
  BY <1>5
<1> DEFINE S == {k \in Nat : ~IsSize(h[k])}
<1>7. 0 \in S
  OBVIOUS
<1>8. ASSUME NEW k \in S PROVE ~is_prime(m + 2 * k) /\ k + 1 \in S
  <2>1. k \in Nat /\ m + 2 * k \in Nat /\ m + 2 * k >= 11 /\ (m + 2 * k) % 2 = 1
    BY <1>1
  <2>2. ~is_prime(m + 2 * k)
    <3> SUFFICES ASSUME is_prime(m + 2 * k) PROVE FALSE
      OBVIOUS
    <3>1. h[k] = m + 2 * k
      BY <1>6, <2>1
    <3>. QED
      BY <2>1, <3>1 DEF IsSize
  <2>3. h[k] = h[k + 1]
    BY <1>6, <2>1, <2>2
  <2>. QED
    BY <2>1, <2>2, <2>3
<1>9. S = Nat
  <2>1. S \in SUBSET Nat
    OBVIOUS
  <2> HIDE DEF S
  <2>. QED
    BY <1>7, <1>8, <2>1, SetInduction
<1>10. PICK j \in Nat : is_prime(m + 2 * j)
  BY <1>2, 0 \in Nat
<1> HIDE DEF S
<1>. QED
  BY <1>8, <1>9, <1>10

-----------------------------------------------------------------------------
(***************************************************************************)
(* The lists.  A place <<n, i>> is bucket i of the table of n buckets; the *)
(* free list has a place of its own, and so have the entries malloc has    *)
(* not given.  F is the first entry of each place's list, N the link of    *)
(* each entry; o says in which place an entry is, and d how many entries   *)
(* are from it to the end of its list.                                     *)
(***************************************************************************)
Place == Nat \X Nat
FreePlace == <<0, 1>>
Nowhere == <<0, 0>>
Links == 0..MaxEntries

Listed(F, N, o, d) ==
  /\ F \in [Place -> Links] /\ N \in [Ids -> Links]
  /\ o \in [Ids -> Place] /\ d \in [Ids -> Nat \ {0}]
  /\ \A p \in Place : p # Nowhere /\ F[p] # 0 => o[F[p]] = p
  /\ \A e \in Ids : o[e] # Nowhere => /\ F[o[e]] # 0 /\ d[e] <= d[F[o[e]]]
                                      /\ d[e] = 1 => N[e] = 0
                                      /\ d[e] # 1 => /\ N[e] # 0 /\ o[N[e]] = o[e]
                                                     /\ d[N[e]] = d[e] - 1
  /\ \A e, f \in Ids : o[e] # Nowhere /\ o[e] = o[f] /\ d[e] = d[f] => e = f

Ranked(F, N, o) == \E d : Listed(F, N, o, d)

\* How long the list of a place is.
Length(F, d, p) == IF F[p] = 0 THEN 0 ELSE d[F[p]]

\* The entries, and 0 for none.
LEMMA IdsLinks == Ids \subseteq Links /\ \A e \in Links : e # 0 => e \in Ids
BY BoundAssumption DEF Ids, Links

\* A list that begins somewhere has entries, and one that does not has none.
LEMMA FirstIs ==
  ASSUME NEW F, NEW N, NEW o, Ranked(F, N, o)
  PROVE  /\ F \in [Place -> Links] /\ N \in [Ids -> Links] /\ o \in [Ids -> Place]
         /\ \A p \in Place : p # Nowhere /\ F[p] # 0 => F[p] \in Ids /\ o[F[p]] = p
         /\ \A p \in Place : p # Nowhere /\ F[p] = 0 => \A e \in Ids : o[e] # p
BY IdsLinks DEF Ranked, Listed

FirstTaken(F, N, o, p) ==
  /\ F[p] \in Ids /\ o[F[p]] = p
  /\ Ranked([F EXCEPT ![p] = N[F[p]]], N, [o EXCEPT ![F[p]] = Nowhere])

\* The first entry of a list is taken off.
LEMMA TakeFirst ==
  ASSUME NEW F, NEW N, NEW o, Ranked(F, N, o),
         NEW p \in Place \ {Nowhere}, F[p] # 0
  PROVE  FirstTaken(F, N, o, p)
<1>1. PICK d : Listed(F, N, o, d)
  BY DEF Ranked
<1> DEFINE x == F[p]
           G == [F EXCEPT ![p] = N[x]]
           u == [o EXCEPT ![x] = Nowhere]
<1>2. x \in Ids /\ o[x] = p /\ x # 0 /\ p # Nowhere
  BY <1>1, IdsLinks DEF Listed
<1>3. N[x] \in Links /\ Nowhere \in Place
  BY <1>1, <1>2 DEF Listed, Nowhere, Place
<1>4. G \in [Place -> Links] /\ u \in [Ids -> Place]
  BY <1>1, <1>2, <1>3 DEF Listed
<1>5. /\ \A r \in Place : G[r] = IF r = p THEN N[x] ELSE F[r]
      /\ \A e \in Ids : u[e] = IF e = x THEN Nowhere ELSE o[e]
  BY <1>1 DEF Listed
<1>6. N[x] # 0 => N[x] \in Ids /\ o[N[x]] = p /\ d[N[x]] = d[x] - 1 /\ d[x] # 1 /\ N[x] # x
  BY <1>1, <1>2, <1>3, IdsLinks DEF Listed
<1> HIDE DEF x, G, u
<1>7. ASSUME NEW r \in Place, r # Nowhere, G[r] # 0 PROVE u[G[r]] = r
  <2>1. CASE r = p
    BY <2>1, <1>2, <1>3, <1>5, <1>6, <1>7
  <2>2. CASE r # p
    <3>1. G[r] = F[r] /\ F[r] \in Ids /\ o[F[r]] = r
      BY <2>2, <1>1, <1>5, <1>7, IdsLinks DEF Listed
    <3>. QED
      BY <3>1, <2>2, <1>2, <1>5
  <2>. QED
    BY <2>1, <2>2
<1>8. ASSUME NEW e \in Ids, u[e] # Nowhere
      PROVE  /\ G[u[e]] # 0 /\ d[e] <= d[G[u[e]]]
             /\ d[e] = 1 => N[e] = 0
             /\ d[e] # 1 => N[e] # 0 /\ u[N[e]] = u[e] /\ d[N[e]] = d[e] - 1
  <2>1. e # x /\ u[e] = o[e] /\ o[e] \in Place /\ o[e] # Nowhere
    BY <1>1, <1>5, <1>8 DEF Listed
  <2>2. /\ F[o[e]] # 0 /\ d[e] <= d[F[o[e]]] /\ F[o[e]] \in Ids
        /\ d[e] = 1 => N[e] = 0
        /\ d[e] # 1 => N[e] # 0 /\ N[e] \in Ids /\ o[N[e]] = o[e] /\ d[N[e]] = d[e] - 1
    BY <1>1, <2>1, IdsLinks DEF Listed
  <2>3. d[e] \in Nat \ {0} /\ d[x] \in Nat \ {0}
    BY <1>1, <1>2 DEF Listed
  <2>4. N[e] # x
    <3> SUFFICES ASSUME N[e] = x PROVE FALSE
      OBVIOUS
    <3>1. d[e] # 1 /\ o[e] = p /\ d[x] = d[e] - 1 /\ d[e] <= d[x]
      BY <2>2, <1>2 DEF x
    <3>. QED
      BY <3>1, <2>3
  <2>5. G[o[e]] # 0 /\ d[e] <= d[G[o[e]]]
    <3>1. CASE o[e] = p
      <4>1. d[e] <= d[x] /\ d[e] # d[x]
        BY <3>1, <2>1, <2>2, <1>1, <1>2 DEF Listed, x
      <4>2. d[x] # 1
        BY <4>1, <2>3
      <4>3. N[x] # 0
        BY <4>2, <1>1, <1>2 DEF Listed
      <4>. QED
        BY <4>1, <4>3, <3>1, <2>1, <2>3, <1>5, <1>6
    <3>2. CASE o[e] # p
      BY <3>2, <1>5, <2>1, <2>2
    <3>. QED
      BY <3>1, <3>2
  <2>. QED
    BY <2>1, <2>2, <2>4, <2>5, <1>5
<1>9. ASSUME NEW e \in Ids, NEW f \in Ids, u[e] # Nowhere, u[e] = u[f], d[e] = d[f]
      PROVE  e = f
  <2>1. o[e] # Nowhere /\ o[e] = o[f]
    BY <1>5, <1>9
  <2>. QED
    BY <2>1, <1>1, <1>9 DEF Listed
<1>10. Listed(G, N, u, d)
  BY <1>1, <1>4, <1>7, <1>8, <1>9 DEF Listed
<1>. QED
  BY <1>2, <1>10 DEF Ranked, x, G, u, FirstTaken

AfterTaken(F, N, o, y) ==
  /\ N[y] \in Ids /\ N[y] # y /\ o[N[y]] = o[y]
  /\ Ranked(F, [N EXCEPT ![y] = N[N[y]]], [o EXCEPT ![N[y]] = Nowhere])

\* The entry that follows another one is taken out of its list.
LEMMA TakeAfter ==
  ASSUME NEW F, NEW N, NEW o, Ranked(F, N, o),
         NEW y \in Ids, o[y] # Nowhere, N[y] # 0
  PROVE  AfterTaken(F, N, o, y)
<1>1. PICK d : Listed(F, N, o, d)
  BY DEF Ranked
<1> DEFINE x == N[y]
           p == o[y]
           M == [N EXCEPT ![y] = N[x]]
           u == [o EXCEPT ![x] = Nowhere]
           v == [e \in Ids |-> IF o[e] = p /\ d[e] > d[x] THEN d[e] - 1 ELSE d[e]]
<1>2. /\ x \in Ids /\ o[x] = p /\ d[x] = d[y] - 1 /\ p \in Place /\ p # Nowhere
      /\ d[x] \in Nat \ {0} /\ d[y] \in Nat \ {0} /\ x # y
  BY <1>1, IdsLinks DEF Listed
<1>3. N[x] \in Links /\ Nowhere \in Place
  BY <1>1, <1>2 DEF Listed, Nowhere, Place
<1>4. M \in [Ids -> Links] /\ u \in [Ids -> Place]
  BY <1>1, <1>2, <1>3 DEF Listed
<1>5. \A e \in Ids : /\ M[e] = IF e = y THEN N[x] ELSE N[e]
                     /\ u[e] = IF e = x THEN Nowhere ELSE o[e]
                     /\ v[e] = IF o[e] = p /\ d[e] > d[x] THEN d[e] - 1 ELSE d[e]
  <2> HIDE DEF x, p
  <2>1. \A e \in Ids : v[e] = IF o[e] = p /\ d[e] > d[x] THEN d[e] - 1 ELSE d[e]
    OBVIOUS
  <2>2. \A e \in Ids : /\ M[e] = IF e = y THEN N[x] ELSE N[e]
                       /\ u[e] = IF e = x THEN Nowhere ELSE o[e]
    BY <1>1 DEF Listed
  <2>. QED
    BY <2>1, <2>2
<1>6. \A e \in Ids : v[e] \in Nat \ {0} /\ d[e] \in Nat \ {0}
  BY <1>1, <1>2, <1>5 DEF Listed
<1>61. v \in [Ids -> Nat \ {0}]
  BY <1>6
<1> HIDE DEF x, M, u, v, p
<1>7. ASSUME NEW r \in Place, r # Nowhere, F[r] # 0 PROVE u[F[r]] = r
  <2>1. F[r] \in Ids /\ o[F[r]] = r
    BY <1>1, <1>7, IdsLinks DEF Listed
  <2>2. F[r] # x
    <3> SUFFICES ASSUME F[r] = x PROVE FALSE
      OBVIOUS
    <3>1. r = p /\ d[y] <= d[F[p]]
      BY <1>1, <1>2, <2>1 DEF Listed, p
    <3>. QED
      BY <3>1, <1>2
  <2>. QED
    BY <2>1, <2>2, <1>5
<1>8. ASSUME NEW e \in Ids, u[e] # Nowhere
      PROVE  /\ F[u[e]] # 0 /\ v[e] <= v[F[u[e]]]
             /\ v[e] = 1 => M[e] = 0
             /\ v[e] # 1 => M[e] # 0 /\ u[M[e]] = u[e] /\ v[M[e]] = v[e] - 1
  <2>1. e # x /\ u[e] = o[e] /\ o[e] \in Place /\ o[e] # Nowhere
    BY <1>1, <1>5, <1>8 DEF Listed
  <2>2. /\ F[o[e]] # 0 /\ d[e] <= d[F[o[e]]] /\ F[o[e]] \in Ids /\ o[F[o[e]]] = o[e]
        /\ d[e] = 1 => N[e] = 0
        /\ d[e] # 1 => N[e] # 0 /\ N[e] \in Ids /\ o[N[e]] = o[e] /\ d[N[e]] = d[e] - 1
    BY <1>1, <2>1, IdsLinks DEF Listed
  <2>3. v[e] <= v[F[o[e]]]
    <3>1. CASE o[e] # p
      BY <3>1, <2>2, <1>5
    <3>2. CASE o[e] = p
      <4> DEFINE t == F[o[e]]
      <4>1. d[e] \in Nat /\ d[t] \in Nat /\ d[e] <= d[t] /\ o[t] = p /\ t \in Ids
        BY <3>2, <2>2, <1>6
      <4> HIDE DEF t
      <4>2. v[e] <= v[t]
        BY <4>1, <3>2, <1>2, <1>5
      <4>. QED
        BY <4>2 DEF t
    <3>. QED
      BY <3>1, <3>2
  <2>4. CASE e = y
    <3>1. M[e] = N[x] /\ v[e] = d[x] /\ o[e] = p
      BY <2>4, <1>2, <1>5 DEF p
    <3>2. d[x] = 1 => N[x] = 0
      BY <1>1, <1>2 DEF Listed
    <3>3. ASSUME d[x] # 1
          PROVE  N[x] # 0 /\ u[N[x]] = p /\ v[N[x]] = d[x] - 1
      <4>1. N[x] # 0 /\ N[x] \in Ids /\ o[N[x]] = p /\ d[N[x]] = d[x] - 1
        BY <1>1, <1>2, <3>3, IdsLinks DEF Listed
      <4>2. N[x] # x /\ ~(d[N[x]] > d[x])
        BY <4>1, <1>2
      <4>. QED
        BY <4>1, <4>2, <1>5
    <3>. QED
      BY <3>1, <3>2, <3>3, <2>1, <2>2, <2>3
  <2>5. CASE e # y
    <3>1. M[e] = N[e]
      BY <2>5, <1>5
    <3>2. N[e] # x
      <4> SUFFICES ASSUME N[e] = x PROVE FALSE
        OBVIOUS
      <4>1. d[e] # 1
        <5>1. 0 \notin Ids
          BY BoundAssumption DEF Ids
        <5>. QED
          BY <5>1, <2>2, <1>2
      <4>2. o[e] = p /\ d[x] = d[e] - 1
        BY <4>1, <2>2, <1>2
      <4>3. d[e] = d[y]
        BY <4>2, <1>2, <1>6
      <4>. QED
        BY <4>2, <4>3, <2>1, <2>5, <1>1 DEF Listed, p
    <3>3. CASE o[e] = p
      <4>1. d[e] # d[x]
        BY <3>3, <2>1, <1>1, <1>2 DEF Listed
      <4>2. CASE d[e] > d[x]
        <5>1. d[e] # d[y]
          BY <3>3, <2>1, <2>5, <1>1 DEF Listed, p
        <5>2. v[e] = d[e] - 1 /\ d[e] - 1 > d[x] /\ d[e] # 1
          BY <4>2, <5>1, <3>3, <1>2, <1>5, <1>6
        <5>3. N[e] # 0 /\ N[e] \in Ids /\ o[N[e]] = p /\ d[N[e]] = d[e] - 1
          BY <5>2, <2>2, <3>3
        <5>4. v[N[e]] = d[e] - 2
          BY <5>2, <5>3, <1>2, <1>5, <1>6
        <5>5. v[e] # 1 /\ v[N[e]] = v[e] - 1
          BY <5>2, <5>4, <1>2, <1>6
        <5>. QED
          BY <5>3, <5>5, <3>1, <3>2, <3>3, <2>1, <2>2, <2>3, <1>5
      <4>3. CASE d[e] < d[x]
        <5>1. v[e] = d[e]
          BY <4>3, <1>2, <1>5, <1>6
        <5>2. d[e] # 1 => N[e] # 0 /\ N[e] \in Ids /\ v[N[e]] = d[e] - 1 /\ u[N[e]] = u[e]
          BY <4>3, <3>2, <3>3, <2>1, <2>2, <1>2, <1>5, <1>6
        <5>. QED
          BY <5>1, <5>2, <3>1, <2>1, <2>2, <2>3
      <4>. QED
        BY <4>1, <4>2, <4>3, <1>2, <1>6
    <3>4. CASE o[e] # p
      BY <3>1, <3>2, <3>4, <2>1, <2>2, <2>3, <1>5
    <3>. QED
      BY <3>3, <3>4
  <2>. QED
    BY <2>4, <2>5
<1>9. ASSUME NEW e \in Ids, NEW f \in Ids, u[e] # Nowhere, u[e] = u[f], v[e] = v[f]
      PROVE  e = f
  <2>1. e # x /\ f # x /\ o[e] # Nowhere /\ o[e] = o[f]
    BY <1>5, <1>9
  <2>2. d[e] = d[f]
    <3>1. CASE o[e] # p
      BY <2>1, <3>1, <1>5, <1>9
    <3>2. CASE o[e] = p
      <4>1. d[e] # d[x] /\ d[f] # d[x]
        <5>1. \A g \in Ids : o[g] = p /\ d[g] = d[x] => g = x
          BY <1>1, <1>2 DEF Listed
        <5>. QED
          BY <5>1, <2>1, <3>2
      <4>2. d[e] \in Nat /\ d[f] \in Nat /\ d[x] \in Nat
        BY <1>2, <1>6
      <4>. QED
        BY <4>1, <4>2, <2>1, <3>2, <1>5, <1>9
    <3>. QED
      BY <3>1, <3>2
  <2>. QED
    BY <2>1, <2>2, <1>1 DEF Listed
<1>10. Listed(F, M, u, v)
  BY <1>1, <1>4, <1>61, <1>7, <1>8, <1>9 DEF Listed
<1>. QED
  BY <1>2, <1>10 DEF Ranked, x, M, u, p, AfterTaken

FirstPut(F, N, o, q, x) ==
  Ranked([F EXCEPT ![q] = x], [N EXCEPT ![x] = F[q]], [o EXCEPT ![x] = q])

\* An entry that is nowhere is put at the front of a list.
LEMMA PutFirst ==
  ASSUME NEW F, NEW N, NEW o, Ranked(F, N, o),
         NEW q \in Place \ {Nowhere}, NEW x \in Ids, o[x] = Nowhere
  PROVE  FirstPut(F, N, o, q, x)
<1>1. PICK d : Listed(F, N, o, d)
  BY DEF Ranked
<1> DEFINE G == [F EXCEPT ![q] = x]
           M == [N EXCEPT ![x] = F[q]]
           u == [o EXCEPT ![x] = q]
           v == [d EXCEPT ![x] = Length(F, d, q) + 1]
<1>2. x # 0 /\ x \in Links /\ q # Nowhere /\ q \in Place
  BY IdsLinks, BoundAssumption DEF Ids
<1>3. F[q] \in Links /\ Length(F, d, q) \in Nat
      /\ (F[q] # 0 => F[q] \in Ids /\ o[F[q]] = q)
  BY <1>1, <1>2, IdsLinks DEF Listed, Length
<1>4. G \in [Place -> Links] /\ M \in [Ids -> Links] /\ u \in [Ids -> Place]
      /\ v \in [Ids -> Nat \ {0}]
  BY <1>1, <1>2, <1>3, IdsLinks DEF Listed
<1>5. /\ \A r \in Place : G[r] = IF r = q THEN x ELSE F[r]
      /\ \A e \in Ids : /\ M[e] = IF e = x THEN F[q] ELSE N[e]
                        /\ u[e] = IF e = x THEN q ELSE o[e]
                        /\ v[e] = IF e = x THEN Length(F, d, q) + 1 ELSE d[e]
  BY <1>1 DEF Listed
<1> HIDE DEF G, M, u, v
<1>7. ASSUME NEW r \in Place, r # Nowhere, G[r] # 0 PROVE u[G[r]] = r
  <2>1. CASE r = q
    BY <2>1, <1>2, <1>5
  <2>3. CASE r # q
    <3>1. G[r] = F[r] /\ F[r] \in Ids /\ o[F[r]] = r
      BY <2>3, <1>1, <1>5, <1>7, IdsLinks DEF Listed
    <3>. QED
      BY <3>1, <2>3, <1>2, <1>5, <1>7
  <2>. QED
    BY <2>1, <2>3
<1>8. ASSUME NEW e \in Ids, u[e] # Nowhere
      PROVE  /\ G[u[e]] # 0 /\ v[e] <= v[G[u[e]]]
             /\ v[e] = 1 => M[e] = 0
             /\ v[e] # 1 => M[e] # 0 /\ u[M[e]] = u[e] /\ v[M[e]] = v[e] - 1
  <2>1. CASE e = x
    <3>1. u[e] = q /\ G[q] = x /\ M[e] = F[q] /\ v[e] = Length(F, d, q) + 1
      BY <2>1, <1>2, <1>5
    <3>2. CASE F[q] = 0
      BY <3>1, <3>2, <1>2, <2>1 DEF Length
    <3>3. CASE F[q] # 0
      <4>1. F[q] \in Ids /\ F[q] # x
        BY <3>3, <1>2, <1>3
      <4>2. u[F[q]] = q /\ v[F[q]] = d[F[q]] /\ v[e] = d[F[q]] + 1 /\ d[F[q]] \in Nat \ {0}
        BY <4>1, <3>1, <3>3, <1>1, <1>3, <1>5 DEF Length, Listed
      <4>. QED
        BY <3>1, <3>3, <4>1, <4>2, <1>2, <2>1
    <3>. QED
      BY <3>2, <3>3
  <2>2. CASE e # x
    <3>1. u[e] = o[e] /\ v[e] = d[e] /\ M[e] = N[e] /\ o[e] \in Place /\ o[e] # Nowhere
      BY <2>2, <1>1, <1>5, <1>8 DEF Listed
    <3>2. /\ F[o[e]] # 0 /\ d[e] <= d[F[o[e]]] /\ F[o[e]] \in Ids
          /\ d[e] = 1 => N[e] = 0
          /\ d[e] # 1 => N[e] # 0 /\ N[e] \in Ids /\ o[N[e]] = o[e] /\ d[N[e]] = d[e] - 1
      BY <1>1, <3>1, IdsLinks DEF Listed
    <3>3. N[e] # x
      BY <3>1, <3>2, <1>2
    <3>4. d[e] \in Nat \ {0}
      BY <1>1 DEF Listed
    <3>5. G[o[e]] # 0 /\ v[e] <= v[G[o[e]]]
      <4>2. CASE o[e] = q
        <5>1. G[q] = x /\ v[x] = d[F[q]] + 1 /\ d[e] <= d[F[q]]
          BY <4>2, <3>2, <1>2, <1>5 DEF Length
        <5>2. d[F[q]] \in Nat
          BY <4>2, <3>2, <1>1 DEF Listed
        <5>. QED
          BY <5>1, <5>2, <4>2, <3>1, <3>4, <1>2
      <4>3. CASE o[e] # q
        <5>1. G[o[e]] = F[o[e]] /\ F[o[e]] # x
          BY <4>3, <1>1, <1>2, <1>5, <3>1, <3>2 DEF Listed
        <5>. QED
          BY <5>1, <3>1, <3>2, <1>5
      <4>. QED
        BY <4>2, <4>3
    <3>. QED
      BY <3>1, <3>2, <3>3, <3>5, <1>5
  <2>. QED
    BY <2>1, <2>2
<1>9. ASSUME NEW e \in Ids, NEW f \in Ids, u[e] # Nowhere, u[e] = u[f], v[e] = v[f]
      PROVE  e = f
  <2>1. ASSUME NEW g \in Ids, g # x, u[g] = q PROVE v[g] # v[x]
    <3>1. o[g] = q /\ v[g] = d[g] /\ d[g] \in Nat /\ d[g] <= d[F[q]] /\ F[q] # 0 /\ F[q] \in Ids
      BY <2>1, <1>1, <1>2, <1>3, <1>5 DEF Listed
    <3>2. v[x] = d[F[q]] + 1 /\ d[F[q]] \in Nat
      BY <3>1, <1>1, <1>2, <1>5 DEF Length, Listed
    <3>. QED
      BY <3>1, <3>2
  <2>2. CASE e = x \/ f = x
    BY <2>1, <2>2, <1>2, <1>5, <1>9
  <2>3. CASE e # x /\ f # x
    <3>1. o[e] # Nowhere /\ o[e] = o[f] /\ d[e] = d[f]
      BY <2>3, <1>5, <1>9
    <3>. QED
      BY <3>1, <1>1 DEF Listed
  <2>. QED
    BY <2>2, <2>3
<1>10. Listed(G, M, u, v)
  BY <1>4, <1>7, <1>8, <1>9 DEF Listed
<1>. QED
  BY <1>10 DEF Ranked, G, M, u, FirstPut

FirstMoved(F, N, o, p, q) ==
  /\ F[p] \in Ids /\ o[F[p]] = p
  /\ Ranked([F EXCEPT ![p] = N[F[p]], ![q] = F[p]], [N EXCEPT ![F[p]] = F[q]],
            [o EXCEPT ![F[p]] = q])

\* The first entry of a list is moved to the front of another.
LEMMA MoveFirst ==
  ASSUME NEW F, NEW N, NEW o, Ranked(F, N, o),
         NEW p \in Place \ {Nowhere}, NEW q \in Place \ {Nowhere}, p # q, F[p] # 0
  PROVE  FirstMoved(F, N, o, p, q)
<1> DEFINE x == F[p]
           G == [F EXCEPT ![p] = N[x]]
           u == [o EXCEPT ![x] = Nowhere]
<1>1. x \in Ids /\ o[x] = p /\ Ranked(G, N, u)
  <2>1. FirstTaken(F, N, o, p)
    BY TakeFirst
  <2>. QED
    BY <2>1 DEF FirstTaken
<1>2. F \in [Place -> Links] /\ o \in [Ids -> Place]
  BY DEF Ranked, Listed
<1>3. u[x] = Nowhere /\ G[q] = F[q]
  BY <1>1, <1>2
<1>4. Ranked([G EXCEPT ![q] = x], [N EXCEPT ![x] = G[q]], [u EXCEPT ![x] = q])
  <2> HIDE DEF G, u, x
  <2>1. FirstPut(G, N, u, q, x)
    BY <1>1, <1>3, PutFirst
  <2>. QED
    BY <2>1 DEF FirstPut
<1>5. [G EXCEPT ![q] = x] = [F EXCEPT ![p] = N[x], ![q] = x]
  OBVIOUS
<1>6. [u EXCEPT ![x] = q] = [o EXCEPT ![x] = q]
  BY <1>1, <1>2
<1>. QED
  BY <1>1, <1>3, <1>4, <1>5, <1>6 DEF FirstMoved

AfterMoved(F, N, o, y, q) ==
  /\ N[y] \in Ids /\ N[y] # y /\ o[N[y]] = o[y]
  /\ Ranked([F EXCEPT ![q] = N[y]],
            [N EXCEPT ![N[y]] = F[q], ![y] = N[N[y]]], [o EXCEPT ![N[y]] = q])

\* The entry after another one is moved to the front of another list.
LEMMA MoveAfter ==
  ASSUME NEW F, NEW N, NEW o, Ranked(F, N, o),
         NEW y \in Ids, o[y] # Nowhere, N[y] # 0, NEW q \in Place \ {Nowhere}
  PROVE  AfterMoved(F, N, o, y, q)
<1> DEFINE x == N[y]
           M == [N EXCEPT ![y] = N[x]]
           u == [o EXCEPT ![x] = Nowhere]
<1>1. x \in Ids /\ x # y /\ o[x] = o[y] /\ Ranked(F, M, u)
  <2>1. AfterTaken(F, N, o, y)
    BY TakeAfter
  <2>. QED
    BY <2>1 DEF AfterTaken
<1>2. N \in [Ids -> Links] /\ o \in [Ids -> Place]
  BY DEF Ranked, Listed
<1>3. u[x] = Nowhere
  BY <1>1, <1>2
<1>4. Ranked([F EXCEPT ![q] = x], [M EXCEPT ![x] = F[q]], [u EXCEPT ![x] = q])
  <2> HIDE DEF M, u, x
  <2>1. FirstPut(F, M, u, q, x)
    BY <1>1, <1>3, PutFirst
  <2>. QED
    BY <2>1 DEF FirstPut
<1>5. [M EXCEPT ![x] = F[q]] = [N EXCEPT ![x] = F[q], ![y] = N[x]]
  BY <1>1, <1>2
<1>6. [u EXCEPT ![x] = q] = [o EXCEPT ![x] = q]
  BY <1>1, <1>2
<1>. QED
  BY <1>1, <1>4, <1>5, <1>6 DEF AfterMoved

GivenUp(F, N, o, p) ==
  Ranked([F EXCEPT ![p] = 0], N, [e \in Ids |-> IF o[e] = p THEN Nowhere ELSE o[e]])

\* A whole list is given up.
LEMMA GiveUp ==
  ASSUME NEW F, NEW N, NEW o, Ranked(F, N, o), NEW p \in Place \ {Nowhere}
  PROVE  GivenUp(F, N, o, p)
<1>1. PICK d : Listed(F, N, o, d)
  BY DEF Ranked
<1> DEFINE G == [F EXCEPT ![p] = 0]
           u == [e \in Ids |-> IF o[e] = p THEN Nowhere ELSE o[e]]
<1>2. 0 \in Links /\ Nowhere \in Place
  BY BoundAssumption DEF Links, Nowhere, Place
<1>3. G \in [Place -> Links] /\ u \in [Ids -> Place]
  BY <1>1, <1>2 DEF Listed
<1>4. /\ \A r \in Place : G[r] = IF r = p THEN 0 ELSE F[r]
      /\ \A e \in Ids : u[e] = IF o[e] = p THEN Nowhere ELSE o[e]
  BY <1>1 DEF Listed
<1> HIDE DEF G, u
<1>5. ASSUME NEW r \in Place, r # Nowhere, G[r] # 0 PROVE u[G[r]] = r
  <2>1. r # p /\ G[r] = F[r] /\ F[r] \in Ids /\ o[F[r]] = r
    BY <1>1, <1>4, <1>5, IdsLinks DEF Listed
  <2>. QED
    BY <2>1, <1>4
<1>6. ASSUME NEW e \in Ids, u[e] # Nowhere
      PROVE  /\ G[u[e]] # 0 /\ d[e] <= d[G[u[e]]]
             /\ d[e] = 1 => N[e] = 0
             /\ d[e] # 1 => N[e] # 0 /\ u[N[e]] = u[e] /\ d[N[e]] = d[e] - 1
  <2>1. u[e] = o[e] /\ o[e] # p /\ o[e] # Nowhere /\ o[e] \in Place /\ G[o[e]] = F[o[e]]
    BY <1>1, <1>4, <1>6 DEF Listed
  <2>2. d[e] # 1 => N[e] # 0 /\ N[e] \in Ids /\ o[N[e]] = o[e] /\ d[N[e]] = d[e] - 1
    BY <1>1, <2>1, IdsLinks DEF Listed
  <2>3. F[o[e]] # 0 /\ d[e] <= d[F[o[e]]] /\ (d[e] = 1 => N[e] = 0)
    BY <1>1, <2>1 DEF Listed
  <2>. QED
    BY <2>1, <2>2, <2>3, <1>4
<1>7. ASSUME NEW e \in Ids, NEW f \in Ids, u[e] # Nowhere, u[e] = u[f], d[e] = d[f]
      PROVE  e = f
  <2>1. o[e] # Nowhere /\ o[e] = o[f]
    BY <1>4, <1>7
  <2>. QED
    BY <2>1, <1>1, <1>7 DEF Listed
<1>8. Listed(G, N, u, d)
  BY <1>1, <1>3, <1>5, <1>6, <1>7 DEF Listed
<1>. QED
  BY <1>8 DEF Ranked, G, u, GivenUp

-----------------------------------------------------------------------------
(***************************************************************************)
(* The keys.  K is the key at the head of each place, D the data of each   *)
(* entry, and x the entry whose node is not stored yet, if there is one.   *)
(***************************************************************************)
AtHome(p, k) == p[1] # 0 /\ p[2] = HashOf(k) % p[1]

\* An entry is in a chain, and not in the free list or nowhere.
Bucketed(p) == p[1] # 0

Keyed(K, D, o, x) ==
  /\ K \in [Place -> Keys \cup {NoKey}] /\ D \in [Ids -> Keys \cup {NoKey, Junk}]
  /\ o \in [Ids -> Place]
  /\ \A p \in Place : K[p] # NoKey => AtHome(p, K[p])
  /\ \A e \in Ids : Bucketed(o[e]) => /\ K[o[e]] # NoKey
                                      /\ e # x => D[e] \in Keys /\ AtHome(o[e], D[e])
  /\ \A p, q \in Place : K[p] # NoKey /\ K[p] = K[q] => p = q
  /\ \A e, f \in Ids : Bucketed(o[e]) /\ Bucketed(o[f]) /\ D[e] = D[f] => e = f
  /\ \A p \in Place, e \in Ids : Bucketed(o[e]) /\ D[e] = K[p] => K[p] = NoKey
  /\ x # 0 => x \in Ids /\ Bucketed(o[x]) /\ D[x] \notin Keys

KeysIn(K, D, o) == {k \in Keys : \/ \E p \in Place : K[p] = k
                                 \/ \E e \in Ids : Bucketed(o[e]) /\ D[e] = k}

\* The null pointer is no entry.
LEMMA NotIds == 0 \notin Ids
BY BoundAssumption DEF Ids

Rechained(K, D, o, e, q) ==
  /\ Keyed(K, D, [o EXCEPT ![e] = q], 0)
  /\ KeysIn(K, D, [o EXCEPT ![e] = q]) = KeysIn(K, D, o)

\* A chained entry goes to another chain.
LEMMA Rechain ==
  ASSUME NEW K, NEW D, NEW o, Keyed(K, D, o, 0),
         NEW e \in Ids, Bucketed(o[e]),
         NEW q \in Place, K[q] # NoKey, AtHome(q, D[e])
  PROVE  Rechained(K, D, o, e, q)
<1> DEFINE u == [o EXCEPT ![e] = q]
<1>1. u \in [Ids -> Place] /\ \A f \in Ids : u[f] = IF f = e THEN q ELSE o[f]
  BY DEF Keyed
<1>2. Bucketed(q)
  BY DEF AtHome, Bucketed
<1> HIDE DEF u
<1>3. \A f \in Ids : Bucketed(u[f]) <=> Bucketed(o[f])
  BY <1>1, <1>2
<1>4. Keyed(K, D, u, 0)
  BY <1>1, <1>3, NotIds DEF Keyed
<1>5. KeysIn(K, D, u) = KeysIn(K, D, o)
  BY <1>3 DEF KeysIn
<1>. QED
  BY <1>4, <1>5 DEF u, Rechained

BecomesHead(K, D, o, e, r, q) ==
  /\ Keyed([K EXCEPT ![q] = D[e]], [D EXCEPT ![e] = NoKey], [o EXCEPT ![e] = r], 0)
  /\ KeysIn([K EXCEPT ![q] = D[e]], [D EXCEPT ![e] = NoKey], [o EXCEPT ![e] = r])
       = KeysIn(K, D, o) \ {K[q]}

\* What a chained entry holds goes to a head, and the entry out of its chain.
LEMMA ToHead ==
  ASSUME NEW K, NEW D, NEW o, Keyed(K, D, o, 0),
         NEW e \in Ids, Bucketed(o[e]), NEW r \in Place, ~Bucketed(r),
         NEW q \in Place, AtHome(q, D[e])
  PROVE  BecomesHead(K, D, o, e, r, q)
<1> DEFINE u == [o EXCEPT ![e] = r]
           L == [K EXCEPT ![q] = D[e]]
           E == [D EXCEPT ![e] = NoKey]
<1>1. /\ u \in [Ids -> Place] /\ \A f \in Ids : u[f] = IF f = e THEN r ELSE o[f]
  BY DEF Keyed
<1>2. D[e] \in Keys /\ D[e] # NoKey
  BY NotIds, KeysAssumption DEF Keyed
<1>3. L \in [Place -> Keys \cup {NoKey}] /\ \A p \in Place : L[p] = IF p = q THEN D[e] ELSE K[p]
  BY <1>2 DEF Keyed
<1>4. E \in [Ids -> Keys \cup {NoKey, Junk}]
      /\ \A f \in Ids : E[f] = IF f = e THEN NoKey ELSE D[f]
  BY DEF Keyed
<1> HIDE DEF u, L, E
<1>5. \A f \in Ids : Bucketed(u[f]) <=> f # e /\ Bucketed(o[f])
  BY <1>1
<1>6. \A p \in Place : L[p] # NoKey => AtHome(p, L[p])
  BY <1>3 DEF Keyed
<1>7. \A f \in Ids : Bucketed(u[f]) => /\ L[u[f]] # NoKey
                                      /\ E[f] \in Keys /\ AtHome(u[f], E[f])
  BY <1>1, <1>2, <1>3, <1>4, <1>5, NotIds DEF Keyed
<1>8. \A p, s \in Place : L[p] # NoKey /\ L[p] = L[s] => p = s
  BY <1>2, <1>3 DEF Keyed
<1>9. \A f, g \in Ids : Bucketed(u[f]) /\ Bucketed(u[g]) /\ E[f] = E[g] => f = g
  BY <1>4, <1>5 DEF Keyed
<1>10. \A p \in Place, f \in Ids : Bucketed(u[f]) /\ E[f] = L[p] => L[p] = NoKey
  BY <1>3, <1>4, <1>5 DEF Keyed
<1>11. Keyed(L, E, u, 0)
  BY <1>1, <1>3, <1>4, <1>6, <1>7, <1>8, <1>9, <1>10 DEF Keyed
<1>12. ASSUME NEW k \in Keys
       PROVE  k \in KeysIn(L, E, u) <=> k \in KeysIn(K, D, o) /\ k # K[q]
  <2>1. ASSUME k \in KeysIn(L, E, u) PROVE k \in KeysIn(K, D, o) /\ k # K[q]
    <3>1. CASE \E p \in Place : L[p] = k
      <4>1. PICK p \in Place : L[p] = k
        BY <3>1
      <4>2. CASE p = q
        <5>1. k = D[e] /\ k # K[q]
          BY <4>1, <4>2, <1>2, <1>3 DEF Keyed
        <5>. QED
          BY <5>1 DEF KeysIn
      <4>3. CASE p # q
        <5>1. k = K[p] /\ k # NoKey
          BY <4>1, <4>3, <1>3, KeysAssumption
        <5>2. k # K[q]
          BY <5>1, <4>3 DEF Keyed
        <5>. QED
          BY <5>1, <5>2 DEF KeysIn
      <4>. QED
        BY <4>2, <4>3
    <3>2. CASE \E f \in Ids : Bucketed(u[f]) /\ E[f] = k
      <4>1. PICK f \in Ids : Bucketed(u[f]) /\ E[f] = k
        BY <3>2
      <4>2. Bucketed(o[f]) /\ D[f] = k
        BY <4>1, <1>4, <1>5
      <4>3. k # K[q]
        BY <4>2, KeysAssumption DEF Keyed
      <4>. QED
        BY <4>2, <4>3 DEF KeysIn
    <3>. QED
      BY <2>1, <3>1, <3>2 DEF KeysIn
  <2>2. ASSUME k \in KeysIn(K, D, o), k # K[q] PROVE k \in KeysIn(L, E, u)
    <3>1. CASE \E p \in Place : K[p] = k
      BY <3>1, <2>2, <1>3 DEF KeysIn
    <3>2. CASE \E f \in Ids : Bucketed(o[f]) /\ D[f] = k
      BY <3>2, <1>3, <1>4, <1>5 DEF KeysIn
    <3>. QED
      BY <2>2, <3>1, <3>2 DEF KeysIn
  <2>. QED
    BY <2>1, <2>2
<1>13. KeysIn(L, E, u) = KeysIn(K, D, o) \ {K[q]}
  BY <1>12 DEF KeysIn
<1>. QED
  BY <1>11, <1>13 DEF u, L, E, BecomesHead

BecomesChained(K, D, o, p, f, q) ==
  /\ Keyed([K EXCEPT ![p] = NoKey], [D EXCEPT ![f] = K[p]], [o EXCEPT ![f] = q], 0)
  /\ KeysIn([K EXCEPT ![p] = NoKey], [D EXCEPT ![f] = K[p]], [o EXCEPT ![f] = q])
       = KeysIn(K, D, o)

\* A head without a chain goes into the chain of another, in an entry that was in none.
LEMMA ToChain ==
  ASSUME NEW K, NEW D, NEW o, Keyed(K, D, o, 0),
         NEW p \in Place, K[p] # NoKey, \A e \in Ids : o[e] # p,
         NEW f \in Ids, ~Bucketed(o[f]),
         NEW q \in Place, K[q] # NoKey, p # q, AtHome(q, K[p])
  PROVE  BecomesChained(K, D, o, p, f, q)
<1> DEFINE u == [o EXCEPT ![f] = q]
           L == [K EXCEPT ![p] = NoKey]
           E == [D EXCEPT ![f] = K[p]]
<1>1. /\ u \in [Ids -> Place] /\ \A e \in Ids : u[e] = IF e = f THEN q ELSE o[e]
  BY DEF Keyed
<1>2. K[p] \in Keys /\ Bucketed(q)
  BY KeysAssumption DEF Keyed, AtHome, Bucketed
<1>3. L \in [Place -> Keys \cup {NoKey}] /\ \A s \in Place : L[s] = IF s = p THEN NoKey ELSE K[s]
  BY DEF Keyed
<1>4. E \in [Ids -> Keys \cup {NoKey, Junk}]
      /\ \A e \in Ids : E[e] = IF e = f THEN K[p] ELSE D[e]
  BY <1>2 DEF Keyed
<1> HIDE DEF u, L, E
<1>5. \A e \in Ids : Bucketed(u[e]) <=> e = f \/ Bucketed(o[e])
  BY <1>1, <1>2
<1>6. \A s \in Place : L[s] # NoKey => AtHome(s, L[s])
  BY <1>3 DEF Keyed
<1>7. \A e \in Ids : Bucketed(u[e]) => /\ L[u[e]] # NoKey
                                      /\ E[e] \in Keys /\ AtHome(u[e], E[e])
  <2> SUFFICES ASSUME NEW e \in Ids, Bucketed(u[e])
               PROVE  L[u[e]] # NoKey /\ E[e] \in Keys /\ AtHome(u[e], E[e])
    OBVIOUS
  <2>1. CASE e = f
    BY <2>1, <1>1, <1>2, <1>3, <1>4
  <2>2. CASE e # f
    <3>1. u[e] = o[e] /\ Bucketed(o[e]) /\ o[e] # p /\ o[e] \in Place /\ E[e] = D[e] /\ e # 0
      BY <2>2, <1>1, <1>4, NotIds DEF Keyed
    <3>. QED
      BY <3>1, <1>3 DEF Keyed
  <2>. QED
    BY <2>1, <2>2
<1>8. \A t, s \in Place : L[t] # NoKey /\ L[t] = L[s] => t = s
  BY <1>3 DEF Keyed
<1>9. ASSUME NEW e \in Ids, NEW g \in Ids, Bucketed(u[e]), Bucketed(u[g]), E[e] = E[g]
      PROVE  e = g
  <2>1. \A h \in Ids : h # f /\ Bucketed(u[h]) => Bucketed(o[h]) /\ E[h] = D[h] /\ E[h] # K[p]
    BY <1>4, <1>5, <1>2 DEF Keyed
  <2>2. E[f] = K[p]
    BY <1>4
  <2>. QED
    BY <2>1, <2>2, <1>9 DEF Keyed
<1>10. ASSUME NEW s \in Place, NEW e \in Ids, Bucketed(u[e]), E[e] = L[s]
       PROVE  L[s] = NoKey
  BY <1>2, <1>3, <1>4, <1>5, <1>10 DEF Keyed
<1>11. Keyed(L, E, u, 0)
  BY <1>1, <1>3, <1>4, <1>6, <1>7, <1>8, <1>9, <1>10 DEF Keyed
<1>12. ASSUME NEW k \in Keys
       PROVE  k \in KeysIn(L, E, u) <=> k \in KeysIn(K, D, o)
  <2>1. ASSUME k \in KeysIn(L, E, u) PROVE k \in KeysIn(K, D, o)
    <3>1. CASE \E s \in Place : L[s] = k
      BY <3>1, <1>3, KeysAssumption DEF KeysIn
    <3>2. CASE \E e \in Ids : Bucketed(u[e]) /\ E[e] = k
      BY <3>2, <1>4, <1>5 DEF KeysIn
    <3>. QED
      BY <2>1, <3>1, <3>2 DEF KeysIn
  <2>2. ASSUME k \in KeysIn(K, D, o) PROVE k \in KeysIn(L, E, u)
    <3>1. CASE k = K[p]
      BY <3>1, <1>4, <1>5 DEF KeysIn
    <3>2. CASE k # K[p] /\ \E s \in Place : K[s] = k
      BY <3>2, <1>3 DEF KeysIn
    <3>3. CASE \E e \in Ids : Bucketed(o[e]) /\ D[e] = k
      BY <3>3, <1>4, <1>5 DEF KeysIn
    <3>. QED
      BY <2>2, <3>1, <3>2, <3>3 DEF KeysIn
  <2>. QED
    BY <2>1, <2>2
<1>13. KeysIn(L, E, u) = KeysIn(K, D, o)
  BY <1>12 DEF KeysIn
<1>. QED
  BY <1>11, <1>13 DEF u, L, E, BecomesChained

HeadShifts(K, D, o, p, q) ==
  /\ Keyed([K EXCEPT ![p] = NoKey, ![q] = K[p]], D, o, 0)
  /\ KeysIn([K EXCEPT ![p] = NoKey, ![q] = K[p]], D, o) = KeysIn(K, D, o)

\* A head without a chain becomes the head of a bucket that had none.
LEMMA HeadMoves ==
  ASSUME NEW K, NEW D, NEW o, Keyed(K, D, o, 0),
         NEW p \in Place, K[p] # NoKey, \A e \in Ids : o[e] # p,
         NEW q \in Place, K[q] = NoKey, AtHome(q, K[p])
  PROVE  HeadShifts(K, D, o, p, q)
<1> DEFINE L == [K EXCEPT ![p] = NoKey, ![q] = K[p]]
<1>1. K[p] \in Keys /\ p # q
  BY DEF Keyed
<1>2. L \in [Place -> Keys \cup {NoKey}]
      /\ \A s \in Place : L[s] = IF s = q THEN K[p] ELSE IF s = p THEN NoKey ELSE K[s]
  BY <1>1 DEF Keyed
<1> HIDE DEF L
<1>3. \A s \in Place : L[s] # NoKey => AtHome(s, L[s])
  BY <1>2 DEF Keyed
<1>4. \A e \in Ids : Bucketed(o[e]) => L[o[e]] # NoKey
  BY <1>2 DEF Keyed
<1>5. \A t, s \in Place : L[t] # NoKey /\ L[t] = L[s] => t = s
  BY <1>1, <1>2 DEF Keyed
<1>6. \A s \in Place, e \in Ids : Bucketed(o[e]) /\ D[e] = L[s] => L[s] = NoKey
  BY <1>2 DEF Keyed
<1>7. Keyed(L, D, o, 0)
  BY <1>2, <1>3, <1>4, <1>5, <1>6 DEF Keyed
<1>8. ASSUME NEW k \in Keys
      PROVE  (\E s \in Place : L[s] = k) <=> (\E s \in Place : K[s] = k)
  BY <1>1, <1>2, KeysAssumption
<1>9. KeysIn(L, D, o) = KeysIn(K, D, o)
  BY <1>8 DEF KeysIn
<1>. QED
  BY <1>7, <1>9 DEF L, HeadShifts

HeadLeaves(K, D, o, p) ==
  /\ Keyed([K EXCEPT ![p] = NoKey], D, o, 0)
  /\ KeysIn([K EXCEPT ![p] = NoKey], D, o) = KeysIn(K, D, o) \ {K[p]}

\* A head without a chain goes.
LEMMA HeadGoes ==
  ASSUME NEW K, NEW D, NEW o, Keyed(K, D, o, 0),
         NEW p \in Place, \A e \in Ids : o[e] # p
  PROVE  HeadLeaves(K, D, o, p)
<1> DEFINE L == [K EXCEPT ![p] = NoKey]
<1>2. L \in [Place -> Keys \cup {NoKey}]
      /\ \A s \in Place : L[s] = IF s = p THEN NoKey ELSE K[s]
  BY DEF Keyed
<1> HIDE DEF L
<1>3. \A s \in Place : L[s] # NoKey => AtHome(s, L[s])
  BY <1>2 DEF Keyed
<1>4. \A e \in Ids : Bucketed(o[e]) => L[o[e]] # NoKey
  BY <1>2 DEF Keyed
<1>5. \A t, s \in Place : L[t] # NoKey /\ L[t] = L[s] => t = s
  BY <1>2 DEF Keyed
<1>6. \A s \in Place, e \in Ids : Bucketed(o[e]) /\ D[e] = L[s] => L[s] = NoKey
  BY <1>2 DEF Keyed
<1>7. Keyed(L, D, o, 0)
  BY <1>2, <1>3, <1>4, <1>5, <1>6 DEF Keyed
<1>8. ASSUME NEW k \in Keys
      PROVE  k \in KeysIn(L, D, o) <=> k \in KeysIn(K, D, o) /\ k # K[p]
  <2>1. (\E s \in Place : L[s] = k) <=> (\E s \in Place : K[s] = k) /\ k # K[p]
    BY <1>2, KeysAssumption DEF Keyed
  <2>2. (\E e \in Ids : Bucketed(o[e]) /\ D[e] = k) => k # K[p]
    BY KeysAssumption DEF Keyed
  <2>. QED
    BY <2>1, <2>2 DEF KeysIn
<1>9. KeysIn(L, D, o) = KeysIn(K, D, o) \ {K[p]}
  BY <1>8 DEF KeysIn
<1>. QED
  BY <1>7, <1>9 DEF L, HeadLeaves

EntryLeaves(K, D, o, e, r) ==
  /\ Keyed(K, [D EXCEPT ![e] = NoKey], [o EXCEPT ![e] = r], 0)
  /\ KeysIn(K, [D EXCEPT ![e] = NoKey], [o EXCEPT ![e] = r])
       = KeysIn(K, D, o) \ {D[e]}

\* An entry goes out of its chain.
LEMMA EntryGoes ==
  ASSUME NEW K, NEW D, NEW o, Keyed(K, D, o, 0),
         NEW e \in Ids, Bucketed(o[e]), NEW r \in Place, ~Bucketed(r)
  PROVE  EntryLeaves(K, D, o, e, r)
<1> DEFINE u == [o EXCEPT ![e] = r]
           E == [D EXCEPT ![e] = NoKey]
<1>1. u \in [Ids -> Place] /\ \A f \in Ids : u[f] = IF f = e THEN r ELSE o[f]
  BY DEF Keyed
<1>2. E \in [Ids -> Keys \cup {NoKey, Junk}]
      /\ \A f \in Ids : E[f] = IF f = e THEN NoKey ELSE D[f]
  BY DEF Keyed
<1> HIDE DEF u, E
<1>3. \A f \in Ids : Bucketed(u[f]) <=> f # e /\ Bucketed(o[f])
  BY <1>1
<1>4. \A f \in Ids : Bucketed(u[f]) => /\ K[u[f]] # NoKey
                                      /\ E[f] \in Keys /\ AtHome(u[f], E[f])
  BY <1>1, <1>2, <1>3, NotIds DEF Keyed
<1>5. \A f, g \in Ids : Bucketed(u[f]) /\ Bucketed(u[g]) /\ E[f] = E[g] => f = g
  BY <1>2, <1>3 DEF Keyed
<1>6. \A p \in Place, f \in Ids : Bucketed(u[f]) /\ E[f] = K[p] => K[p] = NoKey
  BY <1>2, <1>3 DEF Keyed
<1>7. Keyed(K, E, u, 0)
  BY <1>1, <1>2, <1>4, <1>5, <1>6 DEF Keyed
<1>8. ASSUME NEW k \in Keys
      PROVE  k \in KeysIn(K, E, u) <=> k \in KeysIn(K, D, o) /\ k # D[e]
  <2>1. (\E f \in Ids : Bucketed(u[f]) /\ E[f] = k)
          <=> (\E f \in Ids : Bucketed(o[f]) /\ D[f] = k) /\ k # D[e]
    BY <1>2, <1>3 DEF Keyed
  <2>2. (\E p \in Place : K[p] = k) => k # D[e]
    BY KeysAssumption DEF Keyed
  <2>. QED
    BY <2>1, <2>2 DEF KeysIn
<1>9. KeysIn(K, E, u) = KeysIn(K, D, o) \ {D[e]}
  BY <1>8 DEF KeysIn
<1>. QED
  BY <1>7, <1>9 DEF u, E, EntryLeaves

EntryJoins(K, D, o, f, v, q) ==
  /\ Keyed(K, [D EXCEPT ![f] = v], [o EXCEPT ![f] = q], f)
  /\ KeysIn(K, [D EXCEPT ![f] = v], [o EXCEPT ![f] = q]) = KeysIn(K, D, o)

\* An entry without its node goes into a chain.
LEMMA EntryComes ==
  ASSUME NEW K, NEW D, NEW o, Keyed(K, D, o, 0),
         NEW f \in Ids, ~Bucketed(o[f]), NEW v \in {NoKey, Junk},
         NEW q \in Place, K[q] # NoKey, Bucketed(q)
  PROVE  EntryJoins(K, D, o, f, v, q)
<1> DEFINE u == [o EXCEPT ![f] = q]
           E == [D EXCEPT ![f] = v]
<1>1. u \in [Ids -> Place] /\ \A e \in Ids : u[e] = IF e = f THEN q ELSE o[e]
  BY DEF Keyed
<1>2. E \in [Ids -> Keys \cup {NoKey, Junk}]
      /\ \A e \in Ids : E[e] = IF e = f THEN v ELSE D[e]
  BY DEF Keyed
<1> HIDE DEF u, E
<1>3. \A e \in Ids : Bucketed(u[e]) <=> e = f \/ Bucketed(o[e])
  BY <1>1
<1>4. v \notin Keys
  BY KeysAssumption
<1>5. \A e \in Ids : Bucketed(u[e]) => /\ K[u[e]] # NoKey
                                      /\ (e # f => E[e] \in Keys /\ AtHome(u[e], E[e]))
  BY <1>1, <1>2, <1>3, NotIds DEF Keyed
<1>6. \A e, g \in Ids : Bucketed(u[e]) /\ Bucketed(u[g]) /\ E[e] = E[g] => e = g
  BY <1>2, <1>3, <1>4, NotIds DEF Keyed
<1>7. \A p \in Place, e \in Ids : Bucketed(u[e]) /\ E[e] = K[p] => K[p] = NoKey
  BY <1>2, <1>3, <1>4 DEF Keyed
<1>8. Keyed(K, E, u, f)
  BY <1>1, <1>2, <1>3, <1>4, <1>5, <1>6, <1>7 DEF Keyed
<1>9. \A k \in Keys : (\E e \in Ids : Bucketed(u[e]) /\ E[e] = k)
                        <=> (\E e \in Ids : Bucketed(o[e]) /\ D[e] = k)
  BY <1>2, <1>3, <1>4
<1>10. KeysIn(K, E, u) = KeysIn(K, D, o)
  BY <1>9 DEF KeysIn
<1>. QED
  BY <1>8, <1>10 DEF u, E, EntryJoins

EntryFills(K, D, o, x, k) ==
  /\ Keyed(K, [D EXCEPT ![x] = k], o, 0)
  /\ KeysIn(K, [D EXCEPT ![x] = k], o) = KeysIn(K, D, o) \cup {k}

\* The node is stored in it.
LEMMA EntryFilled ==
  ASSUME NEW K, NEW D, NEW o, NEW x \in Ids, Keyed(K, D, o, x),
         NEW k \in Keys, k \notin KeysIn(K, D, o), AtHome(o[x], k)
  PROVE  EntryFills(K, D, o, x, k)
<1> DEFINE E == [D EXCEPT ![x] = k]
<1>1. E \in [Ids -> Keys \cup {NoKey, Junk}]
      /\ \A e \in Ids : E[e] = IF e = x THEN k ELSE D[e]
  BY DEF Keyed
<1>2. x # 0 /\ D[x] \notin Keys /\ Bucketed(o[x])
  BY NotIds DEF Keyed
<1>3. /\ \A p \in Place : K[p] # k
      /\ \A e \in Ids : Bucketed(o[e]) => D[e] # k
  BY DEF KeysIn
<1> HIDE DEF E
<1>4. \A e \in Ids : Bucketed(o[e]) => /\ K[o[e]] # NoKey
                                      /\ E[e] \in Keys /\ AtHome(o[e], E[e])
  BY <1>1, <1>2 DEF Keyed
<1>5. \A e, g \in Ids : Bucketed(o[e]) /\ Bucketed(o[g]) /\ E[e] = E[g] => e = g
  BY <1>1, <1>3 DEF Keyed
<1>6. \A p \in Place, e \in Ids : Bucketed(o[e]) /\ E[e] = K[p] => K[p] = NoKey
  BY <1>1, <1>3 DEF Keyed
<1>7. Keyed(K, E, o, 0)
  BY <1>1, <1>4, <1>5, <1>6 DEF Keyed
<1>8. \A j \in Keys : (\E e \in Ids : Bucketed(o[e]) /\ E[e] = j)
                        <=> (\E e \in Ids : Bucketed(o[e]) /\ D[e] = j) \/ j = k
  BY <1>1, <1>2
<1>9. KeysIn(K, E, o) = KeysIn(K, D, o) \cup {k}
  BY <1>8 DEF KeysIn
<1>. QED
  BY <1>7, <1>9 DEF E, EntryFills

HeadJoins(K, D, o, p, k) ==
  /\ Keyed([K EXCEPT ![p] = k], D, o, 0)
  /\ KeysIn([K EXCEPT ![p] = k], D, o) = KeysIn(K, D, o) \cup {k}

\* The node is stored in the head of an empty bucket.
LEMMA HeadComes ==
  ASSUME NEW K, NEW D, NEW o, Keyed(K, D, o, 0),
         NEW p \in Place, K[p] = NoKey,
         NEW k \in Keys, k \notin KeysIn(K, D, o), AtHome(p, k)
  PROVE  HeadJoins(K, D, o, p, k)
<1> DEFINE L == [K EXCEPT ![p] = k]
<1>1. L \in [Place -> Keys \cup {NoKey}]
      /\ \A s \in Place : L[s] = IF s = p THEN k ELSE K[s]
  BY DEF Keyed
<1>2. /\ \A s \in Place : K[s] # k
      /\ \A e \in Ids : Bucketed(o[e]) => D[e] # k
      /\ k # NoKey
  BY KeysAssumption DEF KeysIn
<1> HIDE DEF L
<1>3. \A s \in Place : L[s] # NoKey => AtHome(s, L[s])
  BY <1>1 DEF Keyed
<1>4. \A e \in Ids : Bucketed(o[e]) => L[o[e]] # NoKey
  BY <1>1, <1>2 DEF Keyed
<1>5. \A t, s \in Place : L[t] # NoKey /\ L[t] = L[s] => t = s
  BY <1>1, <1>2 DEF Keyed
<1>6. \A s \in Place, e \in Ids : Bucketed(o[e]) /\ D[e] = L[s] => L[s] = NoKey
  BY <1>1, <1>2 DEF Keyed
<1>7. Keyed(L, D, o, 0)
  BY <1>1, <1>3, <1>4, <1>5, <1>6 DEF Keyed
<1>8. \A j \in Keys : (\E s \in Place : L[s] = j) <=> (\E s \in Place : K[s] = j) \/ j = k
  BY <1>1, KeysAssumption
<1>9. KeysIn(L, D, o) = KeysIn(K, D, o) \cup {k}
  BY <1>8 DEF KeysIn
<1>. QED
  BY <1>7, <1>9 DEF L, HeadJoins

\* Only what is in the chains matters.
LEMMA SameChains ==
  ASSUME NEW K, NEW D, NEW o, NEW u, Keyed(K, D, o, 0), u \in [Ids -> Place],
         \A e \in Ids : u[e] = o[e] \/ (~Bucketed(u[e]) /\ ~Bucketed(o[e]))
  PROVE  Keyed(K, D, u, 0) /\ KeysIn(K, D, u) = KeysIn(K, D, o)
<1>1. \A e \in Ids : Bucketed(u[e]) <=> Bucketed(o[e])
  OBVIOUS
<1>2. Keyed(K, D, u, 0)
  BY <1>1 DEF Keyed
<1>3. KeysIn(K, D, u) = KeysIn(K, D, o)
  BY <1>1 DEF KeysIn
<1>. QED
  BY <1>2, <1>3
-----------------------------------------------------------------------------
(***************************************************************************)
(* Counting.                                                               *)
(***************************************************************************)
OneToOne(f, S, T) == /\ f \in [S -> T]
                     /\ \A a, b \in S : f[a] = f[b] => a = b
                     /\ \A t \in T : \E a \in S : f[a] = t

\* Sets that correspond one to one are of one size.
LEMMA SameSize ==
  ASSUME NEW S, NEW T, NEW f, OneToOne(f, S, T), IsFiniteSet(T)
  PROVE  IsFiniteSet(S) /\ Cardinality(S) = Cardinality(T)
<1>1. f \in Injection(S, T)
  BY DEF OneToOne, Injection, IsInjective
<1>2. f \in Surjection(S, T)
  BY DEF OneToOne, Surjection
<1>. QED
  BY <1>1, <1>2, FS_Injection

\* The size of two sets that are apart.
LEMMA Disjoint ==
  ASSUME NEW S, NEW T, IsFiniteSet(S), IsFiniteSet(T), S \cap T = {}
  PROVE  /\ IsFiniteSet(S \cup T) /\ Cardinality(S \cup T) \in Nat
         /\ Cardinality(S) \in Nat /\ Cardinality(T) \in Nat
         /\ Cardinality(S \cup T) = Cardinality(S) + Cardinality(T)
<1>1. Cardinality(S) \in Nat /\ Cardinality(T) \in Nat
  BY FS_CardinalityType
<1>2. IsFiniteSet(S \cup T)
      /\ Cardinality(S \cup T) = Cardinality(S) + Cardinality(T) - Cardinality(S \cap T)
  BY FS_Union
<1>3. Cardinality(S \cap T) = 0
  BY FS_EmptySet
<1>. QED
  BY <1>1, <1>2, <1>3

Headed(K) == {p \in Place : K[p] # NoKey}
InChains(o) == {e \in Ids : Bucketed(o[e])}

\* The overflow entries are finitely many,
LEMMA FiniteIds == \A T \in SUBSET Ids : IsFiniteSet(T) /\ Cardinality(T) \in Nat
<1>1. IsFiniteSet(Ids)
  BY FS_Interval, BoundAssumption DEF Ids
<1>. QED
  BY <1>1, FS_Subset, FS_CardinalityType

\* and so are the keys.
LEMMA FiniteKeys == \A T \in SUBSET Keys : /\ IsFiniteSet(T) /\ Cardinality(T) \in Nat
                                          /\ Cardinality(T) <= Cardinality(Keys)
BY KeysAssumption, FS_Subset, FS_CardinalityType

\* There are as many keys as heads and chained entries, but the unfilled one.
LEMMA CountKeys ==
  ASSUME NEW K, NEW D, NEW o, NEW x, Keyed(K, D, o, x)
  PROVE  /\ IsFiniteSet(Headed(K)) /\ Cardinality(Headed(K)) \in Nat
         /\ Cardinality(InChains(o)) \in Nat /\ Cardinality(KeysIn(K, D, o)) \in Nat
         /\ Cardinality(KeysIn(K, D, o)) + (IF x = 0 THEN 0 ELSE 1)
               = Cardinality(Headed(K)) + Cardinality(InChains(o))
<1> DEFINE H == Headed(K)
           C == InChains(o)
           B == C \ {x}
           HK == {K[p] : p \in H}
           BK == {D[e] : e \in B}
<1>1. HK \subseteq Keys /\ BK \subseteq Keys
  BY DEF Keyed, Headed, InChains
<1>2. IsFiniteSet(HK) /\ IsFiniteSet(BK)
  BY <1>1, FiniteKeys
<1>3. IsFiniteSet(H) /\ Cardinality(H) = Cardinality(HK)
  <2> DEFINE f == [p \in H |-> K[p]]
  <2>1. OneToOne(f, H, HK)
    BY DEF OneToOne, Keyed, Headed
  <2> HIDE DEF f, H, HK
  <2>. QED
    BY <2>1, <1>2, SameSize
<1>4. IsFiniteSet(B) /\ Cardinality(B) = Cardinality(BK)
  <2> DEFINE f == [e \in B |-> D[e]]
  <2>1. OneToOne(f, B, BK)
    BY DEF OneToOne, Keyed, InChains
  <2> HIDE DEF f, B, BK
  <2>. QED
    BY <2>1, <1>2, SameSize
<1>5. HK \cap BK = {}
  BY DEF Keyed, Headed, InChains
<1>6. KeysIn(K, D, o) = HK \cup BK
  <2>1. ASSUME NEW k \in KeysIn(K, D, o) PROVE k \in HK \cup BK
    <3>1. CASE \E p \in Place : K[p] = k
      <4>1. PICK p \in Place : K[p] = k
        BY <3>1
      <4>2. p \in H
        BY <4>1, KeysAssumption DEF Headed, KeysIn
      <4>. QED
        BY <4>1, <4>2
    <3>2. CASE \E e \in Ids : Bucketed(o[e]) /\ D[e] = k
      <4>1. PICK e \in Ids : Bucketed(o[e]) /\ D[e] = k
        BY <3>2
      <4>2. e # x
        BY <4>1, NotIds DEF Keyed, KeysIn
      <4>. QED
        BY <4>1, <4>2 DEF InChains
    <3>. QED
      BY <3>1, <3>2 DEF KeysIn
  <2>2. ASSUME NEW k \in HK \cup BK PROVE k \in KeysIn(K, D, o)
    <3>1. k \in Keys
      BY <1>1
    <3>. QED
      BY <3>1 DEF KeysIn, Headed, InChains
  <2>. QED
    BY <2>1, <2>2
<1>7. C \subseteq Ids /\ (x # 0 => x \in C) /\ (x = 0 => x \notin C)
  BY NotIds DEF Keyed, InChains
<1> HIDE DEF H, C, HK, BK, B
<1>8. IsFiniteSet(C) /\ Cardinality(C) \in Nat
  BY <1>7, FiniteIds
<1>9. Cardinality(B) = IF x = 0 THEN Cardinality(C) ELSE Cardinality(C) - 1
  BY <1>7, <1>8, FS_RemoveElement DEF B
<1>10. /\ Cardinality(HK) \in Nat /\ Cardinality(BK) \in Nat
       /\ Cardinality(HK \cup BK) = Cardinality(HK) + Cardinality(BK)
  BY <1>2, <1>5, Disjoint
<1>11. Cardinality(KeysIn(K, D, o)) = Cardinality(H) + Cardinality(B)
  BY <1>3, <1>4, <1>6, <1>10
<1>12. Cardinality(H) \in Nat /\ Cardinality(KeysIn(K, D, o)) \in Nat
  BY <1>3, <1>4, <1>10, <1>11
<1>. QED
  BY <1>3, <1>8, <1>9, <1>11, <1>12 DEF H, C

-----------------------------------------------------------------------------
(***************************************************************************)
(* Tables, and what they and the heap come to as F, N, K and D.            *)
(***************************************************************************)
Buckets == [data : Keys \cup {NoKey}, next : Links]
Heaps == [Ids -> [data : Keys \cup {NoKey, Junk}, next : Links]]

IsTable(t) ==
  /\ t = [n |-> t.n, bucket |-> t.bucket, used |-> t.used, free |-> t.free]
  /\ t.n = 0 \/ IsSize(t.n)
  /\ t.bucket \in [0..(t.n - 1) -> Buckets]
  /\ t.free \in Links

Cell(a, b, p) == IF p[1] = a.n /\ p[2] < a.n THEN a.bucket[p[2]]
                 ELSE IF p[1] = b.n /\ p[2] < b.n THEN b.bucket[p[2]]
                 ELSE Empty

HeadsOf(a, b) == [p \in Place |-> Cell(a, b, p).data]
NextsOf(a, b) == [p \in Place |-> Cell(a, b, p).next]

\* w is the place that is walked, if there is one, and y the next entry there.
Firsts(a, b, f, w, y) == [NextsOf(a, b) EXCEPT ![FreePlace] = f, ![w] = y]
NoWalk == <<0, 2>>

NextOf(h) == [e \in Ids |-> h[e].next]
DataOf(h) == [e \in Ids |-> h[e].data]

\* The three places that are not buckets are three.
LEMMA PlaceFacts ==
  /\ FreePlace \in Place \ {Nowhere} /\ NoWalk \in Place \ {Nowhere} /\ Nowhere \in Place
  /\ FreePlace # NoWalk /\ ~Bucketed(FreePlace) /\ ~Bucketed(Nowhere) /\ ~Bucketed(NoWalk)
<1>1. FreePlace \in Place /\ NoWalk \in Place /\ Nowhere \in Place
  BY DEF FreePlace, NoWalk, Nowhere, Place
<1>2. FreePlace # Nowhere /\ NoWalk # Nowhere /\ FreePlace # NoWalk
  BY DEF FreePlace, NoWalk, Nowhere
<1>3. ~Bucketed(FreePlace) /\ ~Bucketed(Nowhere) /\ ~Bucketed(NoWalk)
  BY DEF FreePlace, NoWalk, Nowhere, Bucketed
<1>. QED
  BY <1>1, <1>2, <1>3

\* The place of a bucket is none of them.
LEMMA BucketPlace ==
  ASSUME NEW n \in Nat \ {0}, NEW i \in Nat
  PROVE  /\ <<n, i>> \in Place \ {Nowhere} /\ Bucketed(<<n, i>>)
         /\ <<n, i>> # FreePlace /\ <<n, i>> # NoWalk
<1>1. <<n, i>> \in Place
  BY DEF Place
<1>2. Bucketed(<<n, i>>)
  BY DEF Bucketed
<1>. QED
  BY <1>1, <1>2, PlaceFacts

\* An empty bucket is a bucket.
LEMMA EmptyBucket == Empty \in Buckets /\ 0 \in Links /\ Empty.data = NoKey /\ Empty.next = 0
BY BoundAssumption DEF Empty, Buckets, Links

\* A size is at least 11.
LEMMA SizeFacts == \A n : IsSize(n) => n \in Nat /\ n \in Nat \ {0} /\ n >= 11 /\ n # 0
BY DEF IsSize

\* The table before hash_initialize has no bucket.
LEMMA NoTableIs ==
  /\ IsTable(NoTable) /\ NoTable.n = 0 /\ NoTable.free = 0 /\ NoTable.used = 0
<1>1. /\ NoTable.n = 0 /\ NoTable.free = 0 /\ NoTable.used = 0
      /\ NoTable = [n |-> NoTable.n, bucket |-> NoTable.bucket,
                    used |-> NoTable.used, free |-> NoTable.free]
      /\ NoTable.bucket = [i \in 0..(0 - 1) |-> Empty]
  BY DEF NoTable, Table
<1>2. NoTable.bucket \in [0..(0 - 1) -> Buckets]
  BY <1>1, EmptyBucket
<1>. QED
  BY <1>1, <1>2, EmptyBucket DEF IsTable

\* A new table has empty buckets, and the free list it is given.
LEMMA NewTableIs ==
  ASSUME NEW n, IsSize(n), NEW f \in Links
  PROVE  /\ IsTable(Table(n, f)) /\ Table(n, f).n = n /\ Table(n, f).free = f
         /\ Table(n, f).used = 0
         /\ \A i \in 0..(n - 1) : Table(n, f).bucket[i] = Empty
<1> DEFINE t == Table(n, f)
<1>1. /\ t.n = n /\ t.free = f /\ t.used = 0
      /\ t = [n |-> t.n, bucket |-> t.bucket, used |-> t.used, free |-> t.free]
      /\ t.bucket = [i \in 0..(n - 1) |-> Empty]
  BY DEF Table
<1> HIDE DEF t
<1>2. t.bucket \in [0..(n - 1) -> Buckets]
  BY <1>1, EmptyBucket
<1>3. IsTable(t)
  BY <1>1, <1>2 DEF IsTable
<1>. QED
  BY <1>1, <1>3 DEF t

\* The bucket at a place is one of either table, or empty.
LEMMA CellIs ==
  ASSUME NEW a, NEW b, IsTable(a), IsTable(b)
  PROVE  /\ \A p \in Place : Cell(a, b, p) \in Buckets
         /\ a.n \in Nat /\ b.n \in Nat
<1>1. a.n \in Nat /\ b.n \in Nat
  BY SizeFacts DEF IsTable
<1>2. ASSUME NEW p \in Place PROVE Cell(a, b, p) \in Buckets
  <2>1. p[1] \in Nat /\ p[2] \in Nat
    BY DEF Place
  <2>. QED
    BY <1>1, <2>1, EmptyBucket DEF Cell, IsTable
<1>. QED
  BY <1>1, <1>2

\* The types of the heads and of the first links,
LEMMA ViewTypes ==
  ASSUME NEW a, NEW b, IsTable(a), IsTable(b)
  PROVE  /\ HeadsOf(a, b) \in [Place -> Keys \cup {NoKey}]
         /\ NextsOf(a, b) \in [Place -> Links]
BY CellIs DEF HeadsOf, NextsOf, Buckets

\* What the views say of a bucket of the first table, or of the second.
LEMMA ViewAt ==
  ASSUME NEW a, NEW b, IsTable(a), IsTable(b), a.n # b.n
  PROVE  /\ \A i \in 0..(a.n - 1) : /\ <<a.n, i>> \in Place
                                    /\ HeadsOf(a, b)[<<a.n, i>>] = a.bucket[i].data
                                    /\ NextsOf(a, b)[<<a.n, i>>] = a.bucket[i].next
         /\ \A i \in 0..(b.n - 1) : /\ <<b.n, i>> \in Place
                                    /\ HeadsOf(a, b)[<<b.n, i>>] = b.bucket[i].data
                                    /\ NextsOf(a, b)[<<b.n, i>>] = b.bucket[i].next
         /\ \A p \in Place : \/ \E i \in 0..(a.n - 1) : p = <<a.n, i>>
                             \/ \E i \in 0..(b.n - 1) : p = <<b.n, i>>
                             \/ HeadsOf(a, b)[p] = NoKey /\ NextsOf(a, b)[p] = 0
<1>1. a.n \in Nat /\ b.n \in Nat
  BY CellIs
<1>2. ASSUME NEW i \in 0..(a.n - 1)
      PROVE  /\ <<a.n, i>> \in Place
             /\ HeadsOf(a, b)[<<a.n, i>>] = a.bucket[i].data
             /\ NextsOf(a, b)[<<a.n, i>>] = a.bucket[i].next
  <2>1. <<a.n, i>> \in Place /\ i < a.n
    BY <1>1 DEF Place
  <2>2. Cell(a, b, <<a.n, i>>) = a.bucket[i]
    BY <2>1 DEF Cell
  <2>. QED
    BY <2>1, <2>2 DEF HeadsOf, NextsOf
<1>3. ASSUME NEW i \in 0..(b.n - 1)
      PROVE  /\ <<b.n, i>> \in Place
             /\ HeadsOf(a, b)[<<b.n, i>>] = b.bucket[i].data
             /\ NextsOf(a, b)[<<b.n, i>>] = b.bucket[i].next
  <2>1. <<b.n, i>> \in Place /\ i < b.n
    BY <1>1 DEF Place
  <2>2. Cell(a, b, <<b.n, i>>) = b.bucket[i]
    BY <2>1 DEF Cell
  <2>. QED
    BY <2>1, <2>2 DEF HeadsOf, NextsOf
<1>4. ASSUME NEW p \in Place
      PROVE  \/ \E i \in 0..(a.n - 1) : p = <<a.n, i>>
             \/ \E i \in 0..(b.n - 1) : p = <<b.n, i>>
             \/ HeadsOf(a, b)[p] = NoKey /\ NextsOf(a, b)[p] = 0
  <2>1. p[1] \in Nat /\ p[2] \in Nat /\ p = <<p[1], p[2]>>
    BY DEF Place
  <2>2. CASE p[1] = a.n /\ p[2] < a.n
    <3>1. p[2] \in 0..(a.n - 1)
      BY <1>1, <2>1, <2>2
    <3>. QED
      BY <2>1, <2>2, <3>1
  <2>3. CASE p[1] = b.n /\ p[2] < b.n
    <3>1. p[2] \in 0..(b.n - 1)
      BY <1>1, <2>1, <2>3
    <3>. QED
      BY <2>1, <2>3, <3>1
  <2>4. CASE ~(p[1] = a.n /\ p[2] < a.n) /\ ~(p[1] = b.n /\ p[2] < b.n)
    <3>1. Cell(a, b, p) = Empty
      BY <2>4 DEF Cell
    <3>. QED
      BY <3>1, EmptyBucket DEF HeadsOf, NextsOf
  <2>. QED
    BY <2>2, <2>3, <2>4
<1>. QED
  BY <1>2, <1>3, <1>4

\* The two tables may be named in either order.
LEMMA ViewSwap ==
  ASSUME NEW a, NEW b, a.n # b.n
  PROVE  HeadsOf(a, b) = HeadsOf(b, a) /\ NextsOf(a, b) = NextsOf(b, a)
<1>1. \A p : Cell(a, b, p) = Cell(b, a, p)
  BY DEF Cell
<1>. QED
  BY <1>1 DEF HeadsOf, NextsOf

\* The views depend on the buckets alone.
LEMMA ViewSame ==
  ASSUME NEW a, NEW b, NEW t, t.n = a.n, t.bucket = a.bucket
  PROVE  /\ HeadsOf(t, b) = HeadsOf(a, b) /\ NextsOf(t, b) = NextsOf(a, b)
         /\ HeadsOf(b, t) = HeadsOf(b, a) /\ NextsOf(b, t) = NextsOf(b, a)
<1>1. \A p : Cell(t, b, p) = Cell(a, b, p) /\ Cell(b, t, p) = Cell(b, a, p)
  BY DEF Cell
<1>. QED
  BY <1>1 DEF HeadsOf, NextsOf

\* A bucket is changed.
LEMMA ViewEdit ==
  ASSUME NEW a, NEW b, IsTable(a), IsTable(b), a.n # b.n,
         NEW i \in 0..(a.n - 1), NEW r \in Buckets,
         NEW t, t.n = a.n, t.bucket = [a.bucket EXCEPT ![i] = r]
  PROVE  /\ HeadsOf(t, b) = [HeadsOf(a, b) EXCEPT ![<<a.n, i>>] = r.data]
         /\ NextsOf(t, b) = [NextsOf(a, b) EXCEPT ![<<a.n, i>>] = r.next]
         /\ HeadsOf(b, t) = [HeadsOf(b, a) EXCEPT ![<<a.n, i>>] = r.data]
         /\ NextsOf(b, t) = [NextsOf(b, a) EXCEPT ![<<a.n, i>>] = r.next]
<1>1. a.n \in Nat /\ <<a.n, i>> \in Place
  BY CellIs DEF Place
<1>2. ASSUME NEW p \in Place
      PROVE  Cell(t, b, p) = IF p = <<a.n, i>> THEN r ELSE Cell(a, b, p)
  <2>1. p[1] \in Nat /\ p[2] \in Nat /\ p = <<p[1], p[2]>>
    BY DEF Place
  <2>2. CASE p[1] = a.n /\ p[2] < a.n
    <3>1. p[2] \in 0..(a.n - 1)
      BY <1>1, <2>1, <2>2
    <3>2. Cell(t, b, p) = t.bucket[p[2]] /\ Cell(a, b, p) = a.bucket[p[2]]
      BY <2>2 DEF Cell
    <3>3. t.bucket[p[2]] = IF p[2] = i THEN r ELSE a.bucket[p[2]]
      BY <3>1 DEF IsTable
    <3>4. p = <<a.n, i>> <=> p[2] = i
      BY <2>1, <2>2
    <3>. QED
      BY <3>2, <3>3, <3>4
  <2>3. CASE ~(p[1] = a.n /\ p[2] < a.n)
    <3>1. Cell(t, b, p) = Cell(a, b, p)
      BY <2>3 DEF Cell
    <3>2. p # <<a.n, i>>
      BY <2>3, <1>1
    <3>. QED
      BY <3>1, <3>2
  <2>. QED
    BY <2>2, <2>3
<1>3. HeadsOf(t, b) = [HeadsOf(a, b) EXCEPT ![<<a.n, i>>] = r.data]
  BY <1>1, <1>2 DEF HeadsOf
<1>4. NextsOf(t, b) = [NextsOf(a, b) EXCEPT ![<<a.n, i>>] = r.next]
  BY <1>1, <1>2 DEF NextsOf
<1>. QED
  BY <1>3, <1>4, ViewSwap

\* A table without heads and chains does not show.
LEMMA ViewEmpty ==
  ASSUME NEW a, NEW b, IsTable(a), IsTable(b), a.n # b.n,
         \A i \in 0..(b.n - 1) : b.bucket[i].data = NoKey
  PROVE  /\ HeadsOf(a, b) = HeadsOf(a, NoTable)
         /\ (\A i \in 0..(b.n - 1) : b.bucket[i].next = 0)
              => NextsOf(a, b) = NextsOf(a, NoTable)
<1>1. a.n \in Nat /\ b.n \in Nat
  BY CellIs
<1>2. ASSUME NEW p \in Place
      PROVE  /\ Cell(a, b, p).data = Cell(a, NoTable, p).data
             /\ (\A i \in 0..(b.n - 1) : b.bucket[i].next = 0)
                  => Cell(a, b, p).next = Cell(a, NoTable, p).next
  <2>1. p[1] \in Nat /\ p[2] \in Nat
    BY DEF Place
  <2>2. CASE p[1] = a.n /\ p[2] < a.n
    BY <2>2 DEF Cell
  <2>3. CASE ~(p[1] = a.n /\ p[2] < a.n)
    <3>1. Cell(a, NoTable, p) = Empty
      BY <2>1, <2>3, NoTableIs DEF Cell
    <3>2. CASE p[1] = b.n /\ p[2] < b.n
      <4>1. p[2] \in 0..(b.n - 1) /\ Cell(a, b, p) = b.bucket[p[2]]
        BY <1>1, <2>1, <2>3, <3>2 DEF Cell
      <4>. QED
        BY <4>1, <3>1, EmptyBucket
    <3>3. CASE ~(p[1] = b.n /\ p[2] < b.n)
      BY <3>1, <3>3, <2>3 DEF Cell
    <3>. QED
      BY <3>2, <3>3
  <2>. QED
    BY <2>2, <2>3
<1>. QED
  BY <1>2 DEF HeadsOf, NextsOf

\* The types of the links and of the data,
LEMMA HeapViews ==
  ASSUME NEW h \in Heaps
  PROVE  NextOf(h) \in [Ids -> Links] /\ DataOf(h) \in [Ids -> Keys \cup {NoKey, Junk}]
BY DEF Heaps, NextOf, DataOf

\* What a heap is with an entry written.
EntryPut(h, e, k, v) ==
  LET g == [h EXCEPT ![e] = [data |-> k, next |-> v]]
  IN  /\ g \in Heaps
      /\ NextOf(g) = [NextOf(h) EXCEPT ![e] = v]
      /\ DataOf(g) = [DataOf(h) EXCEPT ![e] = k]

\* and what they become when an entry is set,
LEMMA HeapPut ==
  ASSUME NEW h \in Heaps, NEW e \in Ids,
         NEW k \in Keys \cup {NoKey, Junk}, NEW v \in Links
  PROVE  EntryPut(h, e, k, v)
BY DEF EntryPut, Heaps, NextOf, DataOf

\* when its link is,
LEMMA HeapPutNext ==
  ASSUME NEW h \in Heaps, NEW e \in Ids, NEW v \in Links
  PROVE  LET g == [h EXCEPT ![e].next = v]
         IN  /\ g \in Heaps
             /\ NextOf(g) = [NextOf(h) EXCEPT ![e] = v]
             /\ DataOf(g) = DataOf(h)
BY DEF Heaps, NextOf, DataOf

\* and when its data is.
LEMMA HeapPutData ==
  ASSUME NEW h \in Heaps, NEW e \in Ids, NEW k \in Keys \cup {NoKey, Junk}
  PROVE  LET g == [h EXCEPT ![e].data = k]
         IN  /\ g \in Heaps
             /\ NextOf(g) = NextOf(h)
             /\ DataOf(g) = [DataOf(h) EXCEPT ![e] = k]
BY DEF Heaps, NextOf, DataOf

-----------------------------------------------------------------------------
(***************************************************************************)
(* transfer_entries, from the table s to the table d: sc and cu are the    *)
(* bucket and the entry it has come to, ph is the phase.                   *)
(***************************************************************************)
Walked(s, ph, sc, cu) ==
  /\ sc \in 0..s.n /\ cu \in Links
  /\ sc < s.n => s.bucket[sc].data # NoKey
  /\ sc = s.n => cu = 0
  /\ \A j \in 0..(sc - 1) : IF ph = "undo_safe" THEN s.bucket[j].next = 0
                                               ELSE s.bucket[j].data = NoKey
  /\ ph = "undo" => cu = 0 /\ \A j \in 0..(s.n - 1) : s.bucket[j].next = 0

Counted(t) == t.used = Cardinality(UsedBuckets(t))

Moving(s, d, ph, sc, cu, h, o) ==
  /\ IsTable(s) /\ IsTable(d) /\ IsSize(s.n) /\ IsSize(d.n) /\ s.n # d.n
  /\ h \in Heaps /\ Counted(s) /\ Counted(d) /\ Walked(s, ph, sc, cu)
  /\ Ranked(Firsts(s, d, d.free, <<s.n, sc>>, cu), NextOf(h), o)
  /\ Keyed(HeadsOf(s, d), DataOf(h), o, 0)

KeysOf(s, d, h, o) == KeysIn(HeadsOf(s, d), DataOf(h), o)
LiveOf(o) == {e \in Ids : o[e] # Nowhere}

\* The next state of a transfer: the same keys and entries, elsewhere.
Moves(s, d, ph, sc, cu, h, ks, lv) ==
  \E u : Moving(s, d, ph, sc, cu, h, u) /\ KeysOf(s, d, h, u) = ks /\ LiveOf(u) = lv

\* A walk skips empty buckets only.
LEMMA NextUsedIs ==
  ASSUME NEW t, IsTable(t), NEW i \in 0..t.n
  PROVE  LET r == NextUsed(t, i)
         IN  /\ r \in i..t.n /\ r \in 0..t.n
             /\ \A j \in i..(r - 1) : t.bucket[j].data = NoKey
             /\ r < t.n => t.bucket[r].data # NoKey
<1> DEFINE R == {j \in i..(t.n - 1) : t.bucket[j].data # NoKey}
           r == NextUsed(t, i)
<1>1. t.n \in Nat
  BY CellIs
<1>2. r = IF R = {} THEN t.n ELSE CHOOSE j \in R : \A x \in R : j <= x
  BY DEF NextUsed
<1>3. CASE R = {}
  <2>1. r = t.n
    BY <1>2, <1>3
  <2>2. \A j \in i..(r - 1) : t.bucket[j].data = NoKey
    BY <2>1, <1>1, <1>3
  <2> HIDE DEF r, R
  <2>. QED
    BY <2>1, <2>2, <1>1 DEF r
<1>4. CASE R # {}
  <2>1. R \in SUBSET Nat
    BY <1>1
  <2>2. r \in R /\ \A x \in R : r <= x
    <3> HIDE DEF R, r
    <3>1. \E x \in R : \A y \in R : x <= y
      BY <1>4, <2>1, LeastElement
    <3>. QED
      BY <1>2, <1>4, <3>1
  <2> HIDE DEF r
  <2>3. \A j \in i..(r - 1) : t.bucket[j].data = NoKey
    <3> SUFFICES ASSUME NEW j \in i..(r - 1), t.bucket[j].data # NoKey PROVE FALSE
      OBVIOUS
    <3>1. j \in i..(t.n - 1) /\ j < r /\ r \in Nat
      BY <1>1, <2>1, <2>2
    <3>. QED
      BY <2>2, <3>1
  <2>4. r \in i..t.n /\ r \in 0..t.n /\ t.bucket[r].data # NoKey
    BY <1>1, <2>2
  <2>. QED
    BY <2>3, <2>4 DEF r
<1>. QED
  BY <1>3, <1>4

\* Where a walk has not begun with a bucket, the lists are those of the tables.
Plain(s, d, f, sc, y) ==
  Firsts(s, d, f, <<s.n, sc>>, y) = [NextsOf(s, d) EXCEPT ![FreePlace] = f]

\* A walk that has just come to a bucket sees all of its chain.
LEMMA FirstsPlain ==
  ASSUME NEW s, NEW d, IsTable(s), IsTable(d), s.n # d.n, s.n # 0, NEW f \in Links,
         NEW sc \in 0..s.n, NEW y, y = IF sc = s.n THEN 0 ELSE s.bucket[sc].next
  PROVE  Plain(s, d, f, sc, y)
<1> DEFINE w == <<s.n, sc>>
           X == NextsOf(s, d)
<1>1. s.n \in Nat \ {0} /\ d.n \in Nat
  BY CellIs
<1>2. w \in Place /\ w # FreePlace
  BY <1>1, BucketPlace
<1>3. X \in [Place -> Links]
  BY ViewTypes
<1>4. X[w] = y
  <2>1. CASE sc = s.n
    <3>1. /\ \A i \in 0..(s.n - 1) : w # <<s.n, i>>
          /\ \A i \in 0..(d.n - 1) : w # <<d.n, i>>
      BY <2>1, <1>1
    <3>. QED
      BY <2>1, <3>1, <1>2, ViewAt
  <2>2. CASE sc # s.n
    <3>1. sc \in 0..(s.n - 1)
      BY <2>2, <1>1
    <3>. QED
      BY <2>2, <3>1, ViewAt
  <2>. QED
    BY <2>1, <2>2
<1>5. [X EXCEPT ![FreePlace] = f, ![w] = y] = [X EXCEPT ![FreePlace] = f]
  <2> HIDE DEF X, w
  <2>. QED
    BY <1>2, <1>3, <1>4
<1>. QED
  BY <1>5 DEF Firsts, Plain

\* What holds at a bucket that is walked.
Here(s, d, sc, cu, w, F, K) ==
  /\ s.n \in Nat \ {0} /\ d.n \in Nat \ {0} /\ sc \in 0..(s.n - 1)
  /\ w = <<s.n, sc>> /\ w \in Place \ {Nowhere} /\ Bucketed(w) /\ w # FreePlace
  /\ F[w] = cu /\ F[FreePlace] = d.free /\ cu \in Links /\ d.free \in Links
  /\ K[w] = s.bucket[sc].data /\ K[w] \in Keys
  /\ F \in [Place -> Links]
  /\ F = [NextsOf(s, d) EXCEPT ![FreePlace] = d.free, ![w] = cu]

\* What holds at the bucket that the transfer has come to,
LEMMA MovingAt ==
  ASSUME NEW s, NEW d, NEW ph, NEW sc, NEW cu, NEW h, NEW o,
         Moving(s, d, ph, sc, cu, h, o), sc < s.n
  PROVE  Here(s, d, sc, cu, <<s.n, sc>>, Firsts(s, d, d.free, <<s.n, sc>>, cu), HeadsOf(s, d))
<1> DEFINE w == <<s.n, sc>>
           F == Firsts(s, d, d.free, w, cu)
           K == HeadsOf(s, d)
<1>1. s.n \in Nat \ {0} /\ d.n \in Nat \ {0}
  BY SizeFacts DEF Moving
<1>2. sc \in 0..(s.n - 1) /\ cu \in Links /\ d.free \in Links /\ s.bucket[sc].data # NoKey
  BY <1>1 DEF Moving, Walked, IsTable
<1>3. w \in Place \ {Nowhere} /\ Bucketed(w) /\ w # FreePlace
  BY <1>1, <1>2, BucketPlace
<1>4. NextsOf(s, d) \in [Place -> Links] /\ K \in [Place -> Keys \cup {NoKey}]
  BY ViewTypes DEF Moving
<1>5. F = [NextsOf(s, d) EXCEPT ![FreePlace] = d.free, ![w] = cu]
  BY DEF Firsts
<1>6. K[w] = s.bucket[sc].data
  BY <1>2, ViewAt DEF Moving
<1>7. K[w] \in Keys
  BY <1>2, <1>3, <1>4, <1>6
<1> HIDE DEF w, F, K
<1>8. F[w] = cu /\ F[FreePlace] = d.free /\ F \in [Place -> Links]
  BY <1>2, <1>3, <1>4, <1>5, PlaceFacts
<1>9. w = <<s.n, sc>>
  BY DEF w
<1>10. Here(s, d, sc, cu, w, F, K)
  BY <1>1, <1>2, <1>3, <1>5, <1>6, <1>7, <1>8, <1>9 DEF Here
<1>. QED
  BY <1>10 DEF w, F, K

\* And at the bucket of the other table where a key goes.
There(s, d, sc, cu, k, i, q, F, K) ==
  /\ i = Home(d, k) /\ i \in 0..(d.n - 1)
  /\ q = <<d.n, i>> /\ q \in Place \ {Nowhere} /\ Bucketed(q)
  /\ q # FreePlace /\ q # <<s.n, sc>> /\ AtHome(q, k)
  /\ K[q] = d.bucket[i].data /\ F[q] = d.bucket[i].next
  /\ d.bucket[i] \in Buckets
  /\ d.bucket[i] = [data |-> d.bucket[i].data, next |-> d.bucket[i].next]

\* and at the bucket where a key goes.
LEMMA MovingTo ==
  ASSUME NEW s, NEW d, NEW ph, NEW sc, NEW cu, NEW h, NEW o,
         Moving(s, d, ph, sc, cu, h, o), sc < s.n, NEW k \in Keys
  PROVE  There(s, d, sc, cu, k, Home(d, k), <<d.n, Home(d, k)>>,
               Firsts(s, d, d.free, <<s.n, sc>>, cu), HeadsOf(s, d))
<1> DEFINE i == Home(d, k)
           q == <<d.n, i>>
           w == <<s.n, sc>>
<1>1. s.n \in Nat \ {0} /\ d.n \in Nat \ {0} /\ w \in Place /\ w # FreePlace
  <2>1. Here(s, d, sc, cu, <<s.n, sc>>, Firsts(s, d, d.free, <<s.n, sc>>, cu), HeadsOf(s, d))
    BY MovingAt
  <2>. QED
    BY <2>1 DEF Here
<1>2. i \in 0..(d.n - 1)
  <2>1. HashOf(k) \in Nat
    BY KeysAssumption
  <2>. QED
    BY <1>1, <2>1, DivModOf DEF Home
<1>3. q \in Place \ {Nowhere} /\ Bucketed(q) /\ q # FreePlace
  BY <1>1, <1>2, BucketPlace
<1>4. q # w /\ AtHome(q, k)
  BY <1>1 DEF Moving, AtHome, Home
<1>5. HeadsOf(s, d)[q] = d.bucket[i].data /\ NextsOf(s, d)[q] = d.bucket[i].next
  <2> HIDE DEF i
  <2>. QED
    BY <1>2, ViewAt DEF Moving
<1>6. NextsOf(s, d) \in [Place -> Links]
  BY ViewTypes DEF Moving
<1>7. Firsts(s, d, d.free, w, cu)[q] = d.bucket[i].next
  <2> HIDE DEF i, q, w
  <2>. QED
    BY <1>1, <1>3, <1>4, <1>5, <1>6, PlaceFacts DEF Firsts
<1>8. d.bucket[i] \in Buckets
  <2> HIDE DEF i
  <2>. QED
    BY <1>2 DEF Moving, IsTable
<1>9. d.bucket[i] = [data |-> d.bucket[i].data, next |-> d.bucket[i].next]
  <2> HIDE DEF i
  <2>. QED
    BY <1>8 DEF Buckets
<1>. QED
  BY <1>2, <1>3, <1>4, <1>5, <1>7, <1>8, <1>9 DEF There

-----------------------------------------------------------------------------
(***************************************************************************)
(* A table with one bucket changed.                                        *)
(***************************************************************************)
Edited(t, i, r, us, f) ==
  [n |-> t.n, bucket |-> [t.bucket EXCEPT ![i] = r], used |-> us, free |-> f]

\* The edited table is a table,
LEMMA EditedIs ==
  ASSUME NEW t, IsTable(t), NEW i \in 0..(t.n - 1), NEW r \in Buckets, NEW us,
         NEW f \in Links
  PROVE  LET e == Edited(t, i, r, us, f)
         IN  /\ IsTable(e) /\ e.n = t.n /\ e.used = us /\ e.free = f
             /\ e.bucket = [t.bucket EXCEPT ![i] = r]
             /\ \A j \in 0..(t.n - 1) : e.bucket[j] = IF j = i THEN r ELSE t.bucket[j]
BY DEF Edited, IsTable

\* as when a link of a bucket is set,
LEMMA PutNextIs ==
  ASSUME NEW t, IsTable(t), NEW i \in 0..(t.n - 1), NEW v \in Links
  PROVE  /\ [t EXCEPT !.bucket[i].next = v]
              = Edited(t, i, [data |-> t.bucket[i].data, next |-> v], t.used, t.free)
         /\ [data |-> t.bucket[i].data, next |-> v] \in Buckets
<1>1. t.bucket[i] \in Buckets
  BY DEF IsTable
<1>2. [t.bucket[i] EXCEPT !.next = v] = [data |-> t.bucket[i].data, next |-> v]
  BY <1>1 DEF Buckets
<1>3. [t EXCEPT !.bucket = [t.bucket EXCEPT ![i] = [t.bucket[i] EXCEPT !.next = v]]]
        = Edited(t, i, [data |-> t.bucket[i].data, next |-> v], t.used, t.free)
  BY <1>2 DEF IsTable, Edited
<1>. QED
  BY <1>1, <1>3 DEF Buckets

\* or the free list.
LEMMA PutFreeIs ==
  ASSUME NEW t, IsTable(t), NEW f \in Links
  PROVE  LET e == [t EXCEPT !.free = f]
         IN  IsTable(e) /\ e.n = t.n /\ e.bucket = t.bucket /\ e.used = t.used /\ e.free = f
BY DEF IsTable

\* How the number of buckets in use changes with a bucket.
LEMMA CountEdit ==
  ASSUME NEW t, IsTable(t), NEW i \in 0..(t.n - 1), NEW r \in Buckets,
         NEW e, e.n = t.n, e.bucket = [t.bucket EXCEPT ![i] = r]
  PROVE  /\ Cardinality(UsedBuckets(t)) \in 0..t.n /\ Cardinality(UsedBuckets(e)) \in 0..t.n
         /\ UsedBuckets(e) \subseteq 0..(t.n - 1)
         /\ (r.data = NoKey) = (t.bucket[i].data = NoKey)
              => Cardinality(UsedBuckets(e)) = Cardinality(UsedBuckets(t))
         /\ r.data # NoKey /\ t.bucket[i].data = NoKey
              => Cardinality(UsedBuckets(e)) = Cardinality(UsedBuckets(t)) + 1
         /\ r.data = NoKey /\ t.bucket[i].data # NoKey
              => Cardinality(UsedBuckets(e)) = Cardinality(UsedBuckets(t)) - 1
<1> DEFINE U == UsedBuckets(t)
           V == UsedBuckets(e)
<1>1. t.n \in Nat
  BY CellIs
<1>2. /\ \A j : j \in U <=> j \in 0..(t.n - 1) /\ t.bucket[j].data # NoKey
      /\ \A j : j \in V <=> j \in 0..(t.n - 1)
                            /\ (IF j = i THEN r ELSE t.bucket[j]).data # NoKey
  BY DEF UsedBuckets, IsTable
<1> HIDE DEF U, V
<1>3. U \in SUBSET (0..(t.n - 1)) /\ V \in SUBSET (0..(t.n - 1))
  BY <1>2
<1>4. IsFiniteSet(0..(t.n - 1)) /\ Cardinality(0..(t.n - 1)) <= t.n
  <2> DEFINE m == t.n - 1
  <2>1. 0 \in Int /\ m \in Int
    BY <1>1
  <2>2. IsFiniteSet(0..m) /\ Cardinality(0..m) = IF 0 > m THEN 0 ELSE m - 0 + 1
    <3> HIDE DEF m
    <3>. QED
      BY <2>1, FS_Interval
  <2>. QED
    BY <1>1, <2>2
<1>5. /\ IsFiniteSet(U) /\ Cardinality(U) \in Nat /\ Cardinality(U) <= t.n
      /\ IsFiniteSet(V) /\ Cardinality(V) \in Nat /\ Cardinality(V) <= t.n
  <2>1. IsFiniteSet(U) /\ IsFiniteSet(V) /\ Cardinality(U) <= Cardinality(0..(t.n - 1))
        /\ Cardinality(V) <= Cardinality(0..(t.n - 1))
    BY <1>3, <1>4, FS_Subset
  <2>2. Cardinality(U) \in Nat /\ Cardinality(V) \in Nat /\ Cardinality(0..(t.n - 1)) \in Nat
    BY <2>1, <1>4, FS_CardinalityType
  <2>. QED
    BY <2>1, <2>2, <1>1, <1>4
<1>6. (r.data = NoKey) = (t.bucket[i].data = NoKey) => V = U
  BY <1>2
<1>7. r.data # NoKey /\ t.bucket[i].data = NoKey => Cardinality(V) = Cardinality(U) + 1
  <2>1. r.data # NoKey /\ t.bucket[i].data = NoKey => V = U \cup {i} /\ i \notin U
    BY <1>2
  <2>2. i \notin U => Cardinality(U \cup {i}) = Cardinality(U) + 1
    BY <1>5, FS_AddElement
  <2>. QED
    BY <2>1, <2>2
<1>8. r.data = NoKey /\ t.bucket[i].data # NoKey => Cardinality(V) = Cardinality(U) - 1
  <2>1. r.data = NoKey /\ t.bucket[i].data # NoKey => V = U \ {i} /\ i \in U
    BY <1>2
  <2>2. i \in U => Cardinality(U \ {i}) = Cardinality(U) - 1
    BY <1>5, FS_RemoveElement
  <2>. QED
    BY <2>1, <2>2
<1>9. Cardinality(U) \in 0..t.n /\ Cardinality(V) \in 0..t.n
  BY <1>1, <1>5
<1>. QED
  BY <1>3, <1>6, <1>7, <1>8, <1>9 DEF U, V

CountsIn(t, i, r, us, f) ==
  LET e == Edited(t, i, r, us, f)
  IN  /\ Cardinality(UsedBuckets(t)) \in 0..t.n /\ Cardinality(UsedBuckets(e)) \in 0..t.n
      /\ (r.data = NoKey) = (t.bucket[i].data = NoKey)
           => Cardinality(UsedBuckets(e)) = Cardinality(UsedBuckets(t))
      /\ r.data # NoKey /\ t.bucket[i].data = NoKey
           => Cardinality(UsedBuckets(e)) = Cardinality(UsedBuckets(t)) + 1
      /\ r.data = NoKey /\ t.bucket[i].data # NoKey
           => Cardinality(UsedBuckets(e)) = Cardinality(UsedBuckets(t)) - 1

\* The edited table's buckets in use.
LEMMA CountEdited ==
  ASSUME NEW t, IsTable(t), NEW i \in 0..(t.n - 1), NEW r \in Buckets, NEW us, NEW f \in Links
  PROVE  CountsIn(t, i, r, us, f)
<1> DEFINE e == Edited(t, i, r, us, f)
<1>1. e.n = t.n /\ e.bucket = [t.bucket EXCEPT ![i] = r]
  BY DEF Edited
<1> HIDE DEF e
<1>2. /\ Cardinality(UsedBuckets(t)) \in 0..t.n /\ Cardinality(UsedBuckets(e)) \in 0..t.n
      /\ (r.data = NoKey) = (t.bucket[i].data = NoKey)
           => Cardinality(UsedBuckets(e)) = Cardinality(UsedBuckets(t))
      /\ r.data # NoKey /\ t.bucket[i].data = NoKey
           => Cardinality(UsedBuckets(e)) = Cardinality(UsedBuckets(t)) + 1
      /\ r.data = NoKey /\ t.bucket[i].data # NoKey
           => Cardinality(UsedBuckets(e)) = Cardinality(UsedBuckets(t)) - 1
  BY <1>1, CountEdit
<1>. QED
  BY <1>2 DEF e, CountsIn

\* The counters and the free list do not change which buckets are in use.
LEMMA CountSame ==
  ASSUME NEW t, NEW e, e.bucket = t.bucket
  PROVE  UsedBuckets(e) = UsedBuckets(t)
BY DEF UsedBuckets
-----------------------------------------------------------------------------
(***************************************************************************)
(* The steps of a transfer.                                                *)
(***************************************************************************)
\* What holds of an overflow entry that is to be moved.
LEMMA OverflowIs ==
  ASSUME NEW s, NEW d, NEW ph, NEW sc, NEW cu, NEW h, NEW o,
         Moving(s, d, ph, sc, cu, h, o), sc < s.n, cu # 0
  PROVE  /\ cu \in Ids /\ o[cu] = <<s.n, sc>> /\ Bucketed(o[cu]) /\ h[cu].data \in Keys
         /\ h[cu].next \in Links /\ NextOf(h)[cu] = h[cu].next /\ DataOf(h)[cu] = h[cu].data
         /\ ph # "undo"
<1> DEFINE w == <<s.n, sc>>
           F == Firsts(s, d, d.free, w, cu)
           K == HeadsOf(s, d)
<1>1. Here(s, d, sc, cu, w, F, K)
  BY MovingAt
<1>2. w \in Place \ {Nowhere} /\ Bucketed(w) /\ F[w] = cu
  BY <1>1 DEF Here
<1>3. Ranked(F, NextOf(h), o) /\ Keyed(K, DataOf(h), o, 0) /\ h \in Heaps
      /\ ph # "undo"
  BY DEF Moving, Walked
<1> HIDE DEF w, F, K
<1>4. cu \in Ids /\ o[cu] = w
  <2>1. \A p \in Place : p # Nowhere /\ F[p] # 0 => F[p] \in Ids /\ o[F[p]] = p
    BY <1>3, FirstIs
  <2>. QED
    BY <1>2, <2>1
<1>5. DataOf(h)[cu] \in Keys
  BY <1>2, <1>3, <1>4, NotIds DEF Keyed
<1>. QED
  BY <1>2, <1>3, <1>4, <1>5 DEF Heaps, DataOf, NextOf, w

\* An overflow entry goes to the chain of its new bucket.
LEMMA MoveToChain ==
  ASSUME NEW s, NEW d, NEW ph, NEW sc, NEW cu, NEW h, NEW o,
         Moving(s, d, ph, sc, cu, h, o), sc < s.n, cu # 0,
         d.bucket[Home(d, h[cu].data)].data # NoKey
  PROVE  Moves(s, [d EXCEPT !.bucket[Home(d, h[cu].data)].next = cu], ph, sc, h[cu].next,
               [h EXCEPT ![cu].next = d.bucket[Home(d, h[cu].data)].next],
               KeysOf(s, d, h, o), LiveOf(o))
<1> DEFINE k == h[cu].data
           i == Home(d, k)
           q == <<d.n, i>>
           w == <<s.n, sc>>
           F == Firsts(s, d, d.free, w, cu)
           K == HeadsOf(s, d)
           r == [data |-> d.bucket[i].data, next |-> cu]
           e == Edited(d, i, r, d.used, d.free)
           g == [h EXCEPT ![cu].next = d.bucket[i].next]
           u == [o EXCEPT ![cu] = q]
<1>1. /\ cu \in Ids /\ o[cu] = w /\ Bucketed(o[cu]) /\ k \in Keys
      /\ h[cu].next \in Links /\ NextOf(h)[cu] = h[cu].next /\ DataOf(h)[cu] = k
      /\ ph # "undo"
  BY OverflowIs
<1>2. Here(s, d, sc, cu, w, F, K)
  BY MovingAt
<1>3. There(s, d, sc, cu, k, i, q, F, K)
  <2> HIDE DEF k
  <2>. QED
    BY <1>1, MovingTo
<1>4. /\ IsTable(s) /\ IsTable(d) /\ IsSize(s.n) /\ IsSize(d.n) /\ s.n # d.n
      /\ h \in Heaps /\ Counted(s) /\ Counted(d) /\ Walked(s, ph, sc, cu)
      /\ Ranked(F, NextOf(h), o) /\ Keyed(K, DataOf(h), o, 0)
      /\ d.bucket[i].data # NoKey
  BY DEF Moving
<1>5. [d EXCEPT !.bucket[i].next = cu] = e /\ r \in Buckets
  <2>1. /\ IsTable(d) /\ i \in 0..(d.n - 1) /\ d.bucket[i] \in Buckets
        /\ d.bucket[i] = [data |-> d.bucket[i].data, next |-> d.bucket[i].next]
    BY <1>3, <1>4 DEF There
  <2>2. cu \in Links
    BY <1>2 DEF Here
  <2> HIDE DEF i
  <2>. QED
    BY <2>1, <2>2, PutNextIs
<1> HIDE DEF k, i, q, w, F, K
<1>6. /\ i \in 0..(d.n - 1) /\ q = <<d.n, i>> /\ q \in Place \ {Nowhere} /\ q # FreePlace
      /\ q # w /\ AtHome(q, k) /\ K[q] = d.bucket[i].data /\ F[q] = d.bucket[i].next
      /\ d.bucket[i] \in Buckets
  BY <1>3 DEF There, w
<1>7. /\ w \in Place \ {Nowhere} /\ w # FreePlace /\ F[w] = cu /\ d.free \in Links
      /\ cu \in Links /\ sc \in 0..(s.n - 1)
      /\ F = [NextsOf(s, d) EXCEPT ![FreePlace] = d.free, ![w] = cu] /\ F \in [Place -> Links]
  BY <1>2 DEF Here
<1>8. /\ IsTable(e) /\ e.n = d.n /\ e.used = d.used /\ e.free = d.free
      /\ e.bucket = [d.bucket EXCEPT ![i] = r]
  <2> DEFINE f == Edited(d, i, r, d.used, d.free)
  <2>1. IsTable(d) /\ i \in 0..(d.n - 1) /\ r \in Buckets /\ d.free \in Links
    BY <1>4, <1>5, <1>6, <1>7
  <2>2. e = f
    OBVIOUS
  <2> HIDE DEF r, e
  <2>3. /\ IsTable(f) /\ f.n = d.n /\ f.used = d.used /\ f.free = d.free
        /\ f.bucket = [d.bucket EXCEPT ![i] = r]
    BY <2>1, EditedIs
  <2> HIDE DEF f
  <2>. QED
    BY <2>2, <2>3
<1>9. HeadsOf(s, e) = [K EXCEPT ![q] = r.data] /\ NextsOf(s, e) = [NextsOf(s, d) EXCEPT ![q] = r.next]
  <2> HIDE DEF r, e, g, u
  <2>1. /\ IsTable(s) /\ IsTable(d) /\ IsTable(e) /\ s.n # d.n /\ e.n = d.n
        /\ i \in 0..(d.n - 1) /\ r \in Buckets /\ e.bucket = [d.bucket EXCEPT ![i] = r]
        /\ q = <<d.n, i>>
    BY <1>4, <1>5, <1>6, <1>8
  <2>2. /\ HeadsOf(s, e) = [HeadsOf(s, d) EXCEPT ![q] = r.data]
        /\ NextsOf(s, e) = [NextsOf(s, d) EXCEPT ![q] = r.next]
    BY <2>1, ViewEdit, SMTT(30)
  <2>. QED
    BY <2>2 DEF K
<1>10. HeadsOf(s, e) = K
  <2>1. K \in [Place -> Keys \cup {NoKey}]
    BY <1>4 DEF Keyed
  <2>2. r.data = K[q]
    BY <1>6
  <2>. QED
    BY <1>9, <2>1, <2>2
<1>11. Firsts(s, e, e.free, w, h[cu].next) = [F EXCEPT ![w] = NextOf(h)[cu], ![q] = cu]
  <2>1. NextsOf(s, d) \in [Place -> Links] /\ r.next = cu
    BY <1>4, ViewTypes
  <2> HIDE DEF r, e
  <2>2. Firsts(s, e, e.free, w, h[cu].next)
          = [[NextsOf(s, d) EXCEPT ![q] = cu] EXCEPT ![FreePlace] = d.free, ![w] = NextOf(h)[cu]]
    BY <1>1, <1>8, <1>9, <2>1 DEF Firsts
  <2> DEFINE N == NextsOf(s, d)
             y == NextOf(h)[cu]
             G == [[N EXCEPT ![q] = cu] EXCEPT ![FreePlace] = d.free, ![w] = y]
  <2>3. /\ F = [N EXCEPT ![FreePlace] = d.free, ![w] = cu] /\ N \in [Place -> Links]
        /\ w \in Place /\ q \in Place /\ FreePlace \in Place /\ w # FreePlace /\ q # FreePlace
        /\ q # w
    BY <1>6, <1>7, <2>1, PlaceFacts
  <2>4. Firsts(s, e, e.free, w, h[cu].next) = G
    BY <2>2
  <2> HIDE DEF N, y
  <2>5. G = [F EXCEPT ![w] = y, ![q] = cu]
    BY <2>3
  <2>. QED
    BY <2>4, <2>5 DEF y
<1>12. g \in Heaps /\ NextOf(g) = [NextOf(h) EXCEPT ![cu] = F[q]] /\ DataOf(g) = DataOf(h)
  <2>1. F[q] \in Links
    BY <1>6, <1>7
  <2>. QED
    BY <1>1, <1>4, <1>6, <2>1, HeapPutNext, SMTT(30)
<1>13. Ranked([F EXCEPT ![w] = NextOf(h)[cu], ![q] = cu], NextOf(g), u)
  <2>1. FirstMoved(F, NextOf(h), o, w, q)
    BY <1>4, <1>6, <1>7, MoveFirst
  <2>. QED
    BY <2>1, <1>7, <1>12 DEF FirstMoved
<1>14. Keyed(K, DataOf(g), u, 0) /\ KeysIn(K, DataOf(g), u) = KeysIn(K, DataOf(h), o)
  <2>1. Rechained(K, DataOf(h), o, cu, q)
    BY <1>1, <1>4, <1>6, Rechain
  <2>. QED
    BY <2>1, <1>12 DEF Rechained
<1>15. Counted(e)
  BY <1>4, <1>5, <1>6, <1>8, CountEdit DEF Counted
<1>16. Walked(s, ph, sc, h[cu].next)
  BY <1>1, <1>4, <1>7 DEF Walked
<1> HIDE DEF e, g, u, r
<1>17. Moving(s, e, ph, sc, h[cu].next, g, u)
  BY <1>4, <1>8, <1>10, <1>11, <1>12, <1>13, <1>14, <1>15, <1>16 DEF Moving, w
<1>18. KeysOf(s, e, g, u) = KeysOf(s, d, h, o)
  BY <1>10, <1>14 DEF KeysOf, K
<1>19. LiveOf(u) = LiveOf(o)
  <2>1. o \in [Ids -> Place]
    BY <1>4 DEF Keyed
  <2>2. \A x \in Ids : u[x] # Nowhere <=> o[x] # Nowhere
    BY <2>1, <1>1, <1>6, <1>7 DEF u
  <2>. QED
    BY <2>2 DEF LiveOf
<1>20. Moves(s, e, ph, sc, h[cu].next, g, KeysOf(s, d, h, o), LiveOf(o))
  BY <1>17, <1>18, <1>19 DEF Moves
<1>. QED
  BY <1>5, <1>20 DEF g, k, i

\* A table with its fields changed.
FieldsIn(t, b, us, f) ==
  /\ [t EXCEPT !.bucket = b] = [n |-> t.n, bucket |-> b, used |-> t.used, free |-> t.free]
  /\ [t EXCEPT !.bucket = b, !.used = us]
       = [n |-> t.n, bucket |-> b, used |-> us, free |-> t.free]
  /\ [t EXCEPT !.bucket = b, !.free = f]
       = [n |-> t.n, bucket |-> b, used |-> t.used, free |-> f]
  /\ [t EXCEPT !.bucket = b, !.used = us, !.free = f]
       = [n |-> t.n, bucket |-> b, used |-> us, free |-> f]

\* A table with some of its fields changed,
LEMMA FieldsAre ==
  ASSUME NEW t, t = [n |-> t.n, bucket |-> t.bucket, used |-> t.used, free |-> t.free],
         NEW b, NEW us, NEW f
  PROVE  FieldsIn(t, b, us, f)
<1> DEFINE m == [t EXCEPT !.bucket = b]
           l == [m EXCEPT !.used = us]
           n == t.n
<1>1. m = [n |-> n, bucket |-> b, used |-> t.used, free |-> t.free]
  OBVIOUS
<1>2. /\ [t EXCEPT !.bucket = b, !.used = us] = l
      /\ [t EXCEPT !.bucket = b, !.free = f] = [m EXCEPT !.free = f]
      /\ [t EXCEPT !.bucket = b, !.used = us, !.free = f] = [l EXCEPT !.free = f]
  OBVIOUS
<1> HIDE DEF m, n
<1>3. l = [n |-> n, bucket |-> b, used |-> us, free |-> t.free]
  BY <1>1
<1>4. [m EXCEPT !.free = f] = [n |-> n, bucket |-> b, used |-> t.used, free |-> f]
  BY <1>1
<1> HIDE DEF l
<1>5. [l EXCEPT !.free = f] = [n |-> n, bucket |-> b, used |-> us, free |-> f]
  BY <1>3
<1>. QED
  BY <1>1, <1>2, <1>3, <1>4, <1>5 DEF m, n, FieldsIn

\* The other ways in which a table is changed at one bucket.
DataPut(t, i, k, f) ==
  LET r == [data |-> k, next |-> t.bucket[i].next]
  IN  /\ r \in Buckets
      /\ [t EXCEPT !.bucket[i].data = k] = Edited(t, i, r, t.used, t.free)
      /\ [t EXCEPT !.bucket[i].data = k, !.used = @ + 1] = Edited(t, i, r, t.used + 1, t.free)
      /\ [t EXCEPT !.bucket[i].data = k, !.used = @ - 1] = Edited(t, i, r, t.used - 1, t.free)
      /\ [t EXCEPT !.bucket[i].data = k, !.used = @ + 1, !.free = f]
           = Edited(t, i, r, t.used + 1, f)

\* with the data of a bucket,
LEMMA PutDataIs ==
  ASSUME NEW t, IsTable(t), NEW i \in 0..(t.n - 1), NEW k \in Keys \cup {NoKey},
         NEW f \in Links
  PROVE  DataPut(t, i, k, f)
<1> DEFINE r == [data |-> k, next |-> t.bucket[i].next]
           B == [t.bucket EXCEPT ![i] = r]
<1>1. t.bucket[i] \in Buckets
  BY DEF IsTable
<1>2. [t.bucket[i] EXCEPT !.data = k] = r /\ r \in Buckets
  BY <1>1 DEF Buckets
<1>3. [t.bucket EXCEPT ![i].data = k] = B
  BY <1>1, <1>2 DEF IsTable
<1>4. t = [n |-> t.n, bucket |-> t.bucket, used |-> t.used, free |-> t.free]
  BY DEF IsTable
<1> HIDE DEF B, r
<1>5. /\ [t EXCEPT !.bucket[i].data = k] = [t EXCEPT !.bucket = B]
      /\ [t EXCEPT !.bucket[i].data = k, !.used = @ + 1] = [t EXCEPT !.bucket = B, !.used = t.used + 1]
      /\ [t EXCEPT !.bucket[i].data = k, !.used = @ - 1] = [t EXCEPT !.bucket = B, !.used = t.used - 1]
      /\ [t EXCEPT !.bucket[i].data = k, !.used = @ + 1, !.free = f]
            = [t EXCEPT !.bucket = B, !.used = t.used + 1, !.free = f]
  BY <1>3
<1>6. /\ [t EXCEPT !.bucket = B] = [n |-> t.n, bucket |-> B, used |-> t.used, free |-> t.free]
      /\ [t EXCEPT !.bucket = B, !.used = t.used + 1]
            = [n |-> t.n, bucket |-> B, used |-> t.used + 1, free |-> t.free]
      /\ [t EXCEPT !.bucket = B, !.used = t.used + 1, !.free = f]
            = [n |-> t.n, bucket |-> B, used |-> t.used + 1, free |-> f]
  <2>1. FieldsIn(t, B, t.used + 1, f)
    BY <1>4, FieldsAre
  <2>. QED
    BY <2>1 DEF FieldsIn
<1>7. [t EXCEPT !.bucket = B, !.used = t.used - 1]
        = [n |-> t.n, bucket |-> B, used |-> t.used - 1, free |-> t.free]
  <2>1. FieldsIn(t, B, t.used - 1, f)
    BY <1>4, FieldsAre
  <2>. QED
    BY <2>1 DEF FieldsIn
<1>8. \A us, v : Edited(t, i, r, us, v) = [n |-> t.n, bucket |-> B, used |-> us, free |-> v]
  BY DEF Edited, B
<1>9. /\ r \in Buckets
      /\ [t EXCEPT !.bucket[i].data = k] = Edited(t, i, r, t.used, t.free)
      /\ [t EXCEPT !.bucket[i].data = k, !.used = @ + 1] = Edited(t, i, r, t.used + 1, t.free)
      /\ [t EXCEPT !.bucket[i].data = k, !.used = @ - 1] = Edited(t, i, r, t.used - 1, t.free)
      /\ [t EXCEPT !.bucket[i].data = k, !.used = @ + 1, !.free = f]
           = Edited(t, i, r, t.used + 1, f)
  BY <1>2, <1>5, <1>6, <1>7, <1>8
<1>. QED
  BY <1>9 DEF r, DataPut

LinkPut(t, i, v, f) ==
  /\ [t EXCEPT !.bucket[i].next = v, !.free = f]
       = Edited(t, i, [data |-> t.bucket[i].data, next |-> v], t.used, f)
  /\ [t EXCEPT !.bucket[i].next = v]
       = Edited(t, i, [data |-> t.bucket[i].data, next |-> v], t.used, t.free)
  /\ [data |-> t.bucket[i].data, next |-> v] \in Buckets

\* with its link,
LEMMA PutLinkIs ==
  ASSUME NEW t, IsTable(t), NEW i \in 0..(t.n - 1), NEW v \in Links, NEW f \in Links
  PROVE  LinkPut(t, i, v, f)
<1>1. [t EXCEPT !.bucket[i].next = v]
         = Edited(t, i, [data |-> t.bucket[i].data, next |-> v], t.used, t.free)
      /\ [data |-> t.bucket[i].data, next |-> v] \in Buckets
  BY PutNextIs
<1>2. t.bucket[i] \in Buckets
  BY DEF IsTable
<1>3. [t.bucket EXCEPT ![i].next = v] = [t.bucket EXCEPT ![i] = [data |-> t.bucket[i].data, next |-> v]]
  BY <1>2 DEF IsTable, Buckets
<1> DEFINE B == [t.bucket EXCEPT ![i] = [data |-> t.bucket[i].data, next |-> v]]
<1>4. [t EXCEPT !.bucket[i].next = v, !.free = f] = [t EXCEPT !.bucket = B, !.free = f]
  BY <1>3
<1>5. t = [n |-> t.n, bucket |-> t.bucket, used |-> t.used, free |-> t.free]
  BY DEF IsTable
<1> HIDE DEF B
<1>6. [t EXCEPT !.bucket = B, !.free = f] = [n |-> t.n, bucket |-> B, used |-> t.used, free |-> f]
  <2>1. FieldsIn(t, B, t.used, f)
    BY <1>5, FieldsAre
  <2>. QED
    BY <2>1 DEF FieldsIn
<1>. QED
  BY <1>1, <1>4, <1>6 DEF Edited, B, LinkPut

BucketPut(t, i, r, f) ==
  /\ [t EXCEPT !.bucket[i] = r, !.free = f] = Edited(t, i, r, t.used, f)
  /\ [t EXCEPT !.bucket[i] = r, !.used = @ - 1] = Edited(t, i, r, t.used - 1, t.free)
  /\ [t EXCEPT !.bucket[i] = r] = Edited(t, i, r, t.used, t.free)

\* or with both.
LEMMA PutBucketIs ==
  ASSUME NEW t, IsTable(t), NEW i \in 0..(t.n - 1), NEW r \in Buckets, NEW f \in Links
  PROVE  BucketPut(t, i, r, f)
<1> DEFINE B == [t.bucket EXCEPT ![i] = r]
<1>1. /\ [t EXCEPT !.bucket[i] = r, !.free = f] = [t EXCEPT !.bucket = B, !.free = f]
      /\ [t EXCEPT !.bucket[i] = r, !.used = @ - 1] = [t EXCEPT !.bucket = B, !.used = t.used - 1]
      /\ [t EXCEPT !.bucket[i] = r] = [t EXCEPT !.bucket = B]
  OBVIOUS
<1>2. t = [n |-> t.n, bucket |-> t.bucket, used |-> t.used, free |-> t.free]
  BY DEF IsTable
<1> HIDE DEF B
<1>3. /\ [t EXCEPT !.bucket = B, !.free = f] = [n |-> t.n, bucket |-> B, used |-> t.used, free |-> f]
      /\ [t EXCEPT !.bucket = B, !.used = t.used - 1]
            = [n |-> t.n, bucket |-> B, used |-> t.used - 1, free |-> t.free]
      /\ [t EXCEPT !.bucket = B] = [n |-> t.n, bucket |-> B, used |-> t.used, free |-> t.free]
  <2>1. FieldsIn(t, B, t.used - 1, f)
    BY <1>2, FieldsAre
  <2>. QED
    BY <2>1 DEF FieldsIn
<1>. QED
  BY <1>1, <1>3 DEF Edited, B, BucketPut

\* The lists and heads of an edited destination.
FirstsAre(s, d, i, r, us, f, sc, c, y) ==
  LET w == <<s.n, sc>>
      q == <<d.n, i>>
      F == Firsts(s, d, d.free, w, c)
  IN  /\ Firsts(s, Edited(d, i, r, us, f), f, w, y)
           = [F EXCEPT ![w] = y, ![FreePlace] = f, ![q] = r.next]
      /\ HeadsOf(s, Edited(d, i, r, us, f)) = [HeadsOf(s, d) EXCEPT ![q] = r.data]
      /\ F \in [Place -> Links] /\ F[q] = d.bucket[i].next /\ F[w] = c
      /\ F[FreePlace] = d.free

\* The lists when a bucket that is not the one walked is edited.
LEMMA FirstsTo ==
  ASSUME NEW s, NEW d, NEW i \in 0..(d.n - 1), NEW r \in Buckets, NEW us, NEW f \in Links,
         NEW y \in Links, NEW sc \in Nat, NEW c \in Links,
         IsTable(s), IsTable(d), s.n # 0, d.n # 0, s.n # d.n
  PROVE  FirstsAre(s, d, i, r, us, f, sc, c, y)
<1> DEFINE e == Edited(d, i, r, us, f)
           X == NextsOf(s, d)
           w == <<s.n, sc>>
           q == <<d.n, i>>
           F == Firsts(s, d, d.free, w, c)
<1>1. IsTable(e) /\ e.n = d.n /\ e.free = f /\ e.bucket = [d.bucket EXCEPT ![i] = r]
  BY EditedIs
<1> HIDE DEF e
<1>2. HeadsOf(s, e) = [HeadsOf(s, d) EXCEPT ![q] = r.data]
      /\ NextsOf(s, e) = [X EXCEPT ![q] = r.next]
  BY <1>1, ViewEdit
<1>3. X \in [Place -> Links] /\ X[q] = d.bucket[i].next /\ r.next \in Links /\ d.free \in Links
  BY ViewTypes, ViewAt DEF Buckets, IsTable
<1>4. F = [X EXCEPT ![FreePlace] = d.free, ![w] = c]
  BY DEF Firsts
<1>5. Firsts(s, e, f, w, y) = [[X EXCEPT ![q] = r.next] EXCEPT ![FreePlace] = f, ![w] = y]
  BY <1>2 DEF Firsts
<1>6. w \in Place /\ q \in Place /\ w # FreePlace /\ q # FreePlace /\ w # q
  <2>1. s.n \in Nat \ {0} /\ d.n \in Nat \ {0}
    BY CellIs
  <2>2. w # q
    OBVIOUS
  <2> HIDE DEF w, q
  <2>. QED
    BY <2>1, <2>2, BucketPlace DEF w, q
<1> HIDE DEF X, F, w, q
<1>7. F \in [Place -> Links] /\ F[q] = d.bucket[i].next /\ F[w] = c /\ F[FreePlace] = d.free
  BY <1>3, <1>4, <1>6, PlaceFacts
<1>8. [[X EXCEPT ![q] = r.next] EXCEPT ![FreePlace] = f, ![w] = y]
        = [F EXCEPT ![w] = y, ![FreePlace] = f, ![q] = r.next]
  BY <1>3, <1>4, <1>6, PlaceFacts
<1>. QED
  BY <1>2, <1>5, <1>7, <1>8 DEF e, F, w, q, FirstsAre

\* An overflow entry becomes the head of its new bucket, and is recycled.
LEMMA MoveToHead ==
  ASSUME NEW s, NEW d, NEW ph, NEW sc, NEW cu, NEW h, NEW o,
         Moving(s, d, ph, sc, cu, h, o), sc < s.n, cu # 0,
         d.bucket[Home(d, h[cu].data)].data = NoKey
  PROVE  Moves(s, [d EXCEPT !.bucket[Home(d, h[cu].data)].data = h[cu].data,
                            !.used = @ + 1, !.free = cu],
               ph, sc, h[cu].next,
               [h EXCEPT ![cu] = [data |-> NoKey, next |-> d.free]],
               KeysOf(s, d, h, o), LiveOf(o))
<1> DEFINE k == h[cu].data
           i == Home(d, k)
           q == <<d.n, i>>
           w == <<s.n, sc>>
           F == Firsts(s, d, d.free, w, cu)
           K == HeadsOf(s, d)
           r == [data |-> k, next |-> d.bucket[i].next]
           e == Edited(d, i, r, d.used + 1, cu)
           g == [h EXCEPT ![cu] = [data |-> NoKey, next |-> d.free]]
           u == [o EXCEPT ![cu] = FreePlace]
<1>1. /\ cu \in Ids /\ o[cu] = w /\ Bucketed(o[cu]) /\ k \in Keys
      /\ h[cu].next \in Links /\ NextOf(h)[cu] = h[cu].next /\ DataOf(h)[cu] = k
      /\ ph # "undo"
  BY OverflowIs
<1>2. Here(s, d, sc, cu, w, F, K)
  BY MovingAt
<1>3. There(s, d, sc, cu, k, i, q, F, K)
  <2> HIDE DEF k
  <2>. QED
    BY <1>1, MovingTo
<1>4. /\ IsTable(s) /\ IsTable(d) /\ IsSize(s.n) /\ IsSize(d.n) /\ s.n # d.n
      /\ h \in Heaps /\ Counted(s) /\ Counted(d) /\ Walked(s, ph, sc, cu)
      /\ Ranked(F, NextOf(h), o) /\ Keyed(K, DataOf(h), o, 0)
      /\ d.bucket[i].data = NoKey
  BY DEF Moving
<1>5. [d EXCEPT !.bucket[i].data = k, !.used = @ + 1, !.free = cu] = e /\ r \in Buckets
  <2>1. i \in 0..(d.n - 1)
    BY <1>3 DEF There
  <2>2. k \in Keys \cup {NoKey} /\ cu \in Links
    BY <1>1, IdsLinks
  <2> HIDE DEF i, k
  <2>3. DataPut(d, i, k, cu)
    BY <2>1, <2>2, <1>4, PutDataIs
  <2>. QED
    BY <2>3 DEF DataPut
<1> HIDE DEF k, i, q, w, F, K
<1>6. /\ i \in 0..(d.n - 1) /\ q = <<d.n, i>> /\ q \in Place \ {Nowhere} /\ q # FreePlace
      /\ q # w /\ AtHome(q, k) /\ K[q] = NoKey
  BY <1>3, <1>4 DEF There, w
<1>7. /\ w \in Place \ {Nowhere} /\ w # FreePlace /\ d.free \in Links
      /\ cu \in Links /\ sc \in 0..(s.n - 1)
  BY <1>2 DEF Here
<1>8. /\ IsTable(e) /\ e.n = d.n /\ e.used = d.used + 1 /\ e.free = cu
      /\ e.bucket = [d.bucket EXCEPT ![i] = r]
  BY <1>4, <1>5, <1>6, <1>7, EditedIs
<1>9. /\ Firsts(s, e, cu, w, h[cu].next) = [F EXCEPT ![w] = h[cu].next, ![FreePlace] = cu, ![q] = r.next]
      /\ HeadsOf(s, e) = [K EXCEPT ![q] = r.data]
      /\ F \in [Place -> Links] /\ F[q] = d.bucket[i].next /\ F[w] = cu /\ F[FreePlace] = d.free
  <2>1. s.n # 0 /\ d.n # 0 /\ sc \in Nat
    BY <1>4, <1>7, SizeFacts
  <2>2. FirstsAre(s, d, i, r, d.used + 1, cu, sc, cu, h[cu].next)
    <3> HIDE DEF r
    <3>. QED
      BY <1>1, <1>4, <1>5, <1>6, <1>7, <2>1, FirstsTo
  <2> HIDE DEF r
  <2>. QED
    BY <2>2 DEF FirstsAre, w, F, K, q
<1>10. HeadsOf(s, e) = [K EXCEPT ![q] = DataOf(h)[cu]]
  BY <1>1, <1>9
<1>11. Firsts(s, e, e.free, w, h[cu].next) = [F EXCEPT ![w] = NextOf(h)[F[w]], ![FreePlace] = F[w]]
  <2>1. r.next = F[q]
    BY <1>9
  <2>2. [F EXCEPT ![w] = h[cu].next, ![FreePlace] = cu, ![q] = r.next]
          = [F EXCEPT ![w] = h[cu].next, ![FreePlace] = cu]
    <3> HIDE DEF r
    <3>. QED
      BY <2>1, <1>6, <1>9
  <2> HIDE DEF r, e, g, u
  <2>3. Firsts(s, e, e.free, w, h[cu].next) = [F EXCEPT ![w] = h[cu].next, ![FreePlace] = cu]
    BY <2>2, <1>8, <1>9
  <2>4. h[cu].next = NextOf(h)[F[w]] /\ cu = F[w]
    BY <1>1, <1>9
  <2>. QED
    BY <2>3, <2>4
<1>12. g \in Heaps /\ NextOf(g) = [NextOf(h) EXCEPT ![cu] = F[FreePlace]]
       /\ DataOf(g) = [DataOf(h) EXCEPT ![cu] = NoKey]
  <2>1. /\ g \in Heaps /\ NextOf(g) = [NextOf(h) EXCEPT ![cu] = d.free]
        /\ DataOf(g) = [DataOf(h) EXCEPT ![cu] = NoKey]
    <3>1. EntryPut(h, cu, NoKey, d.free)
      BY <1>1, <1>4, <1>7, HeapPut
    <3>. QED
      BY <3>1 DEF EntryPut
  <2> HIDE DEF g
  <2>. QED
    BY <2>1, <1>9
<1>13. Ranked([F EXCEPT ![w] = NextOf(h)[F[w]], ![FreePlace] = F[w]], NextOf(g), u)
  <2>1. FirstMoved(F, NextOf(h), o, w, FreePlace)
    BY <1>4, <1>7, <1>9, PlaceFacts, MoveFirst
  <2>. QED
    BY <2>1, <1>9, <1>12 DEF FirstMoved
<1>14. Keyed([K EXCEPT ![q] = DataOf(h)[cu]], DataOf(g), u, 0)
       /\ KeysIn([K EXCEPT ![q] = DataOf(h)[cu]], DataOf(g), u) = KeysIn(K, DataOf(h), o) \ {NoKey}
  <2>1. AtHome(q, DataOf(h)[cu]) /\ FreePlace \in Place
    BY <1>1, <1>6, PlaceFacts
  <2>2. BecomesHead(K, DataOf(h), o, cu, FreePlace, q)
    BY <2>1, <1>1, <1>4, <1>6, PlaceFacts, ToHead
  <2> HIDE DEF g
  <2>. QED
    BY <2>2, <1>6, <1>12 DEF BecomesHead
<1>15. Counted(e)
  <2>1. r.data # NoKey
    BY <1>1, KeysAssumption
  <2>2. CountsIn(d, i, r, d.used + 1, cu)
    <3> HIDE DEF r
    <3>. QED
      BY <1>4, <1>5, <1>6, <1>7, CountEdited
  <2>3. Cardinality(UsedBuckets(e)) = Cardinality(UsedBuckets(d)) + 1
    <3> HIDE DEF r
    <3>. QED
      BY <2>1, <2>2, <1>4 DEF CountsIn
  <2> HIDE DEF e
  <2>. QED
    BY <2>3, <1>4, <1>8 DEF Counted
<1>16. Walked(s, ph, sc, h[cu].next)
  BY <1>1, <1>4, <1>7 DEF Walked
<1> HIDE DEF e, g, u, r
<1>17. Moving(s, e, ph, sc, h[cu].next, g, u)
  BY <1>4, <1>8, <1>10, <1>11, <1>12, <1>13, <1>14, <1>15, <1>16 DEF Moving, w
<1>18. KeysOf(s, e, g, u) = KeysOf(s, d, h, o)
  <2>1. NoKey \notin KeysIn(K, DataOf(h), o)
    BY KeysAssumption DEF KeysIn
  <2>. QED
    BY <2>1, <1>10, <1>14 DEF KeysOf, K
<1>19. LiveOf(u) = LiveOf(o)
  <2>1. o \in [Ids -> Place]
    BY <1>4 DEF Keyed
  <2>2. \A x \in Ids : u[x] # Nowhere <=> o[x] # Nowhere
    BY <2>1, <1>1, <1>6, <1>7, PlaceFacts DEF u
  <2>. QED
    BY <2>2 DEF LiveOf
<1>20. Moves(s, e, ph, sc, h[cu].next, g, KeysOf(s, d, h, o), LiveOf(o))
  BY <1>17, <1>18, <1>19 DEF Moves
<1>. QED
  BY <1>5, <1>20 DEF g, k, i

\* Where a walk begins in a bucket.
NextAt(t, j) == IF j = t.n THEN 0 ELSE t.bucket[j].next

\* A bucket without a head has no chain, but for what a walk has left of one.
LEMMA NoHeadNoChain ==
  ASSUME NEW s, NEW d, NEW ph, NEW sc, NEW cu, NEW h, NEW o,
         Moving(s, d, ph, sc, cu, h, o)
  PROVE  /\ \A j \in 0..(s.n - 1) : j # sc /\ s.bucket[j].data = NoKey => s.bucket[j].next = 0
         /\ \A j \in 0..(d.n - 1) : d.bucket[j].data = NoKey => d.bucket[j].next = 0
<1> DEFINE w == <<s.n, sc>>
           F == Firsts(s, d, d.free, w, cu)
           K == HeadsOf(s, d)
<1>1. s.n \in Nat \ {0} /\ d.n \in Nat \ {0} /\ s.n # d.n /\ sc \in Nat /\ cu \in Links
      /\ d.free \in Links
  BY SizeFacts DEF Moving, Walked, IsTable
<1>2. NextsOf(s, d) \in [Place -> Links]
  BY ViewTypes DEF Moving
<1>3. Ranked(F, NextOf(h), o) /\ Keyed(K, DataOf(h), o, 0)
  BY DEF Moving
<1>4. ASSUME NEW p \in Place \ {Nowhere}, Bucketed(p), F[p] # 0
      PROVE  K[p] # NoKey
  <2> HIDE DEF F, K
  <2>1. F[p] \in Ids /\ o[F[p]] = p
    BY <1>3, <1>4, FirstIs
  <2>. QED
    BY <2>1, <1>3, <1>4 DEF Keyed
<1>5. ASSUME NEW p \in Place, p # w, p # FreePlace
      PROVE  F[p] = NextsOf(s, d)[p]
  BY <1>2, <1>5 DEF Firsts
<1>6. ASSUME NEW j \in 0..(s.n - 1), j # sc, s.bucket[j].data = NoKey
      PROVE  s.bucket[j].next = 0
  <2>1. <<s.n, j>> \in Place \ {Nowhere} /\ Bucketed(<<s.n, j>>) /\ <<s.n, j>> # FreePlace
    BY <1>1, BucketPlace
  <2>2. <<s.n, j>> # w
    BY <1>6
  <2>3. K[<<s.n, j>>] = s.bucket[j].data /\ NextsOf(s, d)[<<s.n, j>>] = s.bucket[j].next
    BY ViewAt DEF Moving
  <2> HIDE DEF F, K, w
  <2>. QED
    BY <2>1, <2>2, <2>3, <1>4, <1>5, <1>6
<1>7. ASSUME NEW j \in 0..(d.n - 1), d.bucket[j].data = NoKey
      PROVE  d.bucket[j].next = 0
  <2>1. <<d.n, j>> \in Place \ {Nowhere} /\ Bucketed(<<d.n, j>>) /\ <<d.n, j>> # FreePlace
    BY <1>1, BucketPlace
  <2>2. <<d.n, j>> # w
    BY <1>1
  <2>3. K[<<d.n, j>>] = d.bucket[j].data /\ NextsOf(s, d)[<<d.n, j>>] = d.bucket[j].next
    BY ViewAt DEF Moving
  <2> HIDE DEF F, K, w
  <2>. QED
    BY <2>1, <2>2, <2>3, <1>4, <1>5, <1>7
<1>8. \A j \in 0..(s.n - 1) : j # sc /\ s.bucket[j].data = NoKey => s.bucket[j].next = 0
  BY <1>6
<1>9. \A j \in 0..(d.n - 1) : d.bucket[j].data = NoKey => d.bucket[j].next = 0
  BY <1>7
<1> HIDE DEF w, F, K
<1>. QED
  BY <1>8, <1>9

\* The walk goes on to the next bucket in use.
WalkedOn(t, ph, sc) == Walked(t, ph, NextUsed(t, sc + 1), NextAt(t, NextUsed(t, sc + 1)))

\* The walk goes on to the next bucket in use.
LEMMA WalkOn ==
  ASSUME NEW s, IsTable(s), NEW ph, NEW sc \in 0..(s.n - 1), Walked(s, ph, sc, 0),
         \A j \in 0..(s.n - 1) : j # sc /\ s.bucket[j].data = NoKey => s.bucket[j].next = 0,
         NEW r \in Buckets, r.next = 0, ph # "undo_safe" => r.data = NoKey,
         NEW us, NEW f \in Links
  PROVE  WalkedOn(Edited(s, sc, r, us, f), ph, sc)
<1> DEFINE t == Edited(s, sc, r, us, f)
           m == NextUsed(t, sc + 1)
           c == NextAt(t, m)
<1>1. IsTable(t) /\ t.n = s.n /\ \A j \in 0..(s.n - 1) : t.bucket[j] = IF j = sc THEN r ELSE s.bucket[j]
  BY DEF Edited, IsTable
<1>2. s.n \in Nat
  BY CellIs
<1> HIDE DEF t
<1>3. /\ m \in (sc + 1)..t.n /\ m \in 0..t.n
      /\ \A j \in (sc + 1)..(m - 1) : t.bucket[j].data = NoKey
      /\ m < t.n => t.bucket[m].data # NoKey
  <2>1. sc + 1 \in 0..t.n
    BY <1>1, <1>2
  <2>. QED
    BY <2>1, <1>1, NextUsedIs
<1> HIDE DEF m
<1>4. c \in Links /\ (m = t.n => c = 0)
  <2>1. 0 \in Links
    BY EmptyBucket
  <2>2. m # t.n => m \in 0..(t.n - 1)
    BY <1>1, <1>2, <1>3
  <2>. QED
    BY <2>1, <2>2, <1>1 DEF IsTable, Buckets, NextAt
<1>5. ASSUME NEW j \in 0..(m - 1)
      PROVE  IF ph = "undo_safe" THEN t.bucket[j].next = 0 ELSE t.bucket[j].data = NoKey
  <2>1. j \in 0..(s.n - 1)
    BY <1>1, <1>2, <1>3
  <2>2. CASE j = sc
    BY <2>1, <2>2, <1>1
  <2>3. CASE j < sc
    <3>1. j \in 0..(sc - 1) /\ t.bucket[j] = s.bucket[j]
      BY <2>1, <2>3, <1>1
    <3>. QED
      BY <3>1 DEF Walked
  <2>4. CASE j > sc
    <3>1. j \in (sc + 1)..(m - 1) /\ t.bucket[j] = s.bucket[j] /\ j # sc
      BY <2>1, <2>4, <1>1, <1>3
    <3>. QED
      BY <3>1, <2>1, <1>3
  <2>. QED
    BY <2>1, <2>2, <2>3, <2>4
<1>6. ph = "undo" => c = 0 /\ \A j \in 0..(t.n - 1) : t.bucket[j].next = 0
  <2>1. ph = "undo" => \A j \in 0..(t.n - 1) : t.bucket[j].next = 0
    BY <1>1 DEF Walked
  <2>2. m # t.n => m \in 0..(t.n - 1)
    BY <1>1, <1>2, <1>3
  <2>. QED
    BY <2>1, <2>2 DEF NextAt
<1> HIDE DEF c
<1>7. Walked(t, ph, m, c)
  BY <1>3, <1>4, <1>5, <1>6 DEF Walked
<1>. QED
  BY <1>7 DEF WalkedOn, t, m, c

\* The lists and heads when a bucket of the source has lost its chain.
CutAre(s, d, sc, r, us, f, c) ==
  LET w == <<s.n, sc>>
      t == Edited(s, sc, r, us, s.free)
      m == NextUsed(t, sc + 1)
  IN  /\ IsTable(t) /\ t.n = s.n /\ t.used = us
      /\ Firsts(t, d, f, <<t.n, m>>, NextAt(t, m))
           = [Firsts(s, d, d.free, w, c) EXCEPT ![w] = 0, ![FreePlace] = f]
      /\ NextsOf(t, d) = [NextsOf(s, d) EXCEPT ![w] = 0]
      /\ HeadsOf(t, d) = [HeadsOf(s, d) EXCEPT ![w] = r.data]

\* The lists when the bucket that is walked loses its chain.
LEMMA Cuts ==
  ASSUME NEW s, NEW d, NEW sc \in 0..(s.n - 1), NEW r \in Buckets, NEW us, NEW f \in Links,
         NEW c \in Links, IsTable(s), IsTable(d), s.n # 0, s.n # d.n, r.next = 0
  PROVE  CutAre(s, d, sc, r, us, f, c)
<1> DEFINE t == Edited(s, sc, r, us, s.free)
           X == NextsOf(s, d)
           w == <<s.n, sc>>
           m == NextUsed(t, sc + 1)
<1>1. s.free \in Links /\ s.n \in Nat \ {0}
  BY CellIs DEF IsTable
<1>2. IsTable(t) /\ t.n = s.n /\ t.used = us /\ t.bucket = [s.bucket EXCEPT ![sc] = r]
  BY <1>1, EditedIs
<1> HIDE DEF t
<1>3. NextsOf(t, d) = [X EXCEPT ![w] = r.next] /\ HeadsOf(t, d) = [HeadsOf(s, d) EXCEPT ![w] = r.data]
  BY <1>2, ViewEdit
<1>4. m \in 0..t.n
  <2>1. sc + 1 \in 0..t.n
    BY <1>1, <1>2
  <2>. QED
    BY <2>1, <1>2, NextUsedIs
<1>5. Firsts(t, d, f, <<t.n, m>>, NextAt(t, m)) = [NextsOf(t, d) EXCEPT ![FreePlace] = f]
  <2> HIDE DEF m
  <2>1. t.n # d.n /\ t.n # 0
    BY <1>2
  <2>2. NextAt(t, m) = IF m = t.n THEN 0 ELSE t.bucket[m].next
    BY DEF NextAt
  <2>3. Plain(t, d, f, m, NextAt(t, m))
    BY <2>1, <2>2, <1>2, <1>4, FirstsPlain
  <2>. QED
    BY <2>3 DEF Plain
<1>6. X \in [Place -> Links]
  BY ViewTypes
<1>7. w \in Place /\ w # FreePlace
  BY <1>1, BucketPlace
<1>8. [[X EXCEPT ![w] = 0] EXCEPT ![FreePlace] = f]
        = [Firsts(s, d, d.free, w, c) EXCEPT ![w] = 0, ![FreePlace] = f]
  <2> HIDE DEF X, w
  <2>. QED
    BY <1>6, <1>7, PlaceFacts DEF Firsts, X
<1> HIDE DEF m, w, X
<1>9. NextsOf(t, d) = [X EXCEPT ![w] = 0]
  BY <1>3
<1>10. Firsts(t, d, f, <<t.n, m>>, NextAt(t, m))
         = [Firsts(s, d, d.free, w, c) EXCEPT ![w] = 0, ![FreePlace] = f]
  BY <1>5, <1>8, <1>9
<1>. QED
  BY <1>2, <1>3, <1>9, <1>10 DEF t, m, w, X, CutAre

\* A bucket of the source has lost its chain, and one of the destination changes.
BothAre(s, d, sc, r, us, i, p, vs, f, c) ==
  LET w == <<s.n, sc>>
      q == <<d.n, i>>
      t == Edited(s, sc, r, us, s.free)
      e == Edited(d, i, p, vs, f)
      m == NextUsed(t, sc + 1)
  IN  /\ IsTable(t) /\ t.n = s.n /\ t.used = us
      /\ IsTable(e) /\ e.n = d.n /\ e.used = vs /\ e.free = f
      /\ Firsts(t, e, f, <<t.n, m>>, NextAt(t, m))
           = [Firsts(s, d, d.free, w, c) EXCEPT ![w] = 0, ![FreePlace] = f, ![q] = p.next]
      /\ HeadsOf(t, e) = [HeadsOf(s, d) EXCEPT ![w] = r.data, ![q] = p.data]

\* The lists when a head goes from the one table to the other.
LEMMA BothChange ==
  ASSUME NEW s, NEW d, NEW sc \in 0..(s.n - 1), NEW r \in Buckets, NEW us,
         NEW i \in 0..(d.n - 1), NEW p \in Buckets, NEW vs, NEW f \in Links,
         NEW c \in Links, IsTable(s), IsTable(d), s.n # 0, d.n # 0, s.n # d.n, r.next = 0
  PROVE  BothAre(s, d, sc, r, us, i, p, vs, f, c)
<1> DEFINE w == <<s.n, sc>>
           q == <<d.n, i>>
           t == Edited(s, sc, r, us, s.free)
           e == Edited(d, i, p, vs, f)
           m == NextUsed(t, sc + 1)
           v == <<t.n, m>>
           y == NextAt(t, m)
           F == Firsts(s, d, d.free, w, c)
           G == Firsts(t, d, d.free, v, y)
<1>1. d.free \in Links /\ s.n \in Nat \ {0} /\ d.n \in Nat \ {0}
  BY CellIs DEF IsTable
<1>2. CutAre(s, d, sc, r, us, d.free, c)
  BY <1>1, Cuts
<1>3. IsTable(t) /\ t.n = s.n /\ t.used = us /\ G = [F EXCEPT ![w] = 0, ![FreePlace] = d.free]
      /\ HeadsOf(t, d) = [HeadsOf(s, d) EXCEPT ![w] = r.data]
  BY <1>2 DEF CutAre
<1>4. IsTable(e) /\ e.n = d.n /\ e.used = vs /\ e.free = f
  BY DEF Edited, IsTable
<1> HIDE DEF t, e
<1>5. m \in Nat /\ m \in 0..t.n
  <2>1. sc + 1 \in 0..t.n
    BY <1>1, <1>3
  <2>2. m \in 0..t.n
    BY <2>1, <1>3, NextUsedIs
  <2>. QED
    BY <2>2, <1>1, <1>3
<1>6. y \in Links
  <2>1. m # t.n => m \in 0..(t.n - 1)
    BY <1>1, <1>3, <1>5
  <2> HIDE DEF m
  <2>. QED
    BY <2>1, <1>3, EmptyBucket DEF NextAt, IsTable, Buckets
<1> HIDE DEF m, y
<1>7. FirstsAre(t, d, i, p, vs, f, m, y, y)
  BY <1>1, <1>3, <1>5, <1>6, FirstsTo
<1>8. /\ Firsts(t, e, f, v, y) = [G EXCEPT ![v] = y, ![FreePlace] = f, ![q] = p.next]
      /\ HeadsOf(t, e) = [HeadsOf(t, d) EXCEPT ![q] = p.data]
      /\ G \in [Place -> Links] /\ G[v] = y
  BY <1>7 DEF FirstsAre, e
<1>9. w \in Place /\ q \in Place /\ w # FreePlace /\ q # FreePlace
  BY <1>1, BucketPlace
<1>10. F \in [Place -> Links] /\ HeadsOf(s, d) \in [Place -> Keys \cup {NoKey}]
  <2>1. NextsOf(s, d) \in [Place -> Links] /\ HeadsOf(s, d) \in [Place -> Keys \cup {NoKey}]
    BY ViewTypes
  <2> HIDE DEF w
  <2>. QED
    BY <2>1, <1>1 DEF Firsts
<1>12. w # q /\ v # FreePlace /\ v # q
  <2>1. v # FreePlace
    BY <1>1, <1>3, <1>5, BucketPlace
  <2>. QED
    BY <2>1, <1>3
<1> HIDE DEF w, q, v, F, G
<1>11. [G EXCEPT ![v] = y, ![FreePlace] = f, ![q] = p.next]
         = [F EXCEPT ![w] = 0, ![FreePlace] = f, ![q] = p.next]
  <2>1. [G EXCEPT ![v] = y, ![FreePlace] = f, ![q] = p.next]
          = [G EXCEPT ![FreePlace] = f, ![q] = p.next]
    BY <1>8
  <2>2. [[F EXCEPT ![w] = 0, ![FreePlace] = d.free] EXCEPT ![FreePlace] = f, ![q] = p.next]
          = [F EXCEPT ![w] = 0, ![FreePlace] = f, ![q] = p.next]
    BY <1>9, <1>10, PlaceFacts
  <2>. QED
    BY <2>1, <2>2, <1>3
<1>13. [[HeadsOf(s, d) EXCEPT ![w] = r.data] EXCEPT ![q] = p.data]
         = [HeadsOf(s, d) EXCEPT ![w] = r.data, ![q] = p.data]
  OBVIOUS
<1>. QED
  BY <1>3, <1>4, <1>8, <1>11, <1>13 DEF BothAre, w, q, v, y, m, t, e, F

\* What holds of a head that is to be moved.
HeadIs(s, d, ph, sc, h, o, w, F, K) ==
  /\ IsTable(s) /\ IsTable(d) /\ IsSize(s.n) /\ IsSize(d.n) /\ s.n # d.n
  /\ s.n # 0 /\ d.n # 0 /\ h \in Heaps /\ Counted(s) /\ Counted(d)
  /\ Ranked(F, NextOf(h), o) /\ Keyed(K, DataOf(h), o, 0)
  /\ sc \in 0..(s.n - 1) /\ w \in Place \ {Nowhere} /\ Bucketed(w) /\ w # FreePlace
  /\ F[w] = 0 /\ F[FreePlace] = d.free /\ d.free \in Links /\ F \in [Place -> Links]
  /\ K[w] = s.bucket[sc].data /\ K[w] \in Keys /\ K[w] # NoKey
  /\ \A e \in Ids : o[e] # w
  /\ o \in [Ids -> Place] /\ K \in [Place -> Keys \cup {NoKey}]
  /\ \A us : \A r \in Buckets : r.next = 0 /\ (ph # "undo_safe" => r.data = NoKey)
                                  => WalkedOn(Edited(s, sc, r, us, s.free), ph, sc)
  /\ \A j \in 0..(d.n - 1) : d.bucket[j].data = NoKey => d.bucket[j].next = 0

\* What holds when only the head is left to move.
LEMMA HeadFacts ==
  ASSUME NEW s, NEW d, NEW ph, NEW sc, NEW h, NEW o,
         Moving(s, d, ph, sc, 0, h, o), sc < s.n
  PROVE  HeadIs(s, d, ph, sc, h, o, <<s.n, sc>>, Firsts(s, d, d.free, <<s.n, sc>>, 0),
                HeadsOf(s, d))
<1> DEFINE w == <<s.n, sc>>
           F == Firsts(s, d, d.free, w, 0)
           K == HeadsOf(s, d)
<1>1. Here(s, d, sc, 0, w, F, K)
  BY MovingAt
<1>2. /\ IsTable(s) /\ IsTable(d) /\ IsSize(s.n) /\ IsSize(d.n) /\ s.n # d.n
      /\ s.n # 0 /\ d.n # 0 /\ h \in Heaps /\ Counted(s) /\ Counted(d)
      /\ Ranked(F, NextOf(h), o) /\ Keyed(K, DataOf(h), o, 0) /\ Walked(s, ph, sc, 0)
  BY SizeFacts DEF Moving
<1>3. /\ \A j \in 0..(s.n - 1) : j # sc /\ s.bucket[j].data = NoKey => s.bucket[j].next = 0
      /\ \A j \in 0..(d.n - 1) : d.bucket[j].data = NoKey => d.bucket[j].next = 0
  BY NoHeadNoChain
<1> HIDE DEF w, F, K
<1>4. /\ sc \in 0..(s.n - 1) /\ w \in Place \ {Nowhere} /\ Bucketed(w) /\ w # FreePlace
      /\ F[w] = 0 /\ F[FreePlace] = d.free /\ d.free \in Links /\ F \in [Place -> Links]
      /\ K[w] = s.bucket[sc].data /\ K[w] \in Keys /\ K[w] # NoKey
  BY <1>1, KeysAssumption DEF Here
<1>5. \A e \in Ids : o[e] # w
  BY <1>2, <1>4, FirstIs
<1>6. o \in [Ids -> Place] /\ K \in [Place -> Keys \cup {NoKey}]
  BY <1>2 DEF Keyed
<1>7. ASSUME NEW r \in Buckets, NEW us, r.next = 0, ph # "undo_safe" => r.data = NoKey
      PROVE  WalkedOn(Edited(s, sc, r, us, s.free), ph, sc)
  <2>1. s.free \in Links
    BY <1>2 DEF IsTable
  <2>. QED
    BY <2>1, <1>2, <1>3, <1>4, <1>7, WalkOn
<1>8. HeadIs(s, d, ph, sc, h, o, w, F, K)
  BY <1>2, <1>3, <1>4, <1>5, <1>6, <1>7 DEF HeadIs
<1>. QED
  BY <1>8 DEF w, F, K

\* The first pass of the undoing goes past a head.
LEMMA KeepsHead ==
  ASSUME NEW s, NEW d, NEW sc, NEW h, NEW o, Moving(s, d, "undo_safe", sc, 0, h, o), sc < s.n,
         NEW t, t = [s EXCEPT !.bucket[sc].next = 0], NEW m, m = NextUsed(t, sc + 1)
  PROVE  Moves(t, d, "undo_safe", m, NextAt(t, m), h, KeysOf(s, d, h, o), LiveOf(o))
<1> DEFINE w == <<s.n, sc>>
           F == Firsts(s, d, d.free, w, 0)
           K == HeadsOf(s, d)
           r == [data |-> s.bucket[sc].data, next |-> 0]
           e == Edited(s, sc, r, s.used, s.free)
<1>1. HeadIs(s, d, "undo_safe", sc, h, o, w, F, K)
  BY HeadFacts
<1> HIDE DEF w, F, K
<1>2. /\ IsTable(s) /\ IsTable(d) /\ IsSize(s.n) /\ IsSize(d.n) /\ s.n # d.n /\ s.n # 0
      /\ h \in Heaps /\ Counted(s) /\ Counted(d) /\ sc \in 0..(s.n - 1) /\ d.free \in Links
      /\ Ranked(F, NextOf(h), o) /\ Keyed(K, DataOf(h), o, 0) /\ w \in Place
      /\ F[w] = 0 /\ F[FreePlace] = d.free /\ F \in [Place -> Links]
      /\ K[w] = s.bucket[sc].data /\ K \in [Place -> Keys \cup {NoKey}]
  BY <1>1 DEF HeadIs
<1>3. t = e /\ r \in Buckets
  <2>1. 0 \in Links
    BY EmptyBucket
  <2>. QED
    BY <2>1, <1>2, PutNextIs
<1>4. r.next = 0 /\ r.data = K[w]
  BY <1>2
<1>5. CutAre(s, d, sc, r, s.used, d.free, 0)
  <2>1. 0 \in Links
    BY EmptyBucket
  <2> HIDE DEF r
  <2>. QED
    BY <2>1, <1>2, <1>3, <1>4, Cuts
<1> HIDE DEF r
<1>6. /\ IsTable(e) /\ e.n = s.n /\ e.used = s.used
      /\ Firsts(e, d, d.free, <<e.n, m>>, NextAt(e, m)) = [F EXCEPT ![w] = 0, ![FreePlace] = d.free]
      /\ HeadsOf(e, d) = [K EXCEPT ![w] = r.data]
  BY <1>3, <1>5 DEF CutAre, w, F, K
<1>7. [F EXCEPT ![w] = 0, ![FreePlace] = d.free] = F /\ [K EXCEPT ![w] = r.data] = K
  BY <1>2, <1>4
<1>8. Walked(t, "undo_safe", m, NextAt(t, m))
  <2>1. WalkedOn(e, "undo_safe", sc)
    BY <1>1, <1>3, <1>4 DEF HeadIs
  <2>. QED
    BY <2>1, <1>3 DEF WalkedOn
<1>9. Counted(t)
  <2>1. CountsIn(s, sc, r, s.used, s.free)
    <3>1. s.free \in Links
      BY <1>2 DEF IsTable
    <3>. QED
      BY <3>1, <1>2, <1>3, CountEdited
  <2>2. Cardinality(UsedBuckets(e)) = Cardinality(UsedBuckets(s))
    BY <2>1, <1>2, <1>4 DEF CountsIn
  <2> HIDE DEF e
  <2>. QED
    BY <2>2, <1>2, <1>3, <1>6 DEF Counted
<1> HIDE DEF e
<1>10. Moving(t, d, "undo_safe", m, NextAt(t, m), h, o)
  BY <1>2, <1>3, <1>6, <1>7, <1>8, <1>9 DEF Moving
<1>11. KeysOf(t, d, h, o) = KeysOf(s, d, h, o)
  BY <1>3, <1>6, <1>7 DEF KeysOf, K
<1>. QED
  BY <1>10, <1>11 DEF Moves

\* Where a head goes.
LEMMA HeadTo ==
  ASSUME NEW s, NEW d, NEW ph, NEW sc, NEW h, NEW o,
         Moving(s, d, ph, sc, 0, h, o), sc < s.n
  PROVE  There(s, d, sc, 0, s.bucket[sc].data, Home(d, s.bucket[sc].data),
               <<d.n, Home(d, s.bucket[sc].data)>>,
               Firsts(s, d, d.free, <<s.n, sc>>, 0), HeadsOf(s, d))
<1> DEFINE k == s.bucket[sc].data
<1>1. k \in Keys
  <2>1. Here(s, d, sc, 0, <<s.n, sc>>, Firsts(s, d, d.free, <<s.n, sc>>, 0), HeadsOf(s, d))
    BY MovingAt
  <2>. QED
    BY <2>1 DEF Here
<1> HIDE DEF k
<1>2. There(s, d, sc, 0, k, Home(d, k), <<d.n, Home(d, k)>>,
            Firsts(s, d, d.free, <<s.n, sc>>, 0), HeadsOf(s, d))
  BY <1>1, MovingTo
<1>. QED
  BY <1>2 DEF k

\* What becomes of the tables s and d: the head k goes from sc to the empty bucket i.
HeadFills(s, d, sc, k, i, t, e) ==
  /\ t = [s EXCEPT !.bucket[sc] = Empty, !.used = @ - 1]
  /\ e = [d EXCEPT !.bucket[i].data = k, !.used = @ + 1]

\* It goes to the chain of bucket i, in the entry x; y is the free list after that.
HeadChains(s, d, sc, k, i, h, x, y, t, e, g) ==
  /\ t = [s EXCEPT !.bucket[sc] = Empty, !.used = @ - 1]
  /\ e = [d EXCEPT !.bucket[i].next = x, !.free = y]
  /\ g = [h EXCEPT ![x] = [data |-> k, next |-> d.bucket[i].next]]

\* Where the entry x is from: the free list, or memory.
Supplied(d, h, o, x, y, lv) ==
  \/ d.free # 0 /\ x = d.free /\ y = h[x].next /\ lv = LiveOf(o)
  \/ d.free = 0 /\ o[x] = Nowhere /\ y = 0 /\ lv = LiveOf(o) \cup {x}

\* A head becomes the head of an empty bucket.
LEMMA MovesHead ==
  ASSUME NEW s, NEW d, NEW ph, NEW sc, NEW h, NEW o, Moving(s, d, ph, sc, 0, h, o), sc < s.n,
         NEW k, k = s.bucket[sc].data, NEW i, i = Home(d, k),
         d.bucket[i].data = NoKey, ph # "undo_safe",
         NEW t, NEW e, HeadFills(s, d, sc, k, i, t, e),
         NEW m, m = NextUsed(t, sc + 1)
  PROVE  Moves(t, e, ph, m, NextAt(t, m), h, KeysOf(s, d, h, o), LiveOf(o))
<1> DEFINE w == <<s.n, sc>>
           q == <<d.n, i>>
           F == Firsts(s, d, d.free, w, 0)
           K == HeadsOf(s, d)
           p == [data |-> k, next |-> d.bucket[i].next]
           tt == Edited(s, sc, Empty, s.used - 1, s.free)
           ee == Edited(d, i, p, d.used + 1, d.free)
<1>1. HeadIs(s, d, ph, sc, h, o, w, F, K)
  BY HeadFacts
<1>2. There(s, d, sc, 0, k, i, q, F, K)
  BY HeadTo
<1> HIDE DEF w, F, K, q
<1>3. /\ IsTable(s) /\ IsTable(d) /\ IsSize(s.n) /\ IsSize(d.n) /\ s.n # d.n /\ s.n # 0 /\ d.n # 0
      /\ h \in Heaps /\ Counted(s) /\ Counted(d) /\ sc \in 0..(s.n - 1) /\ d.free \in Links
      /\ Ranked(F, NextOf(h), o) /\ Keyed(K, DataOf(h), o, 0) /\ w \in Place
      /\ F[w] = 0 /\ F[FreePlace] = d.free /\ F \in [Place -> Links]
      /\ K[w] = k /\ k \in Keys /\ k # NoKey /\ K \in [Place -> Keys \cup {NoKey}]
      /\ (\A x \in Ids : o[x] # w)
  BY <1>1 DEF HeadIs
<1>4. /\ i \in 0..(d.n - 1) /\ q \in Place /\ q # FreePlace /\ AtHome(q, k)
      /\ K[q] = NoKey /\ F[q] = d.bucket[i].next /\ q # w
  BY <1>2 DEF There, w
<1>5. t = tt
  <2>1. BucketPut(s, sc, Empty, s.free)
    <3>1. s.free \in Links
      BY <1>3 DEF IsTable
    <3>. QED
      BY <3>1, <1>3, EmptyBucket, PutBucketIs
  <2>. QED
    BY <2>1 DEF BucketPut, HeadFills
<1>6. e = ee /\ p \in Buckets
  <2>1. DataPut(d, i, k, d.free)
    <3>1. k \in Keys \cup {NoKey}
      BY <1>3
    <3>. QED
      BY <3>1, <1>3, <1>4, PutDataIs
  <2>. QED
    BY <2>1 DEF DataPut, HeadFills
<1>7. BothAre(s, d, sc, Empty, s.used - 1, i, p, d.used + 1, d.free, 0)
  <2>1. 0 \in Links /\ Empty \in Buckets /\ Empty.next = 0
    BY EmptyBucket
  <2> HIDE DEF p
  <2>. QED
    BY <2>1, <1>3, <1>4, <1>6, BothChange
<1>8. /\ IsTable(t) /\ t.n = s.n /\ t.used = s.used - 1
      /\ IsTable(e) /\ e.n = d.n /\ e.used = d.used + 1 /\ e.free = d.free
      /\ Firsts(t, e, d.free, <<t.n, m>>, NextAt(t, m))
           = [F EXCEPT ![w] = 0, ![FreePlace] = d.free, ![q] = p.next]
      /\ HeadsOf(t, e) = [K EXCEPT ![w] = Empty.data, ![q] = p.data]
  BY <1>5, <1>6, <1>7 DEF BothAre, w, q, F, K
<1>9. [F EXCEPT ![w] = 0, ![FreePlace] = d.free, ![q] = p.next] = F
  <2>1. p.next = F[q]
    BY <1>4
  <2> HIDE DEF p
  <2>. QED
    BY <2>1, <1>3, <1>4
<1>10. [K EXCEPT ![w] = Empty.data, ![q] = p.data] = [K EXCEPT ![w] = NoKey, ![q] = K[w]]
  <2>1. p.data = K[w] /\ Empty.data = NoKey
    BY <1>3, EmptyBucket
  <2>. QED
    BY <2>1
<1>11. HeadShifts(K, DataOf(h), o, w, q)
  <2>1. K[w] # NoKey /\ AtHome(q, K[w])
    BY <1>3, <1>4
  <2>. QED
    BY <2>1, <1>3, <1>4, HeadMoves
<1>12. Keyed(HeadsOf(t, e), DataOf(h), o, 0)
       /\ KeysIn(HeadsOf(t, e), DataOf(h), o) = KeysIn(K, DataOf(h), o)
  BY <1>8, <1>10, <1>11 DEF HeadShifts
<1>13. Walked(t, ph, m, NextAt(t, m))
  <2>1. WalkedOn(tt, ph, sc)
    BY <1>1, EmptyBucket DEF HeadIs
  <2>. QED
    BY <2>1, <1>5 DEF WalkedOn
<1>14. Counted(t)
  <2>1. CountsIn(s, sc, Empty, s.used - 1, s.free)
    <3>1. s.free \in Links
      BY <1>3 DEF IsTable
    <3>. QED
      BY <3>1, <1>3, EmptyBucket, CountEdited
  <2>2. Cardinality(UsedBuckets(tt)) = Cardinality(UsedBuckets(s)) - 1
    BY <2>1, <1>3, EmptyBucket DEF CountsIn
  <2> HIDE DEF tt
  <2>. QED
    BY <2>2, <1>3, <1>5, <1>8 DEF Counted
<1>15. Counted(e)
  <2>1. p.data = k
    OBVIOUS
  <2>2. CountsIn(d, i, p, d.used + 1, d.free)
    <3> HIDE DEF p
    <3>. QED
      BY <1>3, <1>4, <1>6, CountEdited
  <2> HIDE DEF p
  <2>3. Cardinality(UsedBuckets(ee)) = Cardinality(UsedBuckets(d)) + 1
    BY <2>1, <2>2, <1>3 DEF CountsIn
  <2> HIDE DEF ee
  <2>. QED
    BY <2>3, <1>3, <1>6, <1>8 DEF Counted
<1> HIDE DEF tt, ee, p
<1>16. Moving(t, e, ph, m, NextAt(t, m), h, o)
  BY <1>3, <1>8, <1>9, <1>12, <1>13, <1>14, <1>15 DEF Moving
<1>17. KeysOf(t, e, h, o) = KeysOf(s, d, h, o)
  BY <1>12 DEF KeysOf, K
<1>. QED
  BY <1>16, <1>17 DEF Moves

\* A head goes into the chain of another, in an entry of the free list or in a new one.
LEMMA MovesHeadIn ==
  ASSUME NEW s, NEW d, NEW ph, NEW sc, NEW h, NEW o, Moving(s, d, ph, sc, 0, h, o), sc < s.n,
         NEW k, k = s.bucket[sc].data, NEW i, i = Home(d, k),
         d.bucket[i].data # NoKey, ph # "undo_safe",
         NEW x \in Ids, NEW y \in Links, NEW lv, Supplied(d, h, o, x, y, lv),
         NEW t, NEW e, NEW g, HeadChains(s, d, sc, k, i, h, x, y, t, e, g),
         NEW m, m = NextUsed(t, sc + 1)
  PROVE  Moves(t, e, ph, m, NextAt(t, m), g, KeysOf(s, d, h, o), lv)
<1> DEFINE w == <<s.n, sc>>
           q == <<d.n, i>>
           F == Firsts(s, d, d.free, w, 0)
           K == HeadsOf(s, d)
           p == [data |-> d.bucket[i].data, next |-> x]
           tt == Edited(s, sc, Empty, s.used - 1, s.free)
           ee == Edited(d, i, p, d.used, y)
           u == [o EXCEPT ![x] = q]
<1>1. HeadIs(s, d, ph, sc, h, o, w, F, K)
  BY HeadFacts
<1>2. There(s, d, sc, 0, k, i, q, F, K)
  BY HeadTo
<1> HIDE DEF w, F, K, q
<1>3. /\ IsTable(s) /\ IsTable(d) /\ IsSize(s.n) /\ IsSize(d.n) /\ s.n # d.n /\ s.n # 0 /\ d.n # 0
      /\ h \in Heaps /\ Counted(s) /\ Counted(d) /\ sc \in 0..(s.n - 1) /\ d.free \in Links
      /\ Ranked(F, NextOf(h), o) /\ Keyed(K, DataOf(h), o, 0) /\ w \in Place
      /\ F[w] = 0 /\ F[FreePlace] = d.free /\ F \in [Place -> Links]
      /\ K[w] = k /\ k \in Keys /\ k # NoKey /\ K \in [Place -> Keys \cup {NoKey}]
      /\ (\A f \in Ids : o[f] # w) /\ o \in [Ids -> Place]
  BY <1>1 DEF HeadIs
<1>4. /\ i \in 0..(d.n - 1) /\ q \in Place \ {Nowhere} /\ q # FreePlace /\ AtHome(q, k)
      /\ K[q] = d.bucket[i].data /\ K[q] # NoKey /\ F[q] = d.bucket[i].next /\ q # w
      /\ d.bucket[i].next \in Links
  BY <1>2 DEF There, w, Buckets
<1>5. t = tt
  <2>1. BucketPut(s, sc, Empty, s.free)
    <3>1. s.free \in Links
      BY <1>3 DEF IsTable
    <3>. QED
      BY <3>1, <1>3, EmptyBucket, PutBucketIs
  <2>. QED
    BY <2>1 DEF BucketPut, HeadChains
<1>6. e = ee /\ p \in Buckets
  <2>1. LinkPut(d, i, x, y)
    BY <1>3, <1>4, IdsLinks, PutLinkIs
  <2>. QED
    BY <2>1 DEF LinkPut, HeadChains
<1>7. BothAre(s, d, sc, Empty, s.used - 1, i, p, d.used, y, 0)
  <2>1. 0 \in Links /\ Empty \in Buckets /\ Empty.next = 0
    BY EmptyBucket
  <2> HIDE DEF p
  <2>. QED
    BY <2>1, <1>3, <1>4, <1>6, BothChange
<1>8. /\ IsTable(t) /\ t.n = s.n /\ t.used = s.used - 1
      /\ IsTable(e) /\ e.n = d.n /\ e.used = d.used /\ e.free = y
      /\ Firsts(t, e, y, <<t.n, m>>, NextAt(t, m))
           = [F EXCEPT ![w] = 0, ![FreePlace] = y, ![q] = p.next]
      /\ HeadsOf(t, e) = [K EXCEPT ![w] = Empty.data, ![q] = p.data]
  BY <1>5, <1>6, <1>7 DEF BothAre, w, q, F, K
<1>9. [F EXCEPT ![w] = 0, ![FreePlace] = y, ![q] = p.next] = [F EXCEPT ![FreePlace] = y, ![q] = x]
  <2>1. p.next = x
    OBVIOUS
  <2>2. [F EXCEPT ![w] = 0] = F
    BY <1>3
  <2>3. [F EXCEPT ![w] = 0, ![FreePlace] = y, ![q] = x] = [F EXCEPT ![FreePlace] = y, ![q] = x]
    BY <2>2
  <2> HIDE DEF p
  <2>. QED
    BY <2>1, <2>3
<1>10. [K EXCEPT ![w] = Empty.data, ![q] = p.data] = [K EXCEPT ![w] = NoKey]
  <2>1. p.data = K[q] /\ Empty.data = NoKey
    BY <1>4, EmptyBucket
  <2> HIDE DEF p
  <2>. QED
    BY <2>1, <1>3, <1>4
<1>11. ~Bucketed(o[x])
  <2>1. CASE d.free # 0 /\ x = d.free
    BY <2>1, <1>3, FirstIs, PlaceFacts
  <2>2. CASE o[x] = Nowhere
    BY <2>2, PlaceFacts
  <2>. QED
    BY <2>1, <2>2 DEF Supplied
<1>12. BecomesChained(K, DataOf(h), o, w, x, q)
  <2>1. K[w] # NoKey /\ AtHome(q, K[w])
    BY <1>3, <1>4
  <2>. QED
    BY <2>1, <1>3, <1>4, <1>11, ToChain
<1>13. g \in Heaps /\ NextOf(g) = [NextOf(h) EXCEPT ![x] = F[q]]
       /\ DataOf(g) = [DataOf(h) EXCEPT ![x] = K[w]]
  <2>1. EntryPut(h, x, k, d.bucket[i].next)
    BY <1>3, <1>4, HeapPut
  <2>. QED
    BY <2>1, <1>3, <1>4 DEF EntryPut, HeadChains
<1>14. Keyed(HeadsOf(t, e), DataOf(g), u, 0)
       /\ KeysIn(HeadsOf(t, e), DataOf(g), u) = KeysIn(K, DataOf(h), o)
  BY <1>8, <1>10, <1>12, <1>13 DEF BecomesChained
<1>15. Ranked([F EXCEPT ![FreePlace] = y, ![q] = x], NextOf(g), u) /\ LiveOf(u) = lv
  <2>1. CASE d.free # 0 /\ x = d.free /\ y = h[x].next /\ lv = LiveOf(o)
    <3>1. FirstMoved(F, NextOf(h), o, FreePlace, q)
      BY <2>1, <1>3, <1>4, PlaceFacts, MoveFirst
    <3>2. y = NextOf(h)[x] /\ x = F[FreePlace]
      BY <2>1, <1>3 DEF NextOf
    <3>3. o[x] = FreePlace
      BY <3>1, <3>2 DEF FirstMoved
    <3>4. LiveOf(u) = lv
      BY <2>1, <3>3, <1>3, <1>4, PlaceFacts DEF LiveOf
    <3>. QED
      BY <3>1, <3>2, <3>4, <1>13 DEF FirstMoved
  <2>2. CASE d.free = 0 /\ o[x] = Nowhere /\ y = 0 /\ lv = LiveOf(o) \cup {x}
    <3>1. FirstPut(F, NextOf(h), o, q, x)
      BY <2>2, <1>3, <1>4, PutFirst
    <3>2. [F EXCEPT ![FreePlace] = y, ![q] = x] = [F EXCEPT ![q] = x]
      BY <2>2, <1>3
    <3>3. LiveOf(u) = lv
      BY <2>2, <1>3, <1>4 DEF LiveOf
    <3>. QED
      BY <3>1, <3>2, <3>3, <1>13 DEF FirstPut
  <2>. QED
    BY <2>1, <2>2 DEF Supplied
<1>16. Walked(t, ph, m, NextAt(t, m))
  <2>1. WalkedOn(tt, ph, sc)
    BY <1>1, EmptyBucket DEF HeadIs
  <2>. QED
    BY <2>1, <1>5 DEF WalkedOn
<1>17. Counted(t)
  <2>1. CountsIn(s, sc, Empty, s.used - 1, s.free)
    <3>1. s.free \in Links
      BY <1>3 DEF IsTable
    <3>. QED
      BY <3>1, <1>3, EmptyBucket, CountEdited
  <2>2. Cardinality(UsedBuckets(tt)) = Cardinality(UsedBuckets(s)) - 1
    BY <2>1, <1>3, EmptyBucket DEF CountsIn
  <2> HIDE DEF tt
  <2>. QED
    BY <2>2, <1>3, <1>5, <1>8 DEF Counted
<1>18. Counted(e)
  <2>1. p.data # NoKey
    OBVIOUS
  <2>2. CountsIn(d, i, p, d.used, y)
    <3> HIDE DEF p
    <3>. QED
      BY <1>3, <1>4, <1>6, CountEdited
  <2> HIDE DEF p
  <2>3. Cardinality(UsedBuckets(ee)) = Cardinality(UsedBuckets(d))
    BY <2>1, <2>2, <1>3 DEF CountsIn
  <2> HIDE DEF ee
  <2>. QED
    BY <2>3, <1>3, <1>6, <1>8 DEF Counted
<1> HIDE DEF tt, ee, p, u
<1>23. Ranked(Firsts(t, e, e.free, <<t.n, m>>, NextAt(t, m)), NextOf(g), u)
  BY <1>8, <1>9, <1>15
<1>24. Keyed(HeadsOf(t, e), DataOf(g), u, 0) /\ g \in Heaps
  BY <1>13, <1>14
<1>25. IsTable(t) /\ t.n = s.n /\ IsTable(e) /\ e.n = d.n
  BY <1>8
<1>19. Moving(t, e, ph, m, NextAt(t, m), g, u)
  BY <1>3, <1>16, <1>17, <1>18, <1>23, <1>24, <1>25 DEF Moving
<1>20. KeysOf(t, e, g, u) = KeysOf(s, d, h, o)
  BY <1>14 DEF KeysOf, K
<1>21. LiveOf(u) = lv
  BY <1>15
<1>22. \E v : Moving(t, e, ph, m, NextAt(t, m), g, v) /\ KeysOf(t, e, g, v) = KeysOf(s, d, h, o)
              /\ LiveOf(v) = lv
  BY <1>19, <1>20, <1>21
<1>. QED
  BY <1>22 DEF Moves

-----------------------------------------------------------------------------
(***************************************************************************)
(* A table at rest, and how a transfer begins, turns back and ends.        *)
(***************************************************************************)
Lists(t) == [NextsOf(t, NoTable) EXCEPT ![FreePlace] = t.free]

\* x is the entry, if any, that has not got its node yet.
Resting(t, h, o, x) ==
  /\ IsTable(t) /\ IsSize(t.n) /\ h \in Heaps
  /\ Ranked(Lists(t), NextOf(h), o) /\ Keyed(HeadsOf(t, NoTable), DataOf(h), o, x)

RestKeys(t, h, o) == KeysIn(HeadsOf(t, NoTable), DataOf(h), o)

\* The buckets where keys would be, in a table of n.
Homes(n, ks) == {<<n, HashOf(k) % n>> : k \in ks}

\* There are entries enough for the keys to be put in a table of n buckets.
Enough(n, ks, lv) == Cardinality(ks) <= Cardinality(lv) + Cardinality(Homes(n, ks))

\* There are finitely many buckets where the keys would be.
LEMMA HomesFinite ==
  ASSUME NEW n, NEW ks \in SUBSET Keys
  PROVE  IsFiniteSet(Homes(n, ks)) /\ Cardinality(Homes(n, ks)) \in Nat
<1> DEFINE f == [k \in ks |-> <<n, HashOf(k) % n>>]
<1>1. f \in Surjection(ks, Homes(n, ks))
  BY DEF Surjection, Homes
<1>2. IsFiniteSet(ks)
  BY FiniteKeys
<1>3. IsFiniteSet(Homes(n, ks))
  BY <1>1, <1>2, FS_Surjection
<1>. QED
  BY <1>3, FS_CardinalityType

\* A table that holds the keys has them.
LEMMA RestEnough ==
  ASSUME NEW t, NEW h, NEW o, Resting(t, h, o, 0)
  PROVE  Enough(t.n, RestKeys(t, h, o), LiveOf(o))
<1> DEFINE K == HeadsOf(t, NoTable)
           ks == KeysIn(K, DataOf(h), o)
           Z == Homes(t.n, ks)
<1>1. Keyed(K, DataOf(h), o, 0) /\ IsTable(t) /\ IsSize(t.n)
  BY DEF Resting
<1>2. /\ IsFiniteSet(Headed(K)) /\ Cardinality(Headed(K)) \in Nat
      /\ Cardinality(InChains(o)) \in Nat /\ Cardinality(ks) \in Nat
      /\ Cardinality(ks) = Cardinality(Headed(K)) + Cardinality(InChains(o))
  <2> HIDE DEF K
  <2>1. /\ IsFiniteSet(Headed(K)) /\ Cardinality(Headed(K)) \in Nat
        /\ Cardinality(InChains(o)) \in Nat /\ Cardinality(ks) \in Nat
        /\ Cardinality(KeysIn(K, DataOf(h), o)) + (IF 0 = 0 THEN 0 ELSE 1)
             = Cardinality(Headed(K)) + Cardinality(InChains(o))
    BY <1>1, CountKeys
  <2>. QED
    BY <2>1
<1>3. ks \in SUBSET Keys
  BY DEF KeysIn
<1>4. Headed(K) \subseteq Z
  <2> SUFFICES ASSUME NEW p \in Place, K[p] # NoKey PROVE p \in Z
    BY DEF Headed
  <2>1. AtHome(p, K[p]) /\ K[p] \in Keys
    BY <1>1 DEF Keyed
  <2>2. K[p] \in ks
    BY <2>1 DEF KeysIn
  <2>3. p[1] = t.n
    <3>1. IsTable(NoTable) /\ NoTable.n = 0
      BY NoTableIs
    <3>2. Empty.data = NoKey
      BY EmptyBucket
    <3>3. Cell(t, NoTable, p).data # NoKey
      BY DEF HeadsOf
    <3>4. ~(p[1] = 0)
      BY <2>1 DEF AtHome
    <3>. QED
      BY <3>1, <3>2, <3>3, <3>4 DEF Cell
  <2>4. p = <<p[1], p[2]>>
    BY DEF Place
  <2>5. p = <<t.n, HashOf(K[p]) % t.n>>
    BY <2>1, <2>3, <2>4 DEF AtHome
  <2> HIDE DEF K, ks
  <2>. QED
    BY <2>2, <2>5 DEF Homes
<1>5. IsFiniteSet(Z) /\ Cardinality(Z) \in Nat
  <2> HIDE DEF ks
  <2>. QED
    BY <1>3, HomesFinite
<1>6. Cardinality(Headed(K)) <= Cardinality(Z)
  BY <1>4, <1>5, FS_Subset
<1>7. Cardinality(InChains(o)) <= Cardinality(LiveOf(o)) /\ Cardinality(LiveOf(o)) \in Nat
  <2>1. InChains(o) \in SUBSET LiveOf(o) /\ LiveOf(o) \in SUBSET Ids
    BY PlaceFacts DEF InChains, LiveOf
  <2>. QED
    BY <2>1, FiniteIds, FS_Subset
<1> HIDE DEF K, ks, Z
<1>8. Cardinality(ks) <= Cardinality(LiveOf(o)) + Cardinality(Z)
  BY <1>2, <1>5, <1>6, <1>7
<1>. QED
  BY <1>8 DEF Enough, RestKeys, ks, K, Z

\* In the second pass of the undoing, no new entry is needed.
LEMMA UndoNeedsNone ==
  ASSUME NEW s, NEW d, NEW sc, NEW h, NEW o, Moving(s, d, "undo", sc, 0, h, o), sc < s.n,
         NEW k, k = s.bucket[sc].data, d.bucket[Home(d, k)].data # NoKey,
         Enough(d.n, KeysOf(s, d, h, o), LiveOf(o))
  PROVE  d.free # 0
<1> SUFFICES ASSUME d.free = 0 PROVE FALSE
  OBVIOUS
<1> DEFINE w == <<s.n, sc>>
           i == Home(d, k)
           q == <<d.n, i>>
           F == Firsts(s, d, d.free, w, 0)
           K == HeadsOf(s, d)
           ks == KeysIn(K, DataOf(h), o)
           H == Headed(K)
           B == H \ {w}
           Z == Homes(d.n, ks)
<1>1. HeadIs(s, d, "undo", sc, h, o, w, F, K)
  BY HeadFacts
<1>2. There(s, d, sc, 0, k, i, q, F, K)
  BY HeadTo
<1>3. F = [NextsOf(s, d) EXCEPT ![FreePlace] = 0, ![w] = 0]
  BY DEF Firsts
<1>4. \A j \in 0..(s.n - 1) : s.bucket[j].next = 0
  BY DEF Moving, Walked
<1>5. ASSUME NEW p \in Place, F[p] # 0 PROVE p[1] = d.n
  <2>1. NextsOf(s, d) \in [Place -> Links] /\ IsTable(s) /\ IsTable(d) /\ s.n # d.n
    BY ViewTypes DEF Moving
  <2>2. NextsOf(s, d)[p] # 0
    <3> HIDE DEF w, F
    <3>. QED
      BY <2>1, <1>3, <1>5
  <2>3. Cell(s, d, p).next # 0
    BY <2>2 DEF NextsOf
  <2>4. p[2] \in Nat
    BY DEF Place
  <2>5. Empty.next = 0
    BY EmptyBucket
  <2>6. ~(p[1] = s.n /\ p[2] < s.n)
    <3>1. s.n \in Nat
      BY <2>1, CellIs
    <3>. QED
      BY <3>1, <2>3, <2>4, <1>4 DEF Cell
  <2>. QED
    BY <2>3, <2>5, <2>6 DEF Cell
<1> HIDE DEF w, F, q, i
<1>6. /\ Keyed(K, DataOf(h), o, 0) /\ Ranked(F, NextOf(h), o) /\ s.n # d.n /\ w \in Place
      /\ K[w] = k /\ k \in Keys /\ k # NoKey /\ (\A e \in Ids : o[e] # w)
      /\ o \in [Ids -> Place] /\ K \in [Place -> Keys \cup {NoKey}] /\ d.n # 0
  BY <1>1 DEF HeadIs
<1>7. q \in Place /\ K[q] # NoKey /\ q # w /\ q = <<d.n, HashOf(k) % d.n>>
  BY <1>2 DEF There, w, Home
<1>8. ASSUME NEW e \in Ids, o[e] # Nowhere
      PROVE  Bucketed(o[e]) /\ o[e][1] = d.n
  <2>1. o[e] \in Place /\ F[o[e]] # 0
    BY <1>6, <1>8, FirstIs
  <2>. QED
    BY <2>1, <1>5, <1>6 DEF Bucketed
<1>9. InChains(o) = LiveOf(o)
  BY <1>8, PlaceFacts DEF InChains, LiveOf
<1> HIDE DEF K
<1>10. /\ IsFiniteSet(H) /\ Cardinality(H) \in Nat
       /\ Cardinality(InChains(o)) \in Nat /\ Cardinality(ks) \in Nat
       /\ Cardinality(ks) = Cardinality(H) + Cardinality(InChains(o))
  <2>1. /\ IsFiniteSet(Headed(K)) /\ Cardinality(Headed(K)) \in Nat
        /\ Cardinality(InChains(o)) \in Nat /\ Cardinality(ks) \in Nat
        /\ Cardinality(KeysIn(K, DataOf(h), o)) + (IF 0 = 0 THEN 0 ELSE 1)
             = Cardinality(Headed(K)) + Cardinality(InChains(o))
    BY <1>6, CountKeys
  <2>. QED
    BY <2>1
<1>11. IsFiniteSet(B) /\ Cardinality(B) = Cardinality(H) - 1
  <2>1. w \in H
    BY <1>6 DEF Headed
  <2> HIDE DEF H
  <2>. QED
    BY <2>1, <1>10, FS_RemoveElement
<1> DEFINE f == [p \in B |-> <<d.n, HashOf(K[p]) % d.n>>]
<1>12. f \in Surjection(B, Z)
  <2>1. ASSUME NEW p \in B PROVE <<d.n, HashOf(K[p]) % d.n>> \in Z
    <3>1. K[p] \in ks
      BY <1>6 DEF Headed, KeysIn
    <3> HIDE DEF ks, B
    <3>. QED
      BY <3>1 DEF Homes
  <2>2. ASSUME NEW j \in ks PROVE \E p \in B : <<d.n, HashOf(j) % d.n>> = <<d.n, HashOf(K[p]) % d.n>>
    <3>1. CASE \E p \in Place : K[p] = j
      <4>1. PICK p \in Place : K[p] = j
        BY <3>1
      <4>2. p \in H
        BY <4>1, KeysAssumption DEF Headed, KeysIn
      <4>3. CASE p = w
        <5>1. q \in B /\ K[q] \in Keys
          BY <1>6, <1>7 DEF Headed
        <5>2. AtHome(q, K[q])
          BY <1>6, <1>7 DEF Keyed
        <5>3. q = <<d.n, HashOf(K[q]) % d.n>>
          <6>1. q[1] = d.n /\ q[2] = HashOf(K[q]) % d.n
            BY <5>2, <1>7 DEF AtHome
          <6>. QED
            BY <6>1, <1>7
        <5>4. q = <<d.n, HashOf(j) % d.n>>
          BY <4>1, <4>3, <1>6, <1>7
        <5>. QED
          BY <5>1, <5>3, <5>4
      <4>4. CASE p # w
        BY <4>1, <4>2, <4>4
      <4>. QED
        BY <4>3, <4>4
    <3>2. CASE \E e \in Ids : Bucketed(o[e]) /\ DataOf(h)[e] = j
      <4>1. PICK e \in Ids : Bucketed(o[e]) /\ DataOf(h)[e] = j
        BY <3>2
      <4>2. o[e] \in Place /\ K[o[e]] # NoKey /\ AtHome(o[e], j) /\ AtHome(o[e], K[o[e]])
        BY <4>1, <1>6, NotIds DEF Keyed
      <4>3. o[e][1] = d.n
        BY <4>1, <1>8, PlaceFacts
      <4>4. o[e] \in B
        BY <4>2, <1>6 DEF Headed
      <4>5. HashOf(j) % d.n = HashOf(K[o[e]]) % d.n
        BY <4>2, <4>3 DEF AtHome
      <4>. QED
        BY <4>4, <4>5
    <3>. QED
      BY <3>1, <3>2 DEF KeysIn
  <2>3. ASSUME NEW z \in Z PROVE \E p \in B : f[p] = z
    <3>1. PICK j \in ks : z = <<d.n, HashOf(j) % d.n>>
      BY DEF Homes
    <3>2. PICK p \in B : <<d.n, HashOf(j) % d.n>> = <<d.n, HashOf(K[p]) % d.n>>
      BY <2>2
    <3> HIDE DEF B, ks
    <3>. QED
      BY <3>1, <3>2
  <2>4. f \in [B -> Z]
    <3> HIDE DEF B, Z
    <3>. QED
      BY <2>1
  <2> HIDE DEF f, B, Z
  <2>. QED
    BY <2>3, <2>4 DEF Surjection
<1>13. Cardinality(Z) <= Cardinality(B) /\ Cardinality(Z) \in Nat
  <2> HIDE DEF f, B, Z
  <2>1. IsFiniteSet(Z) /\ Cardinality(Z) <= Cardinality(B)
    BY <1>11, <1>12, FS_Surjection
  <2>. QED
    BY <2>1, FS_CardinalityType
<1>14. Cardinality(ks) <= Cardinality(LiveOf(o)) + Cardinality(Z)
  BY DEF Enough, KeysOf, K
<1> HIDE DEF ks, H, B, Z
<1>. QED
  BY <1>9, <1>10, <1>11, <1>13, <1>14

\* A new table beside one at rest changes neither heads nor lists.
LEMMA BesideEmpty ==
  ASSUME NEW a, NEW b, IsTable(a), IsTable(b), a.n # b.n,
         \A j \in 0..(b.n - 1) : b.bucket[j].data = NoKey /\ b.bucket[j].next = 0
  PROVE  HeadsOf(a, b) = HeadsOf(a, NoTable) /\ NextsOf(a, b) = NextsOf(a, NoTable)
BY ViewEmpty

\* hash_rehash begins with the first bucket in use, and lends its free list.
LEMMA StartsMoving ==
  ASSUME NEW t, NEW h, NEW o, Resting(t, h, o, 0), Counted(t), NEW n, IsSize(n), n # t.n,
         NEW m, m = NextUsed(t, 0), NEW b, b = Table(n, t.free)
  PROVE  /\ Moving(t, b, "move", m, NextAt(t, m), h, o)
         /\ KeysOf(t, b, h, o) = RestKeys(t, h, o)
<1>1. /\ IsTable(t) /\ IsSize(t.n) /\ h \in Heaps /\ t.free \in Links /\ t.n \in Nat \ {0}
      /\ Ranked(Lists(t), NextOf(h), o) /\ Keyed(HeadsOf(t, NoTable), DataOf(h), o, 0)
  BY SizeFacts DEF Resting, IsTable
<1>2. /\ IsTable(b) /\ b.n = n /\ b.free = t.free /\ b.used = 0
      /\ \A i \in 0..(n - 1) : b.bucket[i] = Empty
  BY <1>1, NewTableIs
<1>3. HeadsOf(t, b) = HeadsOf(t, NoTable) /\ NextsOf(t, b) = NextsOf(t, NoTable)
  <2>1. \A j \in 0..(b.n - 1) : b.bucket[j].data = NoKey /\ b.bucket[j].next = 0
    BY <1>2, EmptyBucket
  <2>. QED
    BY <2>1, <1>1, <1>2, BesideEmpty
<1>4. /\ m \in 0..t.n /\ (\A j \in 0..(m - 1) : t.bucket[j].data = NoKey)
      /\ m < t.n => t.bucket[m].data # NoKey
  <2>1. 0 \in 0..t.n
    BY <1>1
  <2>. QED
    BY <2>1, <1>1, NextUsedIs
<1>5. NextAt(t, m) \in Links /\ (m = t.n => NextAt(t, m) = 0)
  <2>1. m # t.n => m \in 0..(t.n - 1)
    BY <1>1, <1>4
  <2>. QED
    BY <2>1, <1>1, EmptyBucket DEF NextAt, IsTable, Buckets
<1>6. Walked(t, "move", m, NextAt(t, m))
  BY <1>4, <1>5 DEF Walked
<1>7. Firsts(t, b, b.free, <<t.n, m>>, NextAt(t, m)) = Lists(t)
  <2>1. Plain(t, b, t.free, m, NextAt(t, m))
    <3>1. NextAt(t, m) = IF m = t.n THEN 0 ELSE t.bucket[m].next
      BY DEF NextAt
    <3>. QED
      BY <3>1, <1>1, <1>2, <1>4, FirstsPlain
  <2>. QED
    BY <2>1, <1>2, <1>3 DEF Plain, Lists
<1>8. Counted(b)
  <2>1. UsedBuckets(b) = {}
    BY <1>2, EmptyBucket DEF UsedBuckets, IsTable
  <2>. QED
    BY <2>1, <1>2, FS_EmptySet DEF Counted
<1>9. Moving(t, b, "move", m, NextAt(t, m), h, o)
  BY <1>1, <1>2, <1>3, <1>6, <1>7, <1>8 DEF Moving
<1>. QED
  BY <1>3, <1>9 DEF KeysOf, RestKeys

\* The first pass over the other table, when the transfer is undone.
LEMMA TurnsBack ==
  ASSUME NEW s, NEW d, NEW sc, NEW h, NEW o, Moving(s, d, "move", sc, 0, h, o), sc < s.n,
         NEW r, r = [data |-> s.bucket[sc].data, next |-> 0],
         NEW c, c = Edited(s, sc, r, s.used, d.free),
         NEW m, m = NextUsed(d, 0)
  PROVE  /\ Moving(d, c, "undo_safe", m, NextAt(d, m), h, o)
         /\ KeysOf(d, c, h, o) = KeysOf(s, d, h, o) /\ c.n = s.n
<1> DEFINE w == <<s.n, sc>>
           F == Firsts(s, d, d.free, w, 0)
           K == HeadsOf(s, d)
           e == Edited(s, sc, r, s.used, s.free)
<1>1. HeadIs(s, d, "move", sc, h, o, w, F, K)
  BY HeadFacts
<1> HIDE DEF w, F, K
<1>2. /\ IsTable(s) /\ IsTable(d) /\ IsSize(s.n) /\ IsSize(d.n) /\ s.n # d.n /\ s.n # 0 /\ d.n # 0
      /\ h \in Heaps /\ Counted(s) /\ Counted(d) /\ sc \in 0..(s.n - 1) /\ d.free \in Links
      /\ Ranked(F, NextOf(h), o) /\ Keyed(K, DataOf(h), o, 0) /\ w \in Place
      /\ F[w] = 0 /\ F[FreePlace] = d.free /\ F \in [Place -> Links]
      /\ K[w] = s.bucket[sc].data /\ K \in [Place -> Keys \cup {NoKey}]
      /\ \A j \in 0..(d.n - 1) : d.bucket[j].data = NoKey => d.bucket[j].next = 0
  BY <1>1 DEF HeadIs
<1>3. r \in Buckets
  <2>1. s.bucket[sc] \in Buckets
    BY <1>2 DEF IsTable
  <2>. QED
    BY <2>1, EmptyBucket DEF Buckets
<1>4. r.next = 0 /\ r.data = K[w]
  BY <1>2
<1>5. CutAre(s, d, sc, r, s.used, d.free, 0)
  <2>1. 0 \in Links
    BY EmptyBucket
  <2>. QED
    BY <2>1, <1>2, <1>3, <1>4, Cuts
<1>6. IsTable(e) /\ e.n = s.n /\ e.used = s.used
      /\ NextsOf(e, d) = [NextsOf(s, d) EXCEPT ![w] = 0] /\ HeadsOf(e, d) = [K EXCEPT ![w] = r.data]
  BY <1>5 DEF CutAre, w, K
<1>7. Counted(e)
  <2>1. CountsIn(s, sc, r, s.used, s.free)
    <3>1. s.free \in Links
      BY <1>2 DEF IsTable
    <3>. QED
      BY <3>1, <1>2, <1>3, CountEdited
  <2>2. Cardinality(UsedBuckets(e)) = Cardinality(UsedBuckets(s))
    BY <2>1, <1>2, <1>4 DEF CountsIn
  <2> HIDE DEF e
  <2>. QED
    BY <2>2, <1>2, <1>6 DEF Counted
<1>8. IsTable(c) /\ c.n = s.n /\ c.bucket = e.bucket /\ c.used = s.used /\ c.free = d.free
  <2>1. c.n = s.n /\ c.bucket = e.bucket /\ c.used = s.used /\ c.free = d.free
    BY DEF Edited
  <2>2. c = [n |-> c.n, bucket |-> c.bucket, used |-> c.used, free |-> c.free]
    BY DEF Edited
  <2> HIDE DEF e
  <2>3. e.bucket \in [0..(s.n - 1) -> Buckets]
    BY <1>6 DEF IsTable
  <2>. QED
    BY <2>1, <2>2, <2>3, <1>2 DEF IsTable
<1> HIDE DEF e
<1>9. HeadsOf(d, c) = K /\ NextsOf(d, c) = [NextsOf(s, d) EXCEPT ![w] = 0]
  <2>1. HeadsOf(d, c) = HeadsOf(c, d) /\ NextsOf(d, c) = NextsOf(c, d)
    BY <1>2, <1>8, ViewSwap
  <2>2. HeadsOf(c, d) = HeadsOf(e, d) /\ NextsOf(c, d) = NextsOf(e, d)
    <3>1. c.n = e.n /\ c.bucket = e.bucket
      BY <1>6, <1>8
    <3>. QED
      BY <3>1, ViewSame
  <2>3. [K EXCEPT ![w] = r.data] = K
    BY <1>2, <1>4
  <2>. QED
    BY <2>1, <2>2, <2>3, <1>6
<1>10. Counted(c)
  <2>1. UsedBuckets(c) = UsedBuckets(e)
    BY <1>8, CountSame
  <2>. QED
    BY <2>1, <1>6, <1>7, <1>8 DEF Counted
<1>11. d.n \in Nat \ {0}
  BY <1>2, SizeFacts
<1>12. /\ m \in 0..d.n /\ (\A j \in 0..(m - 1) : d.bucket[j].data = NoKey)
       /\ m < d.n => d.bucket[m].data # NoKey
  <2>1. 0 \in 0..d.n
    BY <1>11
  <2>. QED
    BY <2>1, <1>2, NextUsedIs
<1>13. NextAt(d, m) \in Links /\ (m = d.n => NextAt(d, m) = 0)
  <2>1. m # d.n => m \in 0..(d.n - 1)
    BY <1>11, <1>12
  <2>. QED
    BY <2>1, <1>2, EmptyBucket DEF NextAt, IsTable, Buckets
<1>14. \A j \in 0..(m - 1) : d.bucket[j].next = 0
  <2> TAKE j \in 0..(m - 1)
  <2>1. j \in 0..(d.n - 1)
    BY <1>11, <1>12
  <2>. QED
    BY <2>1, <1>2, <1>12
<1>15. Walked(d, "undo_safe", m, NextAt(d, m))
  BY <1>12, <1>13, <1>14 DEF Walked
<1>16. Firsts(d, c, c.free, <<d.n, m>>, NextAt(d, m)) = F
  <2>1. Plain(d, c, d.free, m, NextAt(d, m))
    <3>1. NextAt(d, m) = IF m = d.n THEN 0 ELSE d.bucket[m].next
      BY DEF NextAt
    <3>. QED
      BY <3>1, <1>2, <1>8, <1>12, FirstsPlain
  <2>2. F = [NextsOf(s, d) EXCEPT ![FreePlace] = d.free, ![w] = 0]
    BY DEF F, Firsts
  <2>3. NextsOf(s, d) \in [Place -> Links] /\ w # FreePlace
    BY <1>1, <1>2, ViewTypes DEF HeadIs
  <2>4. [[NextsOf(s, d) EXCEPT ![w] = 0] EXCEPT ![FreePlace] = d.free]
          = [NextsOf(s, d) EXCEPT ![FreePlace] = d.free, ![w] = 0]
    BY <2>3, <1>2, PlaceFacts
  <2>. QED
    BY <2>1, <2>2, <2>4, <1>8, <1>9 DEF Plain
<1>17. Moving(d, c, "undo_safe", m, NextAt(d, m), h, o)
  BY <1>2, <1>8, <1>9, <1>10, <1>15, <1>16 DEF Moving
<1>18. KeysOf(d, c, h, o) = KeysOf(s, d, h, o)
  BY <1>9 DEF KeysOf, K
<1>. QED
  BY <1>8, <1>17, <1>18

\* The second pass of the undoing.
LEMMA StartsAgain ==
  ASSUME NEW s, NEW d, NEW h, NEW o, NEW cu, Moving(s, d, "undo_safe", s.n, cu, h, o),
         NEW m, m = NextUsed(s, 0)
  PROVE  Moving(s, d, "undo", m, NextAt(s, m), h, o)
<1>1. /\ IsTable(s) /\ IsTable(d) /\ IsSize(s.n) /\ IsSize(d.n) /\ s.n # d.n /\ s.n # 0
      /\ s.n \in Nat \ {0} /\ cu = 0 /\ d.free \in Links
      /\ \A j \in 0..(s.n - 1) : s.bucket[j].next = 0
  BY SizeFacts DEF Moving, Walked, IsTable
<1>2. /\ m \in 0..s.n /\ (\A j \in 0..(m - 1) : s.bucket[j].data = NoKey)
      /\ m < s.n => s.bucket[m].data # NoKey
  <2>1. 0 \in 0..s.n
    BY <1>1
  <2>. QED
    BY <2>1, <1>1, NextUsedIs
<1>3. NextAt(s, m) = 0
  <2>1. m # s.n => m \in 0..(s.n - 1)
    BY <1>1, <1>2
  <2>. QED
    BY <2>1, <1>1 DEF NextAt
<1>4. Walked(s, "undo", m, NextAt(s, m))
  BY <1>1, <1>2, <1>3, EmptyBucket DEF Walked
<1>5. Firsts(s, d, d.free, <<s.n, m>>, NextAt(s, m)) = Firsts(s, d, d.free, <<s.n, s.n>>, cu)
  <2>1. NextAt(s, m) = IF m = s.n THEN 0 ELSE s.bucket[m].next
    BY DEF NextAt
  <2>2. Plain(s, d, d.free, m, NextAt(s, m))
    BY <2>1, <1>1, <1>2, FirstsPlain
  <2>3. Plain(s, d, d.free, s.n, cu)
    <3>1. s.n \in 0..s.n /\ cu = IF s.n = s.n THEN 0 ELSE s.bucket[s.n].next
      BY <1>1
    <3>. QED
      BY <3>1, <1>1, FirstsPlain
  <2>. QED
    BY <2>2, <2>3 DEF Plain
<1>. QED
  BY <1>1, <1>4, <1>5 DEF Moving

\* At the end the destination is at rest.
LEMMA EndsMoving ==
  ASSUME NEW s, NEW d, NEW ph, NEW h, NEW o, NEW cu, Moving(s, d, ph, s.n, cu, h, o),
         ph # "undo_safe"
  PROVE  Resting(d, h, o, 0) /\ Counted(d) /\ RestKeys(d, h, o) = KeysOf(s, d, h, o)
<1>1. /\ IsTable(s) /\ IsTable(d) /\ IsSize(s.n) /\ IsSize(d.n) /\ s.n # d.n /\ s.n # 0
      /\ s.n \in Nat \ {0} /\ cu = 0 /\ d.free \in Links /\ h \in Heaps /\ Counted(d)
      /\ (\A j \in 0..(s.n - 1) : s.bucket[j].data = NoKey)
      /\ Ranked(Firsts(s, d, d.free, <<s.n, s.n>>, cu), NextOf(h), o)
      /\ Keyed(HeadsOf(s, d), DataOf(h), o, 0)
  BY SizeFacts DEF Moving, Walked, IsTable
<1>2. \A j \in 0..(s.n - 1) : s.bucket[j].data = NoKey /\ s.bucket[j].next = 0
  <2>1. \A j \in 0..(s.n - 1) : j # s.n /\ s.bucket[j].data = NoKey => s.bucket[j].next = 0
    BY NoHeadNoChain
  <2>2. \A j \in 0..(s.n - 1) : j # s.n
    BY <1>1
  <2>. QED
    BY <2>1, <2>2, <1>1
<1>3. HeadsOf(s, d) = HeadsOf(d, NoTable) /\ NextsOf(s, d) = NextsOf(d, NoTable)
  <2>1. HeadsOf(s, d) = HeadsOf(d, s) /\ NextsOf(s, d) = NextsOf(d, s)
    BY <1>1, ViewSwap
  <2>2. HeadsOf(d, s) = HeadsOf(d, NoTable) /\ NextsOf(d, s) = NextsOf(d, NoTable)
    BY <1>1, <1>2, BesideEmpty
  <2>. QED
    BY <2>1, <2>2
<1>4. Firsts(s, d, d.free, <<s.n, s.n>>, cu) = Lists(d)
  <2>1. Plain(s, d, d.free, s.n, cu)
    <3>1. s.n \in 0..s.n /\ cu = IF s.n = s.n THEN 0 ELSE s.bucket[s.n].next
      BY <1>1
    <3>. QED
      BY <3>1, <1>1, FirstsPlain
  <2>. QED
    BY <2>1, <1>3 DEF Plain, Lists
<1>. QED
  BY <1>1, <1>3, <1>4 DEF Resting, RestKeys, KeysOf

-----------------------------------------------------------------------------
(***************************************************************************)
(* What IdsFrom finds in the list of a place.                              *)
(***************************************************************************)
Unfolds(f, N) ==
  \A l \in 0..MaxEntries, x \in Links :
    f[l][x] = IF x = 0 \/ l = 0 THEN << >> ELSE <<x>> \o f[l - 1][N[x]]

\* The recursion of IdsFrom is over a number that falls.
LEMMA IdsFromIs ==
  ASSUME heap \in Heaps
  PROVE  \E f : Unfolds(f, NextOf(heap)) /\ \A e \in Links : IdsFrom(e) = f[MaxEntries][e]
<1> DEFINE Turn(g, l) == [x \in 0..MaxEntries |->
                            IF x = 0 \/ l = 0 THEN << >>
                            ELSE <<x>> \o g[l - 1][heap[x].next]]
           Upto(n) == \E g : g = [l \in 0..n |-> Turn(g, l)]
           S == {n \in Nat : Upto(n)}
<1>1. 0 \in S
  <2>1. [l \in 0..0 |-> [x \in 0..MaxEntries |-> << >>]]
          = [l \in 0..0 |-> Turn([k \in 0..0 |-> [x \in 0..MaxEntries |-> << >>]], l)]
    <3>1. \A l \in 0..0 : [x \in 0..MaxEntries |-> << >>]
                            = Turn([k \in 0..0 |-> [x \in 0..MaxEntries |-> << >>]], l)
      <4> TAKE l \in 0..0
      <4>1. l = 0
        OBVIOUS
      <4>. QED
        BY <4>1
    <3>. QED
      BY <3>1
  <2>. QED
    BY <2>1
<1>2. ASSUME NEW n \in S PROVE n + 1 \in S
  <2>1. n \in Nat /\ n + 1 \in Nat
    BY <1>2
  <2>2. PICK g : g = [l \in 0..n |-> Turn(g, l)]
    BY <1>2
  <2> DEFINE u == [l \in 0..(n + 1) |-> Turn(g, l)]
  <2>3. ASSUME NEW l \in 0..(n + 1) PROVE Turn(g, l) = Turn(u, l)
    <3>1. CASE l = 0
      BY <3>1
    <3>2. CASE l # 0
      <4>1. l - 1 \in 0..n /\ l - 1 \in 0..(n + 1)
        BY <3>2, <2>1
      <4>2. g[l - 1] = Turn(g, l - 1)
        BY <4>1, <2>2
      <4>3. u[l - 1] = Turn(g, l - 1)
        BY <4>1
      <4> HIDE DEF u
      <4>4. g[l - 1] = u[l - 1]
        BY <4>2, <4>3
      <4>. QED
        BY <4>4
    <3>. QED
      BY <3>1, <3>2
  <2>4. u = [l \in 0..(n + 1) |-> Turn(u, l)]
    <3> HIDE DEF Turn
    <3>. QED
      BY <2>3
  <2>5. Upto(n + 1)
    <3> HIDE DEF u
    <3>. QED
      BY <2>4
  <2>. QED
    BY <2>1, <2>5
<1>3. Upto(MaxEntries)
  <2>1. S \in SUBSET Nat
    OBVIOUS
  <2> HIDE DEF S
  <2>2. S = Nat
    BY <1>1, <1>2, <2>1, SetInduction
  <2>. QED
    BY <2>2, BoundAssumption DEF S
<1> DEFINE f == CHOOSE g : g = [l \in 0..MaxEntries |-> Turn(g, l)]
<1>4. f = [l \in 0..MaxEntries |-> Turn(f, l)]
  BY <1>3
<1>5. \A e \in Links : IdsFrom(e) = f[MaxEntries][e]
  BY DEF IdsFrom
<1> HIDE DEF f
<1>6. Unfolds(f, NextOf(heap))
  <2> SUFFICES ASSUME NEW l \in 0..MaxEntries, NEW x \in Links
               PROVE  f[l][x] = IF x = 0 \/ l = 0 THEN << >>
                                ELSE <<x>> \o f[l - 1][NextOf(heap)[x]]
    BY DEF Unfolds
  <2>1. f[l] = Turn(f, l)
    BY <1>4
  <2>2. f[l][x] = IF x = 0 \/ l = 0 THEN << >> ELSE <<x>> \o f[l - 1][heap[x].next]
    BY <2>1 DEF Links
  <2>3. x # 0 => NextOf(heap)[x] = heap[x].next
    BY IdsLinks DEF NextOf
  <2>. QED
    BY <2>2, <2>3
<1>. QED
  BY <1>5, <1>6

\* No list is longer than there are entries.
LEMMA NotLonger ==
  ASSUME NEW F, NEW N, NEW o, NEW d, Listed(F, N, o, d), NEW e \in Ids, o[e] # Nowhere
  PROVE  d[e] \in 1..MaxEntries
<1>1. /\ o \in [Ids -> Place] /\ d \in [Ids -> Nat \ {0}] /\ N \in [Ids -> Links]
      /\ \A x \in Ids : o[x] = o[e] => /\ d[x] # 1 => /\ N[x] # 0 /\ o[N[x]] = o[x]
                                                      /\ d[N[x]] = d[x] - 1
      /\ \A x, y \in Ids : o[x] = o[e] /\ o[y] = o[e] /\ d[x] = d[y] => x = y
  BY DEF Listed
<1>2. d[e] \in Nat /\ d[e] # 0 /\ MaxEntries \in Nat
  BY <1>1, BoundAssumption
<1> DEFINE At(k) == \E x \in Ids : o[x] = o[e] /\ d[x] = d[e] - k
           S == {k \in Nat : k < d[e] => At(k)}
<1>3. 0 \in S
  BY <1>2
<1>4. ASSUME NEW k \in S PROVE k + 1 \in S
  <2>1. k \in Nat
    BY <1>4
  <2>2. SUFFICES ASSUME k + 1 < d[e] PROVE At(k + 1)
    BY <2>1
  <2>3. PICK x \in Ids : o[x] = o[e] /\ d[x] = d[e] - k
    BY <2>1, <2>2, <1>2, <1>4
  <2>4. d[x] # 1
    BY <2>1, <2>2, <2>3, <1>2
  <2>5. N[x] # 0 /\ o[N[x]] = o[e] /\ d[N[x]] = d[e] - k - 1 /\ N[x] \in Links
    BY <2>3, <2>4, <1>1, <1>2
  <2>6. N[x] \in Ids /\ d[e] - k - 1 = d[e] - (k + 1)
    BY <2>5, <2>1, <1>2, IdsLinks
  <2>. QED
    BY <2>5, <2>6
<1>5. \A k \in 0..(d[e] - 1) : At(k)
  <2>1. S \in SUBSET Nat
    OBVIOUS
  <2> HIDE DEF S
  <2>2. S = Nat
    BY <1>3, <1>4, <2>1, SetInduction
  <2> HIDE DEF At
  <2>. QED
    BY <2>2, <1>2 DEF S
<1> DEFINE g == [k \in 1..d[e] |-> CHOOSE x \in Ids : o[x] = o[e] /\ d[x] = k]
<1>6. \A k \in 1..d[e] : \E x \in Ids : o[x] = o[e] /\ d[x] = k
  <2> TAKE k \in 1..d[e]
  <2>1. d[e] - k \in 0..(d[e] - 1) /\ d[e] - (d[e] - k) = k
    BY <1>2
  <2>2. At(d[e] - k)
    BY <2>1, <1>5
  <2>. QED
    BY <2>1, <2>2
<1>7. \A k \in 1..d[e] : g[k] \in Ids /\ d[g[k]] = k
  BY <1>6
<1> HIDE DEF g
<1>8. g \in Injection(1..d[e], Ids)
  <2>1. g \in [1..d[e] -> Ids]
    BY <1>7 DEF g
  <2>2. \A a, b \in 1..d[e] : g[a] = g[b] => a = b
    BY <1>7
  <2>. QED
    BY <2>1, <2>2 DEF Injection, IsInjective
<1>9. Cardinality(1..d[e]) <= Cardinality(Ids)
  <2>1. IsFiniteSet(Ids)
    BY FiniteIds
  <2>. QED
    BY <2>1, <1>8, FS_Injection
<1>10. Cardinality(1..d[e]) = d[e] /\ Cardinality(Ids) = MaxEntries
  <2>1. \A n \in Nat : Cardinality(1..n) = n
    <3> TAKE n \in Nat
    <3>1. 1 \in Int /\ n \in Int
      OBVIOUS
    <3>2. Cardinality(1..n) = IF 1 > n THEN 0 ELSE n - 1 + 1
      BY <3>1, FS_Interval
    <3>. QED
      BY <3>2
  <2>. QED
    BY <2>1, <1>2 DEF Ids
<1>. QED
  BY <1>2, <1>9, <1>10

\* The entries from x to the end of its list.
Enum(s, x, o, d) ==
  /\ s \in Seq(Ids) /\ Len(s) = d[x]
  /\ \A j \in 1..d[x] : s[j] \in Ids /\ o[s[j]] = o[x] /\ d[s[j]] = d[x] - j + 1

\* The recursion over the links lists what follows an entry, in order.
LEMMA EnumFrom ==
  ASSUME NEW F, NEW N, NEW o, NEW d, Listed(F, N, o, d), NEW f, Unfolds(f, N),
         NEW x \in Ids, o[x] # Nowhere
  PROVE  Enum(f[MaxEntries][x], x, o, d)
<1>1. /\ o \in [Ids -> Place] /\ d \in [Ids -> Nat \ {0}] /\ N \in [Ids -> Links]
      /\ MaxEntries \in Nat /\ 0 \in Links
  BY BoundAssumption, EmptyBucket DEF Listed
<1>2. \A l \in 0..MaxEntries : f[l][0] = << >>
  BY <1>1 DEF Unfolds
<1> DEFINE At(l) == \A y \in Ids : o[y] # Nowhere /\ d[y] <= l => Enum(f[l][y], y, o, d)
           S == {l \in Nat : l <= MaxEntries => At(l)}
<1>3. 0 \in S
  <2>1. \A y \in Ids : ~(d[y] <= 0)
    BY <1>1
  <2>. QED
    BY <2>1
<1>4. ASSUME NEW l \in S PROVE l + 1 \in S
  <2>1. l \in Nat
    BY <1>4
  <2>2. SUFFICES ASSUME l + 1 <= MaxEntries,
                        NEW y \in Ids, o[y] # Nowhere, d[y] <= l + 1
                 PROVE  Enum(f[l + 1][y], y, o, d)
    BY <2>1
  <2>3. /\ d[y] = 1 => N[y] = 0
        /\ d[y] # 1 => N[y] # 0 /\ o[N[y]] = o[y] /\ d[N[y]] = d[y] - 1
        /\ N[y] \in Links /\ d[y] \in Nat /\ d[y] # 0
    BY <2>2, <1>1 DEF Listed
  <2>4. l \in 0..MaxEntries /\ l + 1 \in 0..MaxEntries /\ At(l)
    BY <2>1, <2>2, <1>1, <1>4
  <2>5. f[l + 1][y] = <<y>> \o f[l][N[y]]
    <3>1. y \in Links /\ y # 0 /\ l + 1 # 0 /\ (l + 1) - 1 = l
      BY <2>1, IdsLinks, NotIds
    <3>2. f[l + 1][y] = IF y = 0 \/ l + 1 = 0 THEN << >> ELSE <<y>> \o f[(l + 1) - 1][N[y]]
      BY <3>1, <2>4 DEF Unfolds
    <3>. QED
      BY <3>1, <3>2
  <2> DEFINE s == f[l + 1][y]
  <2>6. CASE d[y] = 1
    <3>1. s = <<y>>
      <4>1. f[l][N[y]] = << >>
        BY <2>3, <2>4, <2>6, <1>2
      <4>. QED
        BY <4>1, <2>5
    <3> HIDE DEF s
    <3>2. s \in Seq(Ids) /\ Len(s) = 1 /\ s[1] = y
      BY <3>1
    <3>3. Enum(s, y, o, d)
      BY <3>2, <2>6 DEF Enum
    <3>. QED
      BY <3>3 DEF s
  <2>7. CASE d[y] # 1
    <3> DEFINE z == N[y]
               t == f[l][z]
    <3>1. z \in Ids /\ o[z] = o[y] /\ d[z] = d[y] - 1 /\ d[z] <= l
      BY <2>1, <2>2, <2>3, <2>7, IdsLinks
    <3>2. Enum(t, z, o, d)
      BY <3>1, <2>2, <2>4
    <3>3. s = <<y>> \o t
      BY <2>5
    <3> HIDE DEF s, t, z
    <3>4. /\ t \in Seq(Ids) /\ Len(t) = d[y] - 1
          /\ \A j \in 1..(d[y] - 1) : t[j] \in Ids /\ o[t[j]] = o[y] /\ d[t[j]] = d[y] - 1 - j + 1
      BY <3>1, <3>2 DEF Enum
    <3>5. s \in Seq(Ids) /\ Len(s) = d[y] /\ s[1] = y
      BY <3>3, <3>4, <2>3
    <3>6. \A j \in 2..d[y] : s[j] = t[j - 1]
      BY <3>3, <3>4, <2>3
    <3>7. ASSUME NEW j \in 1..d[y] PROVE s[j] \in Ids /\ o[s[j]] = o[y] /\ d[s[j]] = d[y] - j + 1
      <4>1. CASE j = 1
        BY <4>1, <3>5, <2>3
      <4>2. CASE j # 1
        <5>1. j \in 2..d[y] /\ j - 1 \in 1..(d[y] - 1) /\ d[y] - 1 - (j - 1) + 1 = d[y] - j + 1
          BY <4>2, <2>3
        <5>. QED
          BY <5>1, <3>4, <3>6
      <4>. QED
        BY <4>1, <4>2
    <3>8. Enum(s, y, o, d)
      BY <3>5, <3>7 DEF Enum
    <3>. QED
      BY <3>8 DEF s
  <2>. QED
    BY <2>6, <2>7
<1>5. At(MaxEntries)
  <2>1. S \in SUBSET Nat
    OBVIOUS
  <2> HIDE DEF S
  <2>2. S = Nat
    BY <1>3, <1>4, <2>1, SetInduction
  <2> HIDE DEF At
  <2>. QED
    BY <2>2, <1>1 DEF S
<1>6. d[x] <= MaxEntries
  BY NotLonger, <1>1
<1>. QED
  BY <1>5, <1>6

\* The entries of a place, in order.
Listing(s, F, N, o, p) ==
  /\ s \in Seq(Ids)
  /\ \A j \in DOMAIN s : s[j] \in Ids /\ o[s[j]] = p
  /\ \A x \in Ids : o[x] = p => \E j \in DOMAIN s : s[j] = x
  /\ \A i, j \in DOMAIN s : s[i] = s[j] => i = j
  /\ F[p] = 0 <=> s = << >>
  /\ F[p] # 0 => 1 \in DOMAIN s /\ s[1] = F[p]
  /\ \A j \in DOMAIN s : j > 1 => j - 1 \in DOMAIN s /\ N[s[j - 1]] = s[j]

\* The entries linked from a place are those that are there, each once.
LEMMA Enumerates ==
  ASSUME heap \in Heaps, NEW F, NEW o, Ranked(F, NextOf(heap), o), NEW p \in Place \ {Nowhere}
  PROVE  Listing(IdsFrom(F[p]), F, NextOf(heap), o, p)
<1> DEFINE N == NextOf(heap)
<1>1. PICK d : Listed(F, N, o, d)
  BY DEF Ranked
<1>2. PICK f : Unfolds(f, N) /\ \A e \in Links : IdsFrom(e) = f[MaxEntries][e]
  BY IdsFromIs
<1> HIDE DEF N
<1>3. /\ F \in [Place -> Links] /\ o \in [Ids -> Place] /\ d \in [Ids -> Nat \ {0}]
      /\ N \in [Ids -> Links] /\ F[p] \in Links /\ MaxEntries \in Nat
      /\ F[p] # 0 => F[p] \in Ids /\ o[F[p]] = p
      /\ \A e \in Ids : o[e] = p => /\ F[p] # 0 /\ d[e] <= d[F[p]]
                                    /\ d[e] # 1 => o[N[e]] = p /\ d[N[e]] = d[e] - 1 /\ N[e] # 0
      /\ \A e, g \in Ids : o[e] = p /\ o[g] = p /\ d[e] = d[g] => e = g
  BY <1>1, IdsLinks, BoundAssumption DEF Listed
<1> DEFINE s == IdsFrom(F[p])
<1>4. CASE F[p] = 0
  <2>1. s = << >>
    <3>1. MaxEntries \in 0..MaxEntries /\ 0 \in Links
      BY <1>3, EmptyBucket
    <3>2. f[MaxEntries][0] = << >>
      BY <3>1, <1>2 DEF Unfolds
    <3>. QED
      BY <3>1, <3>2, <1>2, <1>4
  <2>2. \A x \in Ids : o[x] # p
    BY <1>3, <1>4
  <2> HIDE DEF s
  <2>3. Listing(s, F, N, o, p)
    BY <2>1, <2>2, <1>4 DEF Listing
  <2>. QED
    BY <2>3 DEF s, N
<1>5. CASE F[p] # 0
  <2> DEFINE e == F[p]
  <2>1. e \in Ids /\ o[e] = p /\ d[e] \in Nat /\ d[e] # 0
    BY <1>3, <1>5
  <2>2. Enum(s, e, o, d)
    <3>1. s = f[MaxEntries][e]
      BY <1>2, <1>3
    <3> HIDE DEF s, e
    <3>. QED
      BY <3>1, <2>1, <1>1, <1>2, EnumFrom
  <2> HIDE DEF s
  <2>3. /\ s \in Seq(Ids) /\ DOMAIN s = 1..d[e]
        /\ \A j \in 1..d[e] : s[j] \in Ids /\ o[s[j]] = p /\ d[s[j]] = d[e] - j + 1
    BY <2>1, <2>2 DEF Enum
  <2>4. ASSUME NEW x \in Ids, o[x] = p PROVE \E j \in DOMAIN s : s[j] = x
    <3>1. d[x] \in Nat /\ d[x] # 0 /\ d[x] <= d[e]
      BY <2>4, <1>3
    <3>2. d[e] - d[x] + 1 \in 1..d[e] /\ d[e] - (d[e] - d[x] + 1) + 1 = d[x]
      BY <3>1, <2>1
    <3>3. s[d[e] - d[x] + 1] = x
      BY <3>2, <2>3, <2>4, <1>3
    <3>. QED
      BY <3>2, <3>3, <2>3
  <2>5. ASSUME NEW i \in DOMAIN s, NEW j \in DOMAIN s, s[i] = s[j] PROVE i = j
    <3>1. d[e] - i + 1 = d[e] - j + 1
      BY <2>3, <2>5
    <3>. QED
      BY <3>1, <2>1, <2>3
  <2>6. 1 \in DOMAIN s /\ s[1] = e /\ s # << >>
    <3>1. 1 \in 1..d[e] /\ d[e] - 1 + 1 = d[e]
      BY <2>1
    <3>2. s[1] = e
      BY <3>1, <2>1, <2>3, <1>3
    <3>3. Len(s) # 0 /\ 1 \in DOMAIN s
      <4>1. Len(s) = d[e]
        BY <2>2 DEF Enum
      <4>. QED
        BY <4>1, <3>1, <2>1, <2>3
    <3>4. Len(<< >>) = 0
      OBVIOUS
    <3>. QED
      BY <3>2, <3>3, <3>4
  <2>7. ASSUME NEW j \in DOMAIN s, j > 1 PROVE j - 1 \in DOMAIN s /\ N[s[j - 1]] = s[j]
    <3>1. j - 1 \in 1..d[e] /\ d[e] - (j - 1) + 1 # 1 /\ d[e] - (j - 1) + 1 - 1 = d[e] - j + 1
      BY <2>1, <2>3, <2>7
    <3>2. /\ s[j - 1] \in Ids /\ o[s[j - 1]] = p /\ d[s[j - 1]] = d[e] - (j - 1) + 1
          /\ s[j] \in Ids /\ o[s[j]] = p /\ d[s[j]] = d[e] - j + 1
      BY <3>1, <2>3
    <3>3. N[s[j - 1]] # 0 /\ o[N[s[j - 1]]] = p /\ d[N[s[j - 1]]] = d[s[j - 1]] - 1
      BY <3>1, <3>2, <1>3
    <3>4. N[s[j - 1]] \in Ids
      BY <3>2, <3>3, <1>3, IdsLinks
    <3>. QED
      BY <3>1, <3>2, <3>3, <3>4, <1>3, <2>3
  <2>8. Listing(s, F, N, o, p)
    BY <2>3, <2>4, <2>5, <2>6, <2>7, <1>5 DEF Listing
  <2>. QED
    BY <2>8 DEF s, N
<1>. QED
  BY <1>4, <1>5

\* The entries of a list are those of its place.
LEMMA ListedOnly ==
  ASSUME NEW s, NEW F, NEW N, NEW o, NEW p, Listing(s, F, N, o, p), o \in [Ids -> Place]
  PROVE  Elements(s) = {x \in Ids : o[x] = p}
BY DEF Listing, Elements

-----------------------------------------------------------------------------
(***************************************************************************)
(* What a traversal of a table finds, in any state: F, K and o say what    *)
(* the chains are in that state.                                           *)
(***************************************************************************)
\* F and K are right about the buckets of the table t.
Shows(t, F, K) ==
  /\ IsTable(t)
  /\ \A i \in 0..(t.n - 1) : /\ <<t.n, i>> \in Place \ {Nowhere} /\ Bucketed(<<t.n, i>>)
                             /\ Overflow(t, i) = IdsFrom(F[<<t.n, i>>])
                             /\ K[<<t.n, i>>] = t.bucket[i].data
  /\ \A p \in Place : Bucketed(p) /\ p[1] = t.n /\ K[p] # NoKey
                        => p[2] \in 0..(t.n - 1) /\ p = <<t.n, p[2]>>

InTable(o, n) == {e \in Ids : Bucketed(o[e]) /\ o[e][1] = n}
HeadsIn(K, n) == {p \in Place : Bucketed(p) /\ p[1] = n /\ K[p] # NoKey}

\* The bucket i of t, in use, and what is in it.
InBucket(t, i, ids, F, K, o) ==
  /\ i \in 0..(t.n - 1) /\ <<t.n, i>> \in Place /\ Bucketed(<<t.n, i>>)
  /\ K[<<t.n, i>>] = t.bucket[i].data /\ K[<<t.n, i>>] # NoKey
  /\ ids = Overflow(t, i) /\ Listing(ids, F, NextOf(heap), o, <<t.n, i>>)
  /\ Len(ids) \in Nat /\ DOMAIN ids = 1..Len(ids)
  /\ DOMAIN BucketKeys(t, i) = 1..(Len(ids) + 1)
  /\ BucketKeys(t, i)[1] = K[<<t.n, i>>]
  /\ \A j \in 2..(Len(ids) + 1) : BucketKeys(t, i)[j] = DataOf(heap)[ids[j - 1]]

\* What a traversal finds in a bucket.
LEMMA BucketShown ==
  ASSUME heap \in Heaps, NEW F, NEW K, NEW o, Ranked(F, NextOf(heap), o),
         NEW t, Shows(t, F, K), NEW i \in UsedBuckets(t)
  PROVE  InBucket(t, i, Overflow(t, i), F, K, o)
<1>1. /\ i \in 0..(t.n - 1) /\ t.bucket[i].data # NoKey
      /\ <<t.n, i>> \in Place \ {Nowhere} /\ Bucketed(<<t.n, i>>)
      /\ Overflow(t, i) = IdsFrom(F[<<t.n, i>>]) /\ K[<<t.n, i>>] = t.bucket[i].data
  BY DEF Shows, UsedBuckets, IsTable
<1> DEFINE ids == Overflow(t, i)
           p == <<t.n, i>>
<1>2. Listing(ids, F, NextOf(heap), o, p)
  <2> HIDE DEF p
  <2>1. p \in Place \ {Nowhere}
    BY <1>1 DEF p
  <2>2. Listing(IdsFrom(F[p]), F, NextOf(heap), o, p)
    BY <2>1, Enumerates
  <2>. QED
    BY <2>2, <1>1 DEF p
<1>3. BucketKeys(t, i) = <<t.bucket[i].data>> \o [j \in DOMAIN ids |-> heap[ids[j]].data]
  BY DEF BucketKeys
<1> HIDE DEF ids
<1>4. ids \in Seq(Ids) /\ Len(ids) \in Nat /\ DOMAIN ids = 1..Len(ids)
  BY <1>2 DEF Listing
<1> DEFINE rest == [j \in DOMAIN ids |-> heap[ids[j]].data]
           ks == BucketKeys(t, i)
<1>5. /\ rest \in Seq(Keys \cup {NoKey, Junk}) /\ Len(rest) = Len(ids)
      /\ \A j \in 1..Len(ids) : rest[j] = DataOf(heap)[ids[j]]
  <2>1. \A j \in 1..Len(ids) : ids[j] \in Ids
    BY <1>4
  <2>2. rest \in [1..Len(ids) -> Keys \cup {NoKey, Junk}]
    BY <2>1, <1>4 DEF Heaps
  <2>3. \A j \in 1..Len(ids) : rest[j] = DataOf(heap)[ids[j]]
    BY <2>1, <1>4 DEF DataOf
  <2> HIDE DEF rest
  <2>. QED
    BY <2>2, <2>3, <1>4
<1>6. ks = <<t.bucket[i].data>> \o rest
  BY <1>3
<1> HIDE DEF rest, ks
<1>7. t.bucket[i].data \in Keys \cup {NoKey, Junk}
  BY <1>1 DEF Shows, IsTable, Buckets
<1>8. DOMAIN ks = 1..(Len(ids) + 1) /\ ks[1] = t.bucket[i].data
  BY <1>4, <1>5, <1>6, <1>7
<1>9. ASSUME NEW j \in 2..(Len(ids) + 1) PROVE ks[j] = DataOf(heap)[ids[j - 1]]
  <2>1. j - 1 \in 1..Len(ids)
    BY <1>4
  <2>2. ks[j] = rest[j - 1]
    BY <2>1, <1>4, <1>5, <1>6, <1>7
  <2>. QED
    BY <2>1, <2>2, <1>5
<1>10. i \in 0..(t.n - 1) /\ p \in Place /\ Bucketed(p)
  BY <1>1
<1>. QED
  BY <1>10, <1>1, <1>2, <1>4, <1>8, <1>9 DEF InBucket, ids, ks

\* The pairs that count what is in a table.
PlacedAt(t, q) == /\ q = <<q[1], q[2]>> /\ q[1] \in UsedBuckets(t)
                  /\ q[2] \in DOMAIN BucketKeys(t, q[1])

\* The pairs that are counted are those of a bucket and an index into it.
LEMMA PlacesAre ==
  ASSUME NEW t
  PROVE  /\ \A q \in Places(t) : PlacedAt(t, q)
         /\ \A i \in UsedBuckets(t) : \A j \in DOMAIN BucketKeys(t, i) : <<i, j>> \in Places(t)
BY DEF Places, PlacedAt

\* The values an element can hold are finitely many: the keys, and the two
\* values that stand for a word no caller wrote.
LEMMA DataFinite == IsFiniteSet(Keys \cup {NoKey, Junk})
<1>1. IsFiniteSet(Keys)
  BY KeysAssumption
<1>2. IsFiniteSet(Keys \cup {NoKey})
  BY <1>1, FS_AddElement
<1>3. IsFiniteSet((Keys \cup {NoKey}) \cup {Junk})
  BY <1>2, FS_AddElement
<1>4. (Keys \cup {NoKey}) \cup {Junk} = Keys \cup {NoKey, Junk}
  OBVIOUS
<1>. QED
  BY <1>3, <1>4

\* What is in a table is held in it once.
LEMMA HeldOnce ==
  ASSUME heap \in Heaps, NEW F, NEW K, NEW o, NEW x, Ranked(F, NextOf(heap), o),
         Keyed(K, DataOf(heap), o, x), NEW t, Shows(t, F, K)
  PROVE  /\ IsFiniteSet(Held(t)) /\ Size(t) = Cardinality(Held(t))
         /\ \A v \in Held(t) : \/ \E p \in HeadsIn(K, t.n) : v = K[p]
                               \/ \E e \in InTable(o, t.n) : v = DataOf(heap)[e]
         /\ \A p \in HeadsIn(K, t.n) : K[p] \in Held(t)
         /\ \A e \in InTable(o, t.n) : DataOf(heap)[e] \in Held(t)
<1> DEFINE D == DataOf(heap)
           g == [q \in Places(t) |-> BucketKeys(t, q[1])[q[2]]]
<1>1. \A i \in UsedBuckets(t) : InBucket(t, i, Overflow(t, i), F, K, o)
  BY BucketShown
<1>2. \A p \in Place : Bucketed(p) /\ p[1] = t.n /\ K[p] # NoKey
                        => p[2] \in UsedBuckets(t) /\ p = <<t.n, p[2]>>
  BY DEF Shows, UsedBuckets, IsTable
<1>3. /\ K \in [Place -> Keys \cup {NoKey}] /\ D \in [Ids -> Keys \cup {NoKey, Junk}]
      /\ o \in [Ids -> Place]
      /\ \A e \in Ids : Bucketed(o[e]) => K[o[e]] # NoKey
      /\ \A p, q \in Place : K[p] # NoKey /\ K[p] = K[q] => p = q
      /\ \A e, f \in Ids : Bucketed(o[e]) /\ Bucketed(o[f]) /\ D[e] = D[f] => e = f
      /\ \A p \in Place, e \in Ids : Bucketed(o[e]) /\ D[e] = K[p] => K[p] = NoKey
  BY DEF Keyed
<1>4. Held(t) = UNION {{BucketKeys(t, i)[j] : j \in DOMAIN BucketKeys(t, i)} : i \in UsedBuckets(t)}
  BY DEF Held, Elements
<1>5. ASSUME NEW i \in UsedBuckets(t), NEW j \in DOMAIN BucketKeys(t, i)
      PROVE  \/ j = 1 /\ BucketKeys(t, i)[j] = K[<<t.n, i>>] /\ <<t.n, i>> \in HeadsIn(K, t.n)
             \/ /\ j # 1 /\ j - 1 \in DOMAIN Overflow(t, i)
                /\ BucketKeys(t, i)[j] = D[Overflow(t, i)[j - 1]]
                /\ Overflow(t, i)[j - 1] \in InTable(o, t.n)
                /\ o[Overflow(t, i)[j - 1]] = <<t.n, i>>
  <2>1. InBucket(t, i, Overflow(t, i), F, K, o)
    BY <1>1
  <2> DEFINE ids == Overflow(t, i)
             p == <<t.n, i>>
  <2>2. /\ p \in Place /\ Bucketed(p) /\ K[p] # NoKey
        /\ DOMAIN BucketKeys(t, i) = 1..(Len(ids) + 1) /\ Len(ids) \in Nat /\ DOMAIN ids = 1..Len(ids)
        /\ BucketKeys(t, i)[1] = K[p]
        /\ \A k \in 2..(Len(ids) + 1) : BucketKeys(t, i)[k] = D[ids[k - 1]]
        /\ \A k \in DOMAIN ids : ids[k] \in Ids /\ o[ids[k]] = p
    BY <2>1 DEF InBucket, Listing
  <2>3. p[1] = t.n
    OBVIOUS
  <2> HIDE DEF ids, p, D
  <2>4. CASE j = 1
    <3>1. p \in HeadsIn(K, t.n)
      BY <2>2, <2>3 DEF HeadsIn
    <3>. QED
      BY <3>1, <2>2, <2>4 DEF p
  <2>5. CASE j # 1
    <3>1. j \in 2..(Len(ids) + 1) /\ j - 1 \in DOMAIN ids
      BY <2>2, <2>5
    <3>2. ids[j - 1] \in InTable(o, t.n)
      BY <3>1, <2>2, <2>3 DEF InTable
    <3>. QED
      BY <3>1, <3>2, <2>2, <2>5 DEF p, ids
  <2>. QED
    BY <2>4, <2>5
<1>6. ASSUME NEW v \in Held(t)
      PROVE  \/ \E p \in HeadsIn(K, t.n) : v = K[p]
             \/ \E e \in InTable(o, t.n) : v = D[e]
  <2>1. PICK i \in UsedBuckets(t) : \E j \in DOMAIN BucketKeys(t, i) : v = BucketKeys(t, i)[j]
    BY <1>4, <1>6
  <2>2. PICK j \in DOMAIN BucketKeys(t, i) : v = BucketKeys(t, i)[j]
    BY <2>1
  <2> HIDE DEF D
  <2>. QED
    BY <2>2, <1>5
<1>7. ASSUME NEW p \in HeadsIn(K, t.n) PROVE K[p] \in Held(t)
  <2>1. p[2] \in UsedBuckets(t) /\ p = <<t.n, p[2]>>
    BY <1>2 DEF HeadsIn
  <2> DEFINE i == p[2]
  <2>2. p = <<t.n, i>> /\ i \in UsedBuckets(t)
    BY <2>1
  <2> HIDE DEF i
  <2>3. BucketKeys(t, i)[1] = K[p] /\ 1 \in DOMAIN BucketKeys(t, i)
    <3>1. InBucket(t, i, Overflow(t, i), F, K, o)
      BY <2>2, <1>1
    <3>. QED
      BY <3>1, <2>2 DEF InBucket
  <2>. QED
    BY <2>2, <2>3, <1>4
<1>8. ASSUME NEW e \in InTable(o, t.n) PROVE D[e] \in Held(t)
  <2> DEFINE i == o[e][2]
  <2>1. i \in UsedBuckets(t) /\ o[e] = <<t.n, i>> /\ e \in Ids
    BY <1>2, <1>3 DEF InTable
  <2> HIDE DEF i
  <2>2. InBucket(t, i, Overflow(t, i), F, K, o)
    BY <2>1, <1>1
  <2> DEFINE ids == Overflow(t, i)
  <2>3. /\ DOMAIN BucketKeys(t, i) = 1..(Len(ids) + 1) /\ Len(ids) \in Nat /\ DOMAIN ids = 1..Len(ids)
        /\ \A k \in 2..(Len(ids) + 1) : BucketKeys(t, i)[k] = D[ids[k - 1]]
        /\ \A z \in Ids : o[z] = <<t.n, i>> => \E j \in DOMAIN ids : ids[j] = z
    BY <2>2 DEF InBucket, Listing
  <2> HIDE DEF ids, D
  <2>4. PICK j \in DOMAIN ids : ids[j] = e
    BY <2>1, <2>3
  <2>5. j + 1 \in 2..(Len(ids) + 1) /\ j + 1 \in DOMAIN BucketKeys(t, i) /\ (j + 1) - 1 = j
    BY <2>3
  <2>6. BucketKeys(t, i)[j + 1] = D[e]
    BY <2>3, <2>4, <2>5
  <2>. QED
    BY <2>1, <2>5, <2>6, <1>4
<1>9. IsFiniteSet(Held(t))
  <2>1. \A v \in Held(t) : v \in Keys \cup {NoKey, Junk}
    <3> TAKE v \in Held(t)
    <3>1. CASE \E p \in HeadsIn(K, t.n) : v = K[p]
      BY <3>1, <1>3 DEF HeadsIn
    <3>2. CASE \E e \in InTable(o, t.n) : v = D[e]
      BY <3>2, <1>3 DEF InTable
    <3>. QED
      BY <3>1, <3>2, <1>6
  <2>2. IsFiniteSet(Keys \cup {NoKey, Junk})
    BY DataFinite
  <2>. QED
    BY <2>1, <2>2, FS_Subset
<1>10. OneToOne(g, Places(t), Held(t))
  <2>1. \A q \in Places(t) : PlacedAt(t, q)
    BY PlacesAre
  <2>2. ASSUME NEW q \in Places(t) PROVE g[q] \in Held(t)
    <3>1. q[1] \in UsedBuckets(t) /\ q[2] \in DOMAIN BucketKeys(t, q[1])
      BY <2>1 DEF PlacedAt
    <3>. QED
      BY <3>1, <1>4
  <2>3. ASSUME NEW a \in Places(t), NEW b \in Places(t), g[a] = g[b] PROVE a = b
    <3> DEFINE i == a[1]
               j == a[2]
               k == b[1]
               l == b[2]
    <3>1. /\ a = <<i, j>> /\ b = <<k, l>> /\ i \in UsedBuckets(t) /\ k \in UsedBuckets(t)
          /\ j \in DOMAIN BucketKeys(t, i) /\ l \in DOMAIN BucketKeys(t, k)
      BY <2>1 DEF PlacedAt
    <3>2. BucketKeys(t, i)[j] = BucketKeys(t, k)[l]
      BY <2>3
    <3> HIDE DEF i, j, k, l, g, D
    <3> DEFINE ids == Overflow(t, i)
               ods == Overflow(t, k)
    <3>3. \/ j = 1 /\ BucketKeys(t, i)[j] = K[<<t.n, i>>] /\ <<t.n, i>> \in HeadsIn(K, t.n)
          \/ /\ j # 1 /\ j - 1 \in DOMAIN ids /\ BucketKeys(t, i)[j] = D[ids[j - 1]]
             /\ ids[j - 1] \in InTable(o, t.n) /\ o[ids[j - 1]] = <<t.n, i>>
      BY <3>1, <1>5
    <3>4. \/ l = 1 /\ BucketKeys(t, k)[l] = K[<<t.n, k>>] /\ <<t.n, k>> \in HeadsIn(K, t.n)
          \/ /\ l # 1 /\ l - 1 \in DOMAIN ods /\ BucketKeys(t, k)[l] = D[ods[l - 1]]
             /\ ods[l - 1] \in InTable(o, t.n) /\ o[ods[l - 1]] = <<t.n, k>>
      BY <3>1, <1>5
    <3>5. \A p \in HeadsIn(K, t.n) : p \in Place /\ K[p] # NoKey
      BY DEF HeadsIn
    <3>6. \A e \in InTable(o, t.n) : e \in Ids /\ Bucketed(o[e])
      BY DEF InTable
    <3> HIDE DEF ids, ods
    <3>7. CASE j = 1
      <4>1. l = 1
        BY <3>2, <3>3, <3>4, <3>5, <3>6, <3>7, <1>3
      <4>2. <<t.n, i>> = <<t.n, k>>
        BY <3>2, <3>3, <3>4, <3>5, <3>7, <4>1, <1>3
      <4>. QED
        BY <3>1, <3>7, <4>1, <4>2
    <3>8. CASE j # 1
      <4>1. l # 1
        BY <3>2, <3>3, <3>4, <3>5, <3>6, <3>8, <1>3
      <4>2. ids[j - 1] = ods[l - 1]
        BY <3>2, <3>3, <3>4, <3>6, <3>8, <4>1, <1>3
      <4>3. <<t.n, i>> = <<t.n, k>>
        BY <3>3, <3>4, <3>8, <4>1, <4>2
      <4>4. i = k
        BY <4>3
      <4>5. Listing(ids, F, NextOf(heap), o, <<t.n, i>>) /\ ods = ids /\ DOMAIN ids = 1..Len(ids)
            /\ Len(ids) \in Nat
        BY <4>4, <3>1, <1>1 DEF InBucket, ids, ods
      <4>6. j - 1 = l - 1
        BY <4>1, <4>2, <4>5, <3>3, <3>4, <3>8 DEF Listing
      <4>7. j \in Int /\ l \in Int
        <5>1. InBucket(t, i, Overflow(t, i), F, K, o) /\ InBucket(t, k, Overflow(t, k), F, K, o)
          BY <3>1, <1>1
        <5>. QED
          BY <5>1, <3>1 DEF InBucket
      <4>8. j = l
        BY <4>6, <4>7
      <4>. QED
        BY <4>4, <4>8, <3>1
    <3>. QED
      BY <3>7, <3>8
  <2>4. ASSUME NEW v \in Held(t) PROVE \E q \in Places(t) : g[q] = v
    <3>1. PICK i \in UsedBuckets(t) : \E j \in DOMAIN BucketKeys(t, i) : v = BucketKeys(t, i)[j]
      BY <1>4, <2>4
    <3>2. PICK j \in DOMAIN BucketKeys(t, i) : v = BucketKeys(t, i)[j]
      BY <3>1
    <3>3. <<i, j>> \in Places(t)
      BY <3>2, PlacesAre
    <3>4. g[<<i, j>>] = BucketKeys(t, i)[j]
      BY <3>3
    <3>. QED
      BY <3>2, <3>3, <3>4
  <2>5. g \in [Places(t) -> Held(t)]
    BY <2>2
  <2> HIDE DEF g
  <2>. QED
    BY <2>3, <2>4, <2>5 DEF OneToOne
<1>11. Size(t) = Cardinality(Held(t))
  <2> HIDE DEF g
  <2>. QED
    BY <1>9, <1>10, SameSize DEF Size
<1>. QED
  BY <1>6, <1>7, <1>8, <1>9, <1>11

\* The overflow entries of a table, and how many they are.
LEMMA ChainedAre ==
  ASSUME heap \in Heaps, NEW F, NEW K, NEW o, NEW x, Ranked(F, NextOf(heap), o),
         Keyed(K, DataOf(heap), o, x), NEW t, Shows(t, F, K)
  PROVE  /\ Chained(t) = InTable(o, t.n)
         /\ IsFiniteSet(UsedBuckets(t)) /\ Cardinality(UsedBuckets(t)) \in Nat
         /\ IsFiniteSet(InTable(o, t.n)) /\ Cardinality(InTable(o, t.n)) \in Nat
         /\ Size(t) = Cardinality(UsedBuckets(t)) + Cardinality(InTable(o, t.n))
<1> DEFINE P == {q \in Places(t) : q[2] = 1}
           Q == {q \in Places(t) : q[2] # 1}
           a == [q \in P |-> q[1]]
           b == [q \in Q |-> Overflow(t, q[1])[q[2] - 1]]
<1>1. \A i \in UsedBuckets(t) : InBucket(t, i, Overflow(t, i), F, K, o)
  BY BucketShown
<1>2. \A p \in Place : Bucketed(p) /\ p[1] = t.n /\ K[p] # NoKey
                        => p[2] \in UsedBuckets(t) /\ p = <<t.n, p[2]>>
  BY DEF Shows, UsedBuckets, IsTable
<1>3. o \in [Ids -> Place] /\ \A e \in Ids : Bucketed(o[e]) => K[o[e]] # NoKey
  BY DEF Keyed
<1>4. ASSUME NEW e \in InTable(o, t.n)
      PROVE  /\ e \in Ids /\ o[e] = <<t.n, o[e][2]>> /\ o[e][2] \in UsedBuckets(t)
             /\ \E j \in DOMAIN Overflow(t, o[e][2]) : Overflow(t, o[e][2])[j] = e
  <2> DEFINE i == o[e][2]
  <2>1. i \in UsedBuckets(t) /\ o[e] = <<t.n, i>> /\ e \in Ids
    BY <1>2, <1>3 DEF InTable
  <2> HIDE DEF i
  <2>2. Listing(Overflow(t, i), F, NextOf(heap), o, <<t.n, i>>)
    BY <2>1, <1>1 DEF InBucket
  <2>3. \E j \in DOMAIN Overflow(t, i) : Overflow(t, i)[j] = e
    BY <2>1, <2>2 DEF Listing
  <2>. QED
    BY <2>1, <2>3 DEF i
<1>5. ASSUME NEW i \in UsedBuckets(t), NEW j \in DOMAIN Overflow(t, i)
      PROVE  /\ Overflow(t, i)[j] \in InTable(o, t.n) /\ o[Overflow(t, i)[j]] = <<t.n, i>>
             /\ j + 1 \in DOMAIN BucketKeys(t, i) /\ j + 1 # 1 /\ (j + 1) - 1 = j /\ j \in Int
  <2>1. InBucket(t, i, Overflow(t, i), F, K, o)
    BY <1>1
  <2> DEFINE ids == Overflow(t, i)
             p == <<t.n, i>>
  <2>2. /\ p \in Place /\ Bucketed(p) /\ DOMAIN BucketKeys(t, i) = 1..(Len(ids) + 1)
        /\ Len(ids) \in Nat /\ DOMAIN ids = 1..Len(ids)
        /\ ids[j] \in Ids /\ o[ids[j]] = p
    BY <2>1, <1>5 DEF InBucket, Listing
  <2>3. p[1] = t.n
    OBVIOUS
  <2> HIDE DEF ids, p
  <2>4. ids[j] \in InTable(o, t.n)
    BY <2>2, <2>3 DEF InTable
  <2>5. j \in 1..Len(ids)
    BY <2>2, <1>5 DEF ids
  <2>6. j + 1 \in 1..(Len(ids) + 1) /\ j + 1 # 1 /\ (j + 1) - 1 = j /\ j \in Int
    BY <2>5, <2>2
  <2>. QED
    BY <2>2, <2>4, <2>6 DEF ids, p
<1>6. Chained(t) = InTable(o, t.n)
  <2>1. ASSUME NEW e \in Chained(t) PROVE e \in InTable(o, t.n)
    <3>1. PICK i \in UsedBuckets(t) : e \in Elements(Overflow(t, i))
      BY <2>1 DEF Chained
    <3>2. PICK j \in DOMAIN Overflow(t, i) : e = Overflow(t, i)[j]
      BY <3>1 DEF Elements
    <3>. QED
      BY <3>2, <1>5
  <2>2. ASSUME NEW e \in InTable(o, t.n) PROVE e \in Chained(t)
    <3> DEFINE i == o[e][2]
    <3>1. i \in UsedBuckets(t) /\ \E j \in DOMAIN Overflow(t, i) : Overflow(t, i)[j] = e
      BY <1>4
    <3> HIDE DEF i
    <3>2. e \in Elements(Overflow(t, i))
      BY <3>1 DEF Elements
    <3>. QED
      BY <3>1, <3>2 DEF Chained
  <2>. QED
    BY <2>1, <2>2
<1>7. IsFiniteSet(InTable(o, t.n)) /\ Cardinality(InTable(o, t.n)) \in Nat
  <2>1. InTable(o, t.n) \in SUBSET Ids
    BY DEF InTable
  <2>. QED
    BY <2>1, FiniteIds
<1>8. IsFiniteSet(UsedBuckets(t)) /\ Cardinality(UsedBuckets(t)) \in Nat
  <2>1. t.n \in Nat
    BY CellIs DEF Shows
  <2>2. IsFiniteSet(0..(t.n - 1))
    <3>1. 0 \in Int /\ t.n - 1 \in Int
      BY <2>1
    <3>. QED
      BY <3>1, FS_Interval
  <2>3. UsedBuckets(t) \in SUBSET (0..(t.n - 1))
    BY DEF UsedBuckets, Shows, IsTable
  <2>. QED
    BY <2>2, <2>3, FS_Subset, FS_CardinalityType
<1>9. \A q \in Places(t) : PlacedAt(t, q)
  BY PlacesAre
<1>10. OneToOne(a, P, UsedBuckets(t))
  <2>1. a \in [P -> UsedBuckets(t)]
    BY <1>9 DEF PlacedAt
  <2>2. ASSUME NEW q \in P, NEW r \in P, a[q] = a[r] PROVE q = r
    <3>1. q = <<q[1], q[2]>> /\ r = <<r[1], r[2]>> /\ q[2] = 1 /\ r[2] = 1
      BY <1>9 DEF PlacedAt
    <3>2. q[1] = r[1]
      BY <2>2
    <3>. QED
      BY <3>1, <3>2
  <2>3. ASSUME NEW i \in UsedBuckets(t) PROVE \E q \in P : a[q] = i
    <3>1. 1 \in DOMAIN BucketKeys(t, i)
      <4>1. InBucket(t, i, Overflow(t, i), F, K, o)
        BY <1>1
      <4>. QED
        BY <4>1 DEF InBucket
    <3>2. <<i, 1>> \in Places(t)
      BY <3>1, PlacesAre
    <3>3. <<i, 1>> \in P /\ a[<<i, 1>>] = i
      BY <3>2
    <3>. QED
      BY <3>3
  <2> HIDE DEF a
  <2>. QED
    BY <2>1, <2>2, <2>3 DEF OneToOne
<1>11. ASSUME NEW q \in Q
       PROVE  /\ q = <<q[1], q[2]>> /\ q[1] \in UsedBuckets(t)
              /\ q[2] - 1 \in DOMAIN Overflow(t, q[1]) /\ q[2] \in Int
  <2>1. q[1] \in UsedBuckets(t) /\ q = <<q[1], q[2]>> /\ q[2] \in DOMAIN BucketKeys(t, q[1])
        /\ q[2] # 1
    BY <1>9 DEF PlacedAt
  <2> DEFINE ids == Overflow(t, q[1])
  <2>2. /\ DOMAIN BucketKeys(t, q[1]) = 1..(Len(ids) + 1)
        /\ Len(ids) \in Nat /\ DOMAIN ids = 1..Len(ids)
    BY <2>1, <1>1 DEF InBucket
  <2> HIDE DEF ids
  <2>3. q[2] - 1 \in 1..Len(ids) /\ q[2] \in Int
    BY <2>1, <2>2
  <2>. QED
    BY <2>1, <2>2, <2>3 DEF ids
<1>12. OneToOne(b, Q, InTable(o, t.n))
  <2>1. b \in [Q -> InTable(o, t.n)]
    <3>1. \A q \in Q : b[q] \in InTable(o, t.n)
      BY <1>5, <1>11
    <3>. QED
      BY <3>1
  <2>2. ASSUME NEW q \in Q, NEW r \in Q, b[q] = b[r] PROVE q = r
    <3> DEFINE i == q[1]
               j == q[2] - 1
               k == r[1]
               l == r[2] - 1
    <3>1. /\ q = <<i, q[2]>> /\ r = <<k, r[2]>> /\ i \in UsedBuckets(t) /\ k \in UsedBuckets(t)
          /\ j \in DOMAIN Overflow(t, i) /\ l \in DOMAIN Overflow(t, k)
          /\ q[2] \in Int /\ r[2] \in Int
      BY <1>11
    <3>2. Overflow(t, i)[j] = Overflow(t, k)[l]
      BY <2>2
    <3> HIDE DEF i, k, b
    <3>3. <<t.n, i>> = <<t.n, k>>
      <4> HIDE DEF j, l
      <4>. QED
        BY <3>1, <3>2, <1>5
    <3>4. i = k
      BY <3>3
    <3>5. j = l
      <4> HIDE DEF j, l
      <4>1. Listing(Overflow(t, i), F, NextOf(heap), o, <<t.n, i>>)
        BY <3>1, <1>1 DEF InBucket
      <4>2. j \in DOMAIN Overflow(t, i) /\ l \in DOMAIN Overflow(t, i)
            /\ Overflow(t, i)[j] = Overflow(t, i)[l]
        BY <3>1, <3>2, <3>4
      <4>. QED
        BY <4>1, <4>2 DEF Listing
    <3>6. q[2] = r[2]
      BY <3>1, <3>5
    <3>. QED
      BY <3>1, <3>4, <3>6
  <2>3. ASSUME NEW e \in InTable(o, t.n) PROVE \E q \in Q : b[q] = e
    <3> DEFINE i == o[e][2]
    <3>1. i \in UsedBuckets(t) /\ \E j \in DOMAIN Overflow(t, i) : Overflow(t, i)[j] = e
      BY <1>4
    <3> HIDE DEF i
    <3>2. PICK j \in DOMAIN Overflow(t, i) : Overflow(t, i)[j] = e
      BY <3>1
    <3>3. j + 1 \in DOMAIN BucketKeys(t, i) /\ j + 1 # 1 /\ (j + 1) - 1 = j
      BY <3>1, <1>5
    <3>4. <<i, j + 1>> \in Places(t)
      BY <3>1, <3>3, PlacesAre
    <3>5. <<i, j + 1>> \in Q
      BY <3>3, <3>4
    <3>6. b[<<i, j + 1>>] = Overflow(t, i)[j]
      BY <3>3, <3>5
    <3>. QED
      BY <3>2, <3>5, <3>6
  <2> HIDE DEF b
  <2>. QED
    BY <2>1, <2>2, <2>3 DEF OneToOne
<1>13. /\ IsFiniteSet(P) /\ Cardinality(P) = Cardinality(UsedBuckets(t))
       /\ IsFiniteSet(Q) /\ Cardinality(Q) = Cardinality(InTable(o, t.n))
  <2> HIDE DEF a, b, P, Q
  <2>. QED
    BY <1>7, <1>8, <1>10, <1>12, SameSize
<1>14. Places(t) = P \cup Q /\ P \cap Q = {}
  OBVIOUS
<1>15. Cardinality(P \cup Q) = Cardinality(P) + Cardinality(Q)
  <2> HIDE DEF P, Q
  <2>. QED
    BY <1>13, <1>14, Disjoint
<1>. QED
  BY <1>6, <1>7, <1>8, <1>13, <1>14, <1>15 DEF Size

-----------------------------------------------------------------------------
(***************************************************************************)
(* What the two tables and the free list come to.                          *)
(***************************************************************************)
Seen(F, K, o, x) ==
  /\ heap \in Heaps /\ Ranked(F, NextOf(heap), o) /\ Keyed(K, DataOf(heap), o, x)
  /\ Shows(old, F, K) /\ Shows(new, F, K) /\ (old.n # new.n \/ old.n = 0)
  /\ \A p \in Place : K[p] # NoKey => p[1] = old.n \/ p[1] = new.n
  /\ \A p \in Place : ~Bucketed(p) /\ p # FreePlace => F[p] = 0
  /\ FreeList = IdsFrom(F[FreePlace])
  /\ \A i \in 0..(old.n - 1) : old.bucket[i].data = NoKey => old.bucket[i].next = 0
  /\ \A i \in 0..(new.n - 1) : new.bucket[i].data = NoKey => new.bucket[i].next = 0

\* The keys held, and how many there are.
LEMMA HeldAre ==
  ASSUME NEW F, NEW K, NEW o, NEW x, Seen(F, K, o, x)
  PROVE  /\ Stored = KeysIn(K, DataOf(heap), o)
         /\ Held(old) \cap Held(new) = {}
         /\ IsFiniteSet(Held(old)) /\ Size(old) = Cardinality(Held(old))
         /\ IsFiniteSet(Held(new)) /\ Size(new) = Cardinality(Held(new))
         /\ Cardinality(KeysIn(K, DataOf(heap), o)) \in Nat
         /\ Size(old) + Size(new)
              = Cardinality(KeysIn(K, DataOf(heap), o)) + (IF x = 0 THEN 0 ELSE 1)
<1> DEFINE D == DataOf(heap)
           L == KeysIn(K, D, o)
<1>1. /\ heap \in Heaps /\ Ranked(F, NextOf(heap), o) /\ Keyed(K, D, o, x)
      /\ Shows(old, F, K) /\ Shows(new, F, K) /\ (old.n # new.n \/ old.n = 0)
      /\ \A p \in Place : K[p] # NoKey => p[1] = old.n \/ p[1] = new.n
  BY DEF Seen
<1>2. /\ K \in [Place -> Keys \cup {NoKey}] /\ D \in [Ids -> Keys \cup {NoKey, Junk}]
      /\ o \in [Ids -> Place]
      /\ \A e \in Ids : Bucketed(o[e]) => K[o[e]] # NoKey /\ (e # x => D[e] \in Keys)
      /\ \A p, q \in Place : K[p] # NoKey /\ K[p] = K[q] => p = q
      /\ \A e, f \in Ids : Bucketed(o[e]) /\ Bucketed(o[f]) /\ D[e] = D[f] => e = f
      /\ \A p \in Place, e \in Ids : Bucketed(o[e]) /\ D[e] = K[p] => K[p] = NoKey
      /\ x # 0 => x \in Ids /\ Bucketed(o[x]) /\ D[x] \notin Keys
      /\ \A p \in Place : K[p] # NoKey => Bucketed(p)
  BY <1>1 DEF Keyed, AtHome, Bucketed
<1> HIDE DEF D
<1>3. ASSUME NEW t \in {old, new}
      PROVE  /\ IsFiniteSet(Held(t)) /\ Size(t) = Cardinality(Held(t))
             /\ \A v \in Held(t) : \/ \E p \in HeadsIn(K, t.n) : v = K[p]
                                   \/ \E e \in InTable(o, t.n) : v = D[e]
             /\ \A p \in HeadsIn(K, t.n) : K[p] \in Held(t)
             /\ \A e \in InTable(o, t.n) : D[e] \in Held(t)
  <2>1. Shows(t, F, K)
    BY <1>1, <1>3
  <2>. QED
    BY <2>1, <1>1, HeldOnce DEF D
<1>4. ASSUME NEW v \in Held(old) \cup Held(new)
      PROVE  v \in L \/ (x # 0 /\ v = D[x])
  <2>1. PICK t \in {old, new} : v \in Held(t)
    BY <1>4
  <2>2. CASE \E p \in HeadsIn(K, t.n) : v = K[p]
    <3>1. PICK p \in HeadsIn(K, t.n) : v = K[p]
      BY <2>2
    <3>2. p \in Place /\ K[p] \in Keys
      BY <1>2 DEF HeadsIn
    <3>. QED
      BY <3>1, <3>2 DEF KeysIn
  <2>3. CASE \E e \in InTable(o, t.n) : v = D[e]
    <3>1. PICK e \in InTable(o, t.n) : v = D[e]
      BY <2>3
    <3>2. e \in Ids /\ Bucketed(o[e])
      BY DEF InTable
    <3>3. CASE e = x
      <4>1. x # 0
        BY <3>2, <3>3, NotIds
      <4>. QED
        BY <3>1, <3>3, <4>1
    <3>4. CASE e # x
      <4>1. D[e] \in Keys
        BY <3>2, <3>4, <1>2
      <4>. QED
        BY <3>1, <3>2, <4>1 DEF KeysIn
    <3>. QED
      BY <3>3, <3>4
  <2>. QED
    BY <2>1, <2>2, <2>3, <1>3
<1>5. ASSUME NEW e \in Ids, Bucketed(o[e]) PROVE D[e] \in Held(old) \cup Held(new)
  <2>1. o[e] \in Place /\ K[o[e]] # NoKey
    BY <1>2, <1>5
  <2>2. o[e][1] = old.n \/ o[e][1] = new.n
    BY <2>1, <1>1
  <2>3. e \in InTable(o, old.n) \/ e \in InTable(o, new.n)
    BY <2>2, <1>5 DEF InTable
  <2>. QED
    BY <2>3, <1>3
<1>6. ASSUME NEW p \in Place, K[p] # NoKey PROVE K[p] \in Held(old) \cup Held(new)
  <2>1. Bucketed(p) /\ (p[1] = old.n \/ p[1] = new.n)
    BY <1>1, <1>2, <1>6
  <2>2. p \in HeadsIn(K, old.n) \/ p \in HeadsIn(K, new.n)
    BY <2>1, <1>6 DEF HeadsIn
  <2>. QED
    BY <2>2, <1>3
<1>7. L \subseteq Held(old) \cup Held(new) /\ L \subseteq Keys
  <2>1. ASSUME NEW k \in L PROVE k \in (Held(old) \cup Held(new)) /\ k \in Keys
    <3>1. k \in Keys /\ k # NoKey
      BY KeysAssumption DEF KeysIn
    <3>2. CASE \E p \in Place : K[p] = k
      BY <3>1, <3>2, <1>6
    <3>3. CASE \E e \in Ids : Bucketed(o[e]) /\ D[e] = k
      BY <3>1, <3>3, <1>5
    <3>. QED
      BY <3>1, <3>2, <3>3, <2>1 DEF KeysIn
  <2>. QED
    BY <2>1
<1>8. Held(old) \cup Held(new) = L \cup {v \in {D[x]} : x # 0}
  <2>1. x # 0 => D[x] \in Held(old) \cup Held(new)
    BY <1>2, <1>5
  <2> HIDE DEF L
  <2>. QED
    BY <2>1, <1>4, <1>7
<1>9. Stored = L
  <2>1. x # 0 => D[x] \notin Keys
    BY <1>2
  <2> HIDE DEF L
  <2>. QED
    BY <2>1, <1>7, <1>8 DEF Stored
<1>10. Held(old) \cap Held(new) = {}
  <2> SUFFICES ASSUME NEW v, v \in Held(old), v \in Held(new) PROVE FALSE
    OBVIOUS
  <2>1. \/ \E p \in HeadsIn(K, old.n) : v = K[p]
        \/ \E e \in InTable(o, old.n) : v = D[e]
    BY <1>3
  <2>2. \/ \E p \in HeadsIn(K, new.n) : v = K[p]
        \/ \E e \in InTable(o, new.n) : v = D[e]
    BY <1>3
  <2>3. \A n : \A p \in HeadsIn(K, n) : p \in Place /\ K[p] # NoKey /\ p[1] = n /\ n # 0
    BY DEF HeadsIn, Bucketed
  <2>4. \A n : \A e \in InTable(o, n) : e \in Ids /\ Bucketed(o[e]) /\ o[e][1] = n /\ n # 0
    BY DEF InTable, Bucketed
  <2>5. CASE \E p \in HeadsIn(K, old.n) : v = K[p]
    <3>1. PICK p \in HeadsIn(K, old.n) : v = K[p]
      BY <2>5
    <3>2. ~(\E e \in InTable(o, new.n) : v = D[e])
      BY <3>1, <2>3, <2>4, <1>2
    <3>3. PICK q \in HeadsIn(K, new.n) : v = K[q]
      BY <3>2, <2>2
    <3>4. p = q
      <4>1. p \in Place /\ q \in Place /\ K[p] # NoKey /\ K[p] = K[q]
        BY <3>1, <3>3, <2>3
      <4>2. \A y, z \in Place : K[y] # NoKey /\ K[y] = K[z] => y = z
        BY <1>2
      <4>. QED
        BY <4>1, <4>2
    <3>. QED
      BY <3>4, <2>3, <1>1
  <2>6. CASE \E e \in InTable(o, old.n) : v = D[e]
    <3>1. PICK e \in InTable(o, old.n) : v = D[e]
      BY <2>6
    <3>2. ~(\E p \in HeadsIn(K, new.n) : v = K[p])
      BY <3>1, <2>3, <2>4, <1>2
    <3>3. PICK f \in InTable(o, new.n) : v = D[f]
      BY <3>2, <2>2
    <3>4. e = f
      BY <3>1, <3>3, <2>4, <1>2
    <3>. QED
      BY <3>4, <2>4, <1>1
  <2>. QED
    BY <2>1, <2>5, <2>6
<1>11. IsFiniteSet(L) /\ Cardinality(L) \in Nat
  <2> HIDE DEF L
  <2>. QED
    BY <1>7, FiniteKeys
<1>12. Cardinality(Held(old) \cup Held(new)) = Cardinality(L) + (IF x = 0 THEN 0 ELSE 1)
  <2> HIDE DEF L
  <2>1. CASE x = 0
    BY <2>1, <1>8, <1>11
  <2>2. CASE x # 0
    <3>1. Held(old) \cup Held(new) = L \cup {D[x]} /\ D[x] \notin L
      BY <2>2, <1>2, <1>7, <1>8
    <3>2. Cardinality(L \cup {D[x]}) = Cardinality(L) + 1
      BY <3>1, <1>11, FS_AddElement
    <3>. QED
      BY <3>1, <3>2, <2>2
  <2>. QED
    BY <2>1, <2>2
<1>13. Cardinality(Held(old) \cup Held(new)) = Cardinality(Held(old)) + Cardinality(Held(new))
  <2>1. IsFiniteSet(Held(old)) /\ IsFiniteSet(Held(new))
    BY <1>3
  <2>. QED
    BY <2>1, <1>10, Disjoint
<1>14. /\ IsFiniteSet(Held(old)) /\ Size(old) = Cardinality(Held(old))
       /\ IsFiniteSet(Held(new)) /\ Size(new) = Cardinality(Held(new))
  BY <1>3
<1>. QED
  BY <1>9, <1>10, <1>11, <1>12, <1>13, <1>14 DEF D

\* The chains are right, but for the entry without its node.
LEMMA ChainsSeen ==
  ASSUME NEW F, NEW K, NEW o, NEW x, Seen(F, K, o, x), x # 0 => Pending /\ x = slot
  PROVE  ChainsRight
<1>1. /\ heap \in Heaps /\ Ranked(F, NextOf(heap), o) /\ Keyed(K, DataOf(heap), o, x)
      /\ Shows(old, F, K) /\ Shows(new, F, K)
      /\ \A t \in {old, new} : \A i \in 0..(t.n - 1) :
           t.bucket[i].data = NoKey => t.bucket[i].next = 0
  BY DEF Seen
<1>2. ASSUME NEW t \in {old, new}, NEW i \in DOMAIN t.bucket
      PROVE  IF t.bucket[i].data = NoKey THEN t.bucket[i].next = 0
             ELSE LET ids == Overflow(t, i)
                  IN /\ Home(t, t.bucket[i].data) = i
                     /\ \A e \in Elements(ids) :
                          \/ (heap[e].data \in Keys /\ Home(t, heap[e].data) = i)
                          \/ (Pending /\ e = slot)
  <2>1. Shows(t, F, K) /\ i \in 0..(t.n - 1)
    BY <1>1, <1>2 DEF Shows, IsTable
  <2>2. CASE t.bucket[i].data = NoKey
    BY <2>1, <2>2, <1>1
  <2>3. CASE t.bucket[i].data # NoKey
    <3>1. i \in UsedBuckets(t)
      BY <2>3 DEF UsedBuckets
    <3> DEFINE ids == Overflow(t, i)
               p == <<t.n, i>>
    <3>2. /\ p \in Place /\ Bucketed(p) /\ K[p] = t.bucket[i].data /\ K[p] # NoKey
          /\ \A j \in DOMAIN ids : ids[j] \in Ids /\ o[ids[j]] = p
      <4>1. InBucket(t, i, ids, F, K, o)
        BY <3>1, <2>1, <1>1, BucketShown
      <4>. QED
        BY <4>1 DEF InBucket, Listing
    <3>3. AtHome(p, K[p])
      BY <3>2, <1>1 DEF Keyed
    <3>4. Home(t, t.bucket[i].data) = i
      BY <3>2, <3>3 DEF AtHome, Home
    <3>5. ASSUME NEW e \in Elements(ids)
          PROVE  \/ (heap[e].data \in Keys /\ Home(t, heap[e].data) = i)
                 \/ (Pending /\ e = slot)
      <4>1. e \in Ids /\ o[e] = p
        BY <3>2 DEF Elements
      <4>2. CASE e = x
        BY <4>1, <4>2, NotIds
      <4>3. CASE e # x
        <5>1. DataOf(heap)[e] \in Keys /\ AtHome(p, DataOf(heap)[e])
          BY <4>1, <4>3, <3>2, <1>1 DEF Keyed
        <5>2. DataOf(heap)[e] = heap[e].data
          BY <4>1 DEF DataOf
        <5>3. AtHome(p, heap[e].data) => Home(t, heap[e].data) = i
          BY DEF AtHome, Home
        <5>. QED
          BY <5>1, <5>2, <5>3
      <4>. QED
        BY <4>2, <4>3
    <3>. QED
      BY <2>3, <3>4, <3>5
  <2>. QED
    BY <2>2, <2>3
<1>3. Size(old) + Size(new) = Cardinality(Held(old)) + Cardinality(Held(new))
      /\ Held(old) \cap Held(new) = {}
  BY HeldAre
<1>. QED
  BY <1>2, <1>3 DEF ChainsRight

\* Every entry is in one list.
LEMMA EntriesSeen ==
  ASSUME NEW F, NEW K, NEW o, NEW x, Seen(F, K, o, x)
  PROVE  /\ LiveOf(o) = Chained(old) \cup Chained(new) \cup Elements(FreeList)
         /\ (Size(old) - Cardinality(UsedBuckets(old)))
              + (Size(new) - Cardinality(UsedBuckets(new))) + Len(FreeList)
            = Cardinality(LiveOf(o))
<1> DEFINE A == InTable(o, old.n)
           B == InTable(o, new.n)
           C == Elements(FreeList)
<1>1. /\ heap \in Heaps /\ Ranked(F, NextOf(heap), o) /\ Keyed(K, DataOf(heap), o, x)
      /\ Shows(old, F, K) /\ Shows(new, F, K) /\ (old.n # new.n \/ old.n = 0)
      /\ \A p \in Place : K[p] # NoKey => p[1] = old.n \/ p[1] = new.n
      /\ \A p \in Place : ~Bucketed(p) /\ p # FreePlace => F[p] = 0
      /\ FreeList = IdsFrom(F[FreePlace])
  BY DEF Seen
<1>2. /\ Chained(old) = A /\ Chained(new) = B
      /\ IsFiniteSet(A) /\ Cardinality(A) \in Nat /\ IsFiniteSet(B) /\ Cardinality(B) \in Nat
      /\ Cardinality(UsedBuckets(old)) \in Nat /\ Cardinality(UsedBuckets(new)) \in Nat
      /\ Size(old) = Cardinality(UsedBuckets(old)) + Cardinality(A)
      /\ Size(new) = Cardinality(UsedBuckets(new)) + Cardinality(B)
  BY <1>1, ChainedAre
<1>3. /\ o \in [Ids -> Place] /\ F \in [Place -> Links]
      /\ \A p \in Place : p # Nowhere /\ F[p] # 0 => F[p] \in Ids /\ o[F[p]] = p
      /\ \A p \in Place : p # Nowhere /\ F[p] = 0 => \A e \in Ids : o[e] # p
      /\ \A e \in Ids : Bucketed(o[e]) => K[o[e]] # NoKey
  BY <1>1, FirstIs DEF Keyed
<1>4. Listing(FreeList, F, NextOf(heap), o, FreePlace)
  BY <1>1, PlaceFacts, Enumerates
<1>5. C = {e \in Ids : o[e] = FreePlace}
  BY <1>3, <1>4, ListedOnly
<1>6. IsFiniteSet(C) /\ Cardinality(C) = Len(FreeList) /\ Len(FreeList) \in Nat
  <2> DEFINE n == Len(FreeList)
             g == [j \in 1..n |-> FreeList[j]]
  <2>1. n \in Nat /\ DOMAIN FreeList = 1..n
    BY <1>4 DEF Listing
  <2>2. OneToOne(g, 1..n, C)
    <3>1. g \in [1..n -> C] /\ \A c \in C : \E j \in 1..n : g[j] = c
      BY <2>1 DEF Elements
    <3>2. \A i, j \in 1..n : g[i] = g[j] => i = j
      BY <2>1, <1>4 DEF Listing
    <3> HIDE DEF g, n, C
    <3>. QED
      BY <3>1, <3>2 DEF OneToOne
  <2>3. IsFiniteSet(C)
    <3>1. C \in SUBSET Ids
      BY <1>5
    <3>. QED
      BY <3>1, FiniteIds
  <2> HIDE DEF g, n, C
  <2>4. Cardinality(1..n) = Cardinality(C)
    BY <2>2, <2>3, SameSize
  <2>5. Cardinality(1..n) = n
    <3>1. 1 \in Int /\ n \in Int
      BY <2>1
    <3>2. Cardinality(1..n) = IF 1 > n THEN 0 ELSE n - 1 + 1
      BY <3>1, FS_Interval
    <3>. QED
      BY <3>2, <2>1
  <2>. QED
    BY <2>1, <2>3, <2>4, <2>5 DEF n
<1>7. LiveOf(o) = (A \cup B) \cup C
  <2>1. ASSUME NEW e \in Ids, o[e] # Nowhere PROVE e \in A \/ e \in B \/ e \in C
    <3>1. o[e] \in Place /\ F[o[e]] # 0
      BY <2>1, <1>3
    <3>2. CASE Bucketed(o[e])
      <4>1. o[e][1] = old.n \/ o[e][1] = new.n
        BY <3>1, <3>2, <1>1, <1>3
      <4>. QED
        BY <4>1, <3>2 DEF InTable
    <3>3. CASE ~Bucketed(o[e])
      BY <3>1, <3>3, <1>1, <1>5
    <3>. QED
      BY <3>2, <3>3
  <2>2. ~Bucketed(Nowhere) /\ FreePlace # Nowhere
    BY PlaceFacts
  <2>3. A \subseteq LiveOf(o) /\ B \subseteq LiveOf(o)
    BY <2>2 DEF LiveOf, InTable
  <2>4. C \subseteq LiveOf(o)
    BY <2>2, <1>5 DEF LiveOf
  <2>5. LiveOf(o) \subseteq (A \cup B) \cup C
    <3> HIDE DEF A, B, C
    <3>. QED
      BY <2>1 DEF LiveOf
  <2>. QED
    BY <2>3, <2>4, <2>5
<1>8. A \cap B = {} /\ (A \cup B) \cap C = {}
  <2>1. A \cap B = {}
    BY <1>1 DEF InTable, Bucketed
  <2>2. \A e \in A \cup B : Bucketed(o[e])
    BY DEF InTable
  <2>3. \A e \in C : ~Bucketed(o[e])
    BY <1>5, PlaceFacts
  <2>. QED
    BY <2>1, <2>2, <2>3
<1>9. /\ Cardinality(A \cup B) = Cardinality(A) + Cardinality(B)
      /\ Cardinality((A \cup B) \cup C) = Cardinality(A \cup B) + Cardinality(C)
  <2> HIDE DEF A, B, C
  <2>1. IsFiniteSet(A \cup B) /\ Cardinality(A \cup B) = Cardinality(A) + Cardinality(B)
    BY <1>2, <1>8, Disjoint
  <2>. QED
    BY <2>1, <1>6, <1>8, Disjoint
<1> HIDE DEF A, B, C
<1>10. LiveOf(o) = Chained(old) \cup Chained(new) \cup C
  BY <1>2, <1>7
<1>11. (Size(old) - Cardinality(UsedBuckets(old)))
         + (Size(new) - Cardinality(UsedBuckets(new))) + Len(FreeList) = Cardinality(LiveOf(o))
  <2>1. Cardinality(LiveOf(o)) = Cardinality(A) + Cardinality(B) + Len(FreeList)
    BY <1>6, <1>7, <1>9
  <2>. QED
    BY <2>1, <1>2, <1>6
<1>. QED
  BY <1>10, <1>11 DEF C

-----------------------------------------------------------------------------
(***************************************************************************)
(* What the calls do to a table at rest.                                   *)
(***************************************************************************)
\* A bucket of a table at rest.
RestHere(t, h, o, x, i, q, F, K) ==
  /\ IsTable(t) /\ IsSize(t.n) /\ h \in Heaps /\ t.n # 0 /\ t.n # NoTable.n
  /\ Ranked(F, NextOf(h), o) /\ Keyed(K, DataOf(h), o, x)
  /\ i \in 0..(t.n - 1) /\ q = <<t.n, i>> /\ q \in Place \ {Nowhere} /\ Bucketed(q)
  /\ q # FreePlace /\ F \in [Place -> Links] /\ K \in [Place -> Keys \cup {NoKey}]
  /\ o \in [Ids -> Place]
  /\ F[q] = t.bucket[i].next /\ F[FreePlace] = t.free /\ K[q] = t.bucket[i].data
  /\ t.bucket[i] \in Buckets /\ t.free \in Links /\ t.bucket[i].next \in Links

\* What holds at a bucket of a table at rest,
LEMMA RestAt ==
  ASSUME NEW t, NEW h, NEW o, NEW x, Resting(t, h, o, x), NEW i \in 0..(t.n - 1)
  PROVE  RestHere(t, h, o, x, i, <<t.n, i>>, Lists(t), HeadsOf(t, NoTable))
<1> DEFINE q == <<t.n, i>>
           F == Lists(t)
           K == HeadsOf(t, NoTable)
           N == NextsOf(t, NoTable)
<1>1. /\ IsTable(t) /\ IsSize(t.n) /\ h \in Heaps /\ t.n # 0 /\ t.n \in Nat \ {0}
      /\ Ranked(F, NextOf(h), o) /\ Keyed(K, DataOf(h), o, x)
  BY SizeFacts DEF Resting
<1>2. IsTable(NoTable) /\ NoTable.n = 0 /\ t.n # NoTable.n
  BY <1>1, NoTableIs
<1>3. q \in Place \ {Nowhere} /\ Bucketed(q) /\ q # FreePlace
  BY <1>1, BucketPlace
<1>4. K[q] = t.bucket[i].data /\ N[q] = t.bucket[i].next
  BY <1>1, <1>2, ViewAt
<1>5. N \in [Place -> Links] /\ t.free \in Links /\ t.bucket[i] \in Buckets
  BY <1>1, <1>2, ViewTypes DEF IsTable
<1>6. F = [N EXCEPT ![FreePlace] = t.free]
  BY DEF Lists
<1> HIDE DEF N, F
<1>7. F \in [Place -> Links] /\ F[q] = t.bucket[i].next /\ F[FreePlace] = t.free
  <2> HIDE DEF q
  <2>. QED
    BY <1>3, <1>4, <1>5, <1>6, PlaceFacts
<1>8. t.bucket[i].next \in Links
  BY <1>5 DEF Buckets
<1>9. K \in [Place -> Keys \cup {NoKey}] /\ o \in [Ids -> Place]
  BY <1>1 DEF Keyed
<1>10. i \in 0..(t.n - 1) /\ q = <<t.n, i>>
  OBVIOUS
<1> HIDE DEF q, K
<1>11. RestHere(t, h, o, x, i, q, F, K)
  BY <1>1, <1>2, <1>3, <1>4, <1>5, <1>7, <1>8, <1>9, <1>10 DEF RestHere
<1>. QED
  BY <1>11 DEF F, q, K

\* The bucket and the free list are changed.
RestPut(t, i, r, us, f, q, F, K) ==
  LET e == Edited(t, i, r, us, f)
  IN  /\ IsTable(e) /\ e.n = t.n /\ e.used = us /\ e.free = f
      /\ Lists(e) = [F EXCEPT ![q] = r.next, ![FreePlace] = f]
      /\ HeadsOf(e, NoTable) = [K EXCEPT ![q] = r.data]

\* what its lists and heads become when the bucket is edited,
LEMMA RestEdit ==
  ASSUME NEW t, NEW h, NEW o, NEW x, Resting(t, h, o, x), NEW i \in 0..(t.n - 1),
         NEW r \in Buckets, NEW us, NEW f \in Links
  PROVE  RestPut(t, i, r, us, f, <<t.n, i>>, Lists(t), HeadsOf(t, NoTable))
<1> DEFINE q == <<t.n, i>>
           F == Lists(t)
           N == NextsOf(t, NoTable)
           e == Edited(t, i, r, us, f)
<1>1. /\ IsTable(t) /\ t.n # NoTable.n /\ q \in Place /\ q # FreePlace /\ t.free \in Links
  BY RestAt DEF RestHere
<1>2. IsTable(NoTable)
  BY NoTableIs
<1>3. e.n = t.n /\ e.used = us /\ e.free = f /\ e.bucket = [t.bucket EXCEPT ![i] = r]
      /\ e = [n |-> e.n, bucket |-> e.bucket, used |-> e.used, free |-> e.free]
  BY DEF Edited
<1> HIDE DEF e
<1>4. /\ HeadsOf(e, NoTable) = [HeadsOf(t, NoTable) EXCEPT ![q] = r.data]
      /\ NextsOf(e, NoTable) = [N EXCEPT ![q] = r.next]
  BY <1>1, <1>2, <1>3, ViewEdit
<1>5. IsTable(e)
  BY <1>1, <1>3 DEF IsTable
<1>6. N \in [Place -> Links] /\ F = [N EXCEPT ![FreePlace] = t.free]
      /\ Lists(e) = [NextsOf(e, NoTable) EXCEPT ![FreePlace] = f]
  BY <1>1, <1>2, <1>3, ViewTypes DEF Lists
<1> HIDE DEF N, F, q
<1>7. [[N EXCEPT ![q] = r.next] EXCEPT ![FreePlace] = f]
        = [[N EXCEPT ![FreePlace] = t.free] EXCEPT ![q] = r.next, ![FreePlace] = f]
  BY <1>1, <1>6, PlaceFacts
<1>. QED
  BY <1>3, <1>4, <1>5, <1>6, <1>7 DEF RestPut, e, F, q

\* The next state: a table at rest with these keys and entries.  x is the entry
\* that has not got its node yet, in the place q.
Rests(t, h, x, q, ks, lv) ==
  \E u : /\ Resting(t, h, u, x) /\ RestKeys(t, h, u) = ks /\ LiveOf(u) = lv
         /\ x # 0 => u[x] = q

\* The same of a table of n buckets whose counter is right.
Linked(t, h, x, q, ks, lv, n) == Rests(t, h, x, q, ks, lv) /\ Counted(t) /\ t.n = n

\* Only the counter of a table differs.
LEMMA PutUsedIs ==
  ASSUME NEW t, IsTable(t), NEW us, NEW e, e = [t EXCEPT !.used = us]
  PROVE  IsTable(e) /\ e.n = t.n /\ e.used = us /\ e.bucket = t.bucket /\ e.free = t.free
<1> DEFINE n == t.n
           b == t.bucket
           f == t.free
           w == t.used
<1>1. t = [n |-> n, bucket |-> b, used |-> w, free |-> f]
  BY DEF IsTable
<1>2. n = t.n /\ b = t.bucket /\ f = t.free
  OBVIOUS
<1> HIDE DEF n, b, f, w
<1>3. e = [n |-> n, bucket |-> b, used |-> us, free |-> f]
  BY <1>1
<1>4. e.n = n /\ e.used = us /\ e.bucket = b /\ e.free = f
  BY <1>3
<1>5. e = [n |-> e.n, bucket |-> e.bucket, used |-> e.used, free |-> e.free]
  BY <1>3, <1>4
<1>. QED
  BY <1>2, <1>4, <1>5 DEF IsTable

\* and that its counter is of no matter.
LEMMA RestCounter ==
  ASSUME NEW t, NEW h, NEW o, NEW x, Resting(t, h, o, x),
         NEW e, IsTable(e), e.n = t.n, e.bucket = t.bucket, e.free = t.free
  PROVE  Resting(e, h, o, x) /\ RestKeys(e, h, o) = RestKeys(t, h, o)
<1>1. HeadsOf(e, NoTable) = HeadsOf(t, NoTable) /\ NextsOf(e, NoTable) = NextsOf(t, NoTable)
  BY ViewSame
<1>2. Lists(e) = Lists(t)
  BY <1>1 DEF Lists
<1>. QED
  BY <1>1, <1>2 DEF Resting, RestKeys

\* hash_insert makes an entry in the chain of a bucket.
LEMMA LinksIn ==
  ASSUME NEW t, NEW h, NEW o, Resting(t, h, o, 0), Counted(t),
         NEW i \in 0..(t.n - 1), t.bucket[i].data # NoKey,
         NEW x \in Ids, NEW y \in Links, NEW lv, NEW v \in {NoKey, Junk},
         \/ t.free # 0 /\ x = t.free /\ y = h[x].next /\ lv = LiveOf(o)
         \/ t.free = 0 /\ o[x] = Nowhere /\ y = 0 /\ lv = LiveOf(o) \cup {x},
         NEW e, e = [t EXCEPT !.bucket[i].next = x, !.free = y],
         NEW g, g = [h EXCEPT ![x] = [data |-> v, next |-> t.bucket[i].next]]
  PROVE  Linked(e, g, x, <<t.n, i>>, RestKeys(t, h, o), lv, t.n)
<1> DEFINE q == <<t.n, i>>
           F == Lists(t)
           K == HeadsOf(t, NoTable)
           p == [data |-> t.bucket[i].data, next |-> x]
           u == [o EXCEPT ![x] = q]
<1>1. RestHere(t, h, o, 0, i, q, F, K)
  BY RestAt
<1>2. e = Edited(t, i, p, t.used, y) /\ p \in Buckets
  <2>1. LinkPut(t, i, x, y)
    BY <1>1, IdsLinks, PutLinkIs DEF RestHere
  <2>. QED
    BY <2>1 DEF LinkPut
<1>3. RestPut(t, i, p, t.used, y, q, F, K)
  <2> HIDE DEF p
  <2>. QED
    BY <1>2, RestEdit
<1>4. p.data = t.bucket[i].data /\ p.next = x
  OBVIOUS
<1>5. CountsIn(t, i, p, t.used, y)
  <2> HIDE DEF p
  <2>. QED
    BY <1>1, <1>2, CountEdited DEF RestHere
<1> HIDE DEF p, q, F, K
<1>6. /\ IsTable(e) /\ e.n = t.n /\ e.used = t.used /\ e.free = y
      /\ Lists(e) = [F EXCEPT ![q] = x, ![FreePlace] = y]
      /\ HeadsOf(e, NoTable) = [K EXCEPT ![q] = t.bucket[i].data]
  BY <1>2, <1>3, <1>4 DEF RestPut
<1>7. Counted(e)
  <2>1. Cardinality(UsedBuckets(e)) = Cardinality(UsedBuckets(t))
    BY <1>2, <1>4, <1>5 DEF CountsIn
  <2>. QED
    BY <2>1, <1>6 DEF Counted
<1>8. /\ IsTable(t) /\ IsSize(t.n) /\ h \in Heaps /\ Ranked(F, NextOf(h), o)
      /\ Keyed(K, DataOf(h), o, 0) /\ q \in Place \ {Nowhere} /\ Bucketed(q) /\ q # FreePlace
      /\ F \in [Place -> Links] /\ K \in [Place -> Keys \cup {NoKey}] /\ o \in [Ids -> Place]
      /\ F[q] = t.bucket[i].next /\ F[FreePlace] = t.free /\ K[q] = t.bucket[i].data
      /\ K[q] # NoKey /\ t.bucket[i].next \in Links
  BY <1>1 DEF RestHere
<1>9. HeadsOf(e, NoTable) = K
  <2>1. [K EXCEPT ![q] = t.bucket[i].data] = K
    BY <1>8
  <2>. QED
    BY <2>1, <1>6
<1>10. ~Bucketed(o[x])
  <2>1. CASE t.free # 0 /\ x = t.free
    BY <2>1, <1>8, FirstIs, PlaceFacts
  <2>2. CASE o[x] = Nowhere
    BY <2>2, PlaceFacts
  <2>. QED
    BY <2>1, <2>2
<1>11. g \in Heaps /\ NextOf(g) = [NextOf(h) EXCEPT ![x] = F[q]]
       /\ DataOf(g) = [DataOf(h) EXCEPT ![x] = v]
  <2>1. EntryPut(h, x, v, t.bucket[i].next)
    BY <1>8, HeapPut
  <2>. QED
    BY <2>1, <1>8 DEF EntryPut
<1>12. EntryJoins(K, DataOf(h), o, x, v, q)
  BY <1>8, <1>10, EntryComes
<1>13. Keyed(K, DataOf(g), u, x) /\ KeysIn(K, DataOf(g), u) = KeysIn(K, DataOf(h), o)
  BY <1>11, <1>12 DEF EntryJoins
<1>14. Ranked([F EXCEPT ![q] = x, ![FreePlace] = y], NextOf(g), u) /\ LiveOf(u) = lv
  <2>1. CASE t.free # 0 /\ x = t.free /\ y = h[x].next /\ lv = LiveOf(o)
    <3>1. FirstMoved(F, NextOf(h), o, FreePlace, q)
      BY <2>1, <1>8, PlaceFacts, MoveFirst
    <3>2. y = NextOf(h)[x] /\ x = F[FreePlace]
      BY <2>1, <1>8 DEF NextOf
    <3>3. o[x] = FreePlace
      BY <3>1, <3>2 DEF FirstMoved
    <3>4. LiveOf(u) = lv
      BY <2>1, <3>3, <1>8, PlaceFacts DEF LiveOf
    <3>5. Ranked([F EXCEPT ![FreePlace] = y, ![q] = x], NextOf(g), u)
      BY <3>1, <3>2, <1>11 DEF FirstMoved
    <3>6. [F EXCEPT ![FreePlace] = y, ![q] = x] = [F EXCEPT ![q] = x, ![FreePlace] = y]
      BY <1>8, PlaceFacts
    <3>. QED
      BY <3>4, <3>5, <3>6
  <2>2. CASE t.free = 0 /\ o[x] = Nowhere /\ y = 0 /\ lv = LiveOf(o) \cup {x}
    <3>1. FirstPut(F, NextOf(h), o, q, x)
      BY <2>2, <1>8, PutFirst
    <3>2. [F EXCEPT ![q] = x, ![FreePlace] = y] = [F EXCEPT ![q] = x]
      BY <2>2, <1>8, PlaceFacts
    <3>3. LiveOf(u) = lv
      BY <2>2, <1>8 DEF LiveOf
    <3>. QED
      BY <3>1, <3>2, <3>3, <1>11 DEF FirstPut
  <2>. QED
    BY <2>1, <2>2
<1>15. u[x] = q
  BY <1>8
<1> HIDE DEF u
<1>16. Resting(e, g, u, x)
  BY <1>6, <1>8, <1>9, <1>11, <1>13, <1>14 DEF Resting
<1>17. RestKeys(e, g, u) = RestKeys(t, h, o)
  BY <1>9, <1>13 DEF RestKeys, K
<1>18. LiveOf(u) = lv
  BY <1>14
<1>19. Rests(e, g, x, q, RestKeys(t, h, o), lv)
  BY <1>15, <1>16, <1>17, <1>18 DEF Rests
<1>. QED
  BY <1>6, <1>7, <1>19 DEF Linked, q

\* The node is stored in the head of its bucket, which is already counted.
LEMMA StoresHead ==
  ASSUME NEW t, NEW h, NEW o, Resting(t, h, o, 0),
         t.used = Cardinality(UsedBuckets(t)) + 1,
         NEW k \in Keys, k \notin RestKeys(t, h, o),
         NEW i, i = Home(t, k), i \in 0..(t.n - 1), t.bucket[i].data = NoKey,
         NEW e, e = [t EXCEPT !.bucket[i].data = k]
  PROVE  /\ Resting(e, h, o, 0) /\ RestKeys(e, h, o) = RestKeys(t, h, o) \cup {k}
         /\ Counted(e) /\ e.n = t.n
<1> DEFINE q == <<t.n, i>>
           F == Lists(t)
           K == HeadsOf(t, NoTable)
           p == [data |-> k, next |-> t.bucket[i].next]
<1>1. RestHere(t, h, o, 0, i, q, F, K)
  BY RestAt
<1>2. e = Edited(t, i, p, t.used, t.free) /\ p \in Buckets
  <2>1. DataPut(t, i, k, t.free)
    BY <1>1, PutDataIs DEF RestHere
  <2>. QED
    BY <2>1 DEF DataPut
<1>3. RestPut(t, i, p, t.used, t.free, q, F, K)
  <2>1. t.free \in Links
    BY <1>1 DEF RestHere
  <2> HIDE DEF p
  <2>. QED
    BY <2>1, <1>2, RestEdit
<1>4. p.data = k /\ p.next = t.bucket[i].next /\ k # NoKey
  BY KeysAssumption
<1>5. CountsIn(t, i, p, t.used, t.free)
  <2> HIDE DEF p
  <2>. QED
    BY <1>1, <1>2, CountEdited DEF RestHere
<1>6. AtHome(q, k)
  <2>1. t.n # 0 /\ q[1] = t.n /\ q[2] = i
    BY <1>1 DEF RestHere
  <2>. QED
    BY <2>1 DEF AtHome, Home
<1> HIDE DEF p, q, F, K
<1>7. /\ IsTable(e) /\ e.n = t.n /\ e.used = t.used
      /\ Lists(e) = [F EXCEPT ![q] = t.bucket[i].next, ![FreePlace] = t.free]
      /\ HeadsOf(e, NoTable) = [K EXCEPT ![q] = k]
  BY <1>2, <1>3, <1>4 DEF RestPut
<1>8. Counted(e)
  <2>1. Cardinality(UsedBuckets(e)) = Cardinality(UsedBuckets(t)) + 1
    BY <1>2, <1>4, <1>5 DEF CountsIn
  <2>. QED
    BY <2>1, <1>7 DEF Counted
<1>9. /\ IsSize(t.n) /\ h \in Heaps /\ Ranked(F, NextOf(h), o)
      /\ Keyed(K, DataOf(h), o, 0) /\ q \in Place
      /\ F \in [Place -> Links]
      /\ F[q] = t.bucket[i].next /\ F[FreePlace] = t.free /\ K[q] = NoKey
  BY <1>1 DEF RestHere
<1>10. Lists(e) = F
  <2>1. [F EXCEPT ![q] = t.bucket[i].next, ![FreePlace] = t.free] = F
    BY <1>9, PlaceFacts
  <2>. QED
    BY <2>1, <1>7
<1>11. HeadJoins(K, DataOf(h), o, q, k)
  <2>1. k \notin KeysIn(K, DataOf(h), o)
    BY DEF RestKeys, K
  <2>. QED
    BY <2>1, <1>6, <1>9, HeadComes
<1>12. Keyed(HeadsOf(e, NoTable), DataOf(h), o, 0)
       /\ KeysIn(HeadsOf(e, NoTable), DataOf(h), o) = KeysIn(K, DataOf(h), o) \cup {k}
  BY <1>7, <1>11 DEF HeadJoins
<1>13. Ranked(Lists(e), NextOf(h), o)
  BY <1>9, <1>10
<1>14. Resting(e, h, o, 0)
  BY <1>7, <1>9, <1>12, <1>13 DEF Resting
<1>15. RestKeys(e, h, o) = RestKeys(t, h, o) \cup {k}
  BY <1>12 DEF RestKeys, K
<1>. QED
  BY <1>7, <1>8, <1>14, <1>15

\* A table at rest that has these keys.
Filled(t, h, o, ks) == Resting(t, h, o, 0) /\ RestKeys(t, h, o) = ks

\* The node is stored in the entry that waits for it.
LEMMA StoresIn ==
  ASSUME NEW t, NEW h, NEW o, NEW x, Resting(t, h, o, x), x # 0,
         NEW k \in Keys, k \notin RestKeys(t, h, o), AtHome(o[x], k),
         NEW g, g = [h EXCEPT ![x] = [data |-> k, next |-> h[x].next]]
  PROVE  Filled(t, g, o, RestKeys(t, h, o) \cup {k})
<1> DEFINE K == HeadsOf(t, NoTable)
<1>1. /\ IsTable(t) /\ IsSize(t.n) /\ h \in Heaps /\ Ranked(Lists(t), NextOf(h), o)
      /\ Keyed(K, DataOf(h), o, x) /\ x \in Ids
  BY DEF Resting, Keyed
<1>2. h[x].next \in Links /\ NextOf(h)[x] = h[x].next
  BY <1>1 DEF Heaps, NextOf
<1>3. EntryPut(h, x, k, h[x].next)
  BY <1>1, <1>2, HeapPut
<1>4. NextOf(h) \in [Ids -> Links]
  BY <1>1, HeapViews
<1>5. g \in Heaps /\ NextOf(g) = NextOf(h) /\ DataOf(g) = [DataOf(h) EXCEPT ![x] = k]
  <2>1. g \in Heaps /\ NextOf(g) = [NextOf(h) EXCEPT ![x] = h[x].next]
        /\ DataOf(g) = [DataOf(h) EXCEPT ![x] = k]
    BY <1>3 DEF EntryPut
  <2>2. [NextOf(h) EXCEPT ![x] = h[x].next] = NextOf(h)
    BY <1>2, <1>4
  <2>. QED
    BY <2>1, <2>2
<1> HIDE DEF K
<1>6. EntryFills(K, DataOf(h), o, x, k)
  <2>1. k \notin KeysIn(K, DataOf(h), o)
    BY DEF RestKeys, K
  <2>. QED
    BY <2>1, <1>1, EntryFilled
<1>7. Keyed(K, DataOf(g), o, 0) /\ KeysIn(K, DataOf(g), o) = KeysIn(K, DataOf(h), o) \cup {k}
  BY <1>5, <1>6 DEF EntryFills
<1>8. Resting(t, g, o, 0)
  BY <1>1, <1>5, <1>7 DEF Resting, K
<1>. QED
  BY <1>7, <1>8 DEF RestKeys, K, Filled

\* e is t without the key k.
Emptied(t, e, h, o, k) ==
  /\ Filled(e, h, o, RestKeys(t, h, o) \ {k}) /\ Counted(e)
  /\ e.n = t.n /\ e.free = t.free /\ k \in RestKeys(t, h, o)

\* hash_delete takes out the only entry of a bucket.
LEMMA DeletesAlone ==
  ASSUME NEW t, NEW h, NEW o, Resting(t, h, o, 0), Counted(t), NEW k \in Keys,
         NEW i \in 0..(t.n - 1), t.bucket[i].data = k, t.bucket[i].next = 0,
         NEW e, e = [t EXCEPT !.bucket[i].data = NoKey, !.used = @ - 1]
  PROVE  Emptied(t, e, h, o, k)
<1> DEFINE q == <<t.n, i>>
           F == Lists(t)
           K == HeadsOf(t, NoTable)
           p == [data |-> NoKey, next |-> t.bucket[i].next]
<1>1. RestHere(t, h, o, 0, i, q, F, K)
  BY RestAt
<1>2. e = Edited(t, i, p, t.used - 1, t.free) /\ p \in Buckets
  <2>1. DataPut(t, i, NoKey, t.free)
    BY <1>1, PutDataIs DEF RestHere
  <2>. QED
    BY <2>1 DEF DataPut
<1>3. RestPut(t, i, p, t.used - 1, t.free, q, F, K)
  <2>1. t.free \in Links
    BY <1>1 DEF RestHere
  <2> HIDE DEF p
  <2>. QED
    BY <2>1, <1>2, RestEdit
<1>4. p.data = NoKey /\ p.next = t.bucket[i].next /\ k # NoKey
  BY KeysAssumption
<1>5. CountsIn(t, i, p, t.used - 1, t.free)
  <2> HIDE DEF p
  <2>. QED
    BY <1>1, <1>2, CountEdited DEF RestHere
<1> HIDE DEF p, q, F, K
<1>6. /\ IsTable(e) /\ e.n = t.n /\ e.used = t.used - 1 /\ e.free = t.free
      /\ Lists(e) = [F EXCEPT ![q] = t.bucket[i].next, ![FreePlace] = t.free]
      /\ HeadsOf(e, NoTable) = [K EXCEPT ![q] = NoKey]
  BY <1>2, <1>3, <1>4 DEF RestPut
<1>7. Counted(e)
  <2>1. Cardinality(UsedBuckets(e)) = Cardinality(UsedBuckets(t)) - 1
    BY <1>2, <1>4, <1>5 DEF CountsIn
  <2>. QED
    BY <2>1, <1>6 DEF Counted
<1>8. /\ IsSize(t.n) /\ h \in Heaps /\ Ranked(F, NextOf(h), o)
      /\ Keyed(K, DataOf(h), o, 0) /\ q \in Place \ {Nowhere}
      /\ F \in [Place -> Links]
      /\ F[q] = t.bucket[i].next /\ F[FreePlace] = t.free /\ K[q] = k
  BY <1>1 DEF RestHere
<1>9. Lists(e) = F
  <2>1. [F EXCEPT ![q] = t.bucket[i].next, ![FreePlace] = t.free] = F
    BY <1>8, PlaceFacts
  <2>. QED
    BY <2>1, <1>6
<1>10. \A f \in Ids : o[f] # q
  BY <1>8, FirstIs
<1>11. HeadLeaves(K, DataOf(h), o, q)
  BY <1>8, <1>10, HeadGoes
<1>12. Keyed(HeadsOf(e, NoTable), DataOf(h), o, 0)
       /\ KeysIn(HeadsOf(e, NoTable), DataOf(h), o) = KeysIn(K, DataOf(h), o) \ {k}
  BY <1>6, <1>8, <1>11 DEF HeadLeaves
<1>13. k \in KeysIn(K, DataOf(h), o)
  BY <1>8 DEF KeysIn
<1>14. Ranked(Lists(e), NextOf(h), o)
  BY <1>8, <1>9
<1>15. Resting(e, h, o, 0)
  BY <1>6, <1>8, <1>12, <1>14 DEF Resting
<1>16. RestKeys(e, h, o) = RestKeys(t, h, o) \ {k} /\ k \in RestKeys(t, h, o)
  BY <1>12, <1>13 DEF RestKeys, K
<1>. QED
  BY <1>6, <1>7, <1>15, <1>16 DEF Emptied, Filled

\* The first overflow entry of a bucket.
FirstAt(t, h, o, e, q, F, K) ==
  /\ e \in Ids /\ o[e] = q /\ Bucketed(o[e]) /\ F[q] = e
  /\ h[e].data \in Keys /\ h[e].next \in Links /\ AtHome(q, h[e].data)
  /\ NextOf(h)[e] = h[e].next /\ DataOf(h)[e] = h[e].data

\* The first overflow entry of a bucket.
LEMMA FirstFacts ==
  ASSUME NEW t, NEW h, NEW o, NEW i, NEW q, NEW F, NEW K,
         RestHere(t, h, o, 0, i, q, F, K), t.bucket[i].next # 0
  PROVE  FirstAt(t, h, o, t.bucket[i].next, q, F, K)
<1> DEFINE e == t.bucket[i].next
<1>1. /\ h \in Heaps /\ Ranked(F, NextOf(h), o) /\ Keyed(K, DataOf(h), o, 0)
      /\ q \in Place \ {Nowhere} /\ Bucketed(q) /\ F[q] = e /\ e # 0
  BY DEF RestHere
<1> HIDE DEF e
<1>2. e \in Ids /\ o[e] = q
  BY <1>1, FirstIs
<1>3. DataOf(h)[e] \in Keys /\ AtHome(q, DataOf(h)[e])
  BY <1>1, <1>2 DEF Keyed
<1>4. NextOf(h)[e] = h[e].next /\ DataOf(h)[e] = h[e].data /\ h[e].next \in Links
  BY <1>1, <1>2 DEF NextOf, DataOf, Heaps
<1>5. FirstAt(t, h, o, e, q, F, K)
  BY <1>1, <1>2, <1>3, <1>4 DEF FirstAt
<1>. QED
  BY <1>5 DEF e

\* The next state: a table at rest without the key k.
Without(t, h, k, ks, lv) == Rests(t, h, 0, Nowhere, ks \ {k}, lv) /\ k \in ks
Taken(t, h, k, ks, lv, n) == Without(t, h, k, ks, lv) /\ Counted(t) /\ t.n = n

\* What becomes of the table t and the heap when the head of bucket i is deleted: its
\* first entry y, which held r, is recycled.
HeadReplaced(t, h, i, y, r, e, g) ==
  /\ r = h[y]
  /\ e = [t EXCEPT !.bucket[i] = r, !.free = y]
  /\ g = [h EXCEPT ![y] = [data |-> NoKey, next |-> t.free]]

\* And when the first entry y of bucket i, which v followed, is.
FirstGoes(t, h, i, y, v, e, g) ==
  /\ e = [t EXCEPT !.bucket[i].next = v, !.free = y]
  /\ g = [h EXCEPT ![y] = [data |-> NoKey, next |-> t.free]]

\* hash_delete takes out a head, and its first overflow entry takes its place.
LEMMA DeletesHead ==
  ASSUME NEW t, NEW h, NEW o, Resting(t, h, o, 0), Counted(t), NEW k \in Keys,
         NEW i \in 0..(t.n - 1), t.bucket[i].data = k,
         NEW y, y = t.bucket[i].next, y # 0,
         NEW r, NEW e, NEW g, HeadReplaced(t, h, i, y, r, e, g)
  PROVE  Taken(e, g, k, RestKeys(t, h, o), LiveOf(o), t.n)
<1> DEFINE q == <<t.n, i>>
           F == Lists(t)
           K == HeadsOf(t, NoTable)
           u == [o EXCEPT ![y] = FreePlace]
<1>1. RestHere(t, h, o, 0, i, q, F, K)
  BY RestAt
<1>2. FirstAt(t, h, o, y, q, F, K)
  <2> HIDE DEF q, F, K
  <2>. QED
    BY <1>1, FirstFacts
<1> HIDE DEF q, F, K
<1>3. /\ IsTable(t) /\ IsSize(t.n) /\ h \in Heaps /\ Ranked(F, NextOf(h), o)
      /\ Keyed(K, DataOf(h), o, 0) /\ q \in Place \ {Nowhere} /\ Bucketed(q) /\ q # FreePlace
      /\ F \in [Place -> Links] /\ o \in [Ids -> Place]
      /\ F[q] = y /\ F[FreePlace] = t.free /\ K[q] = k /\ t.free \in Links
  BY <1>1 DEF RestHere
<1>4. /\ y \in Ids /\ o[y] = q /\ r.data \in Keys /\ r.next \in Links /\ AtHome(q, r.data)
      /\ NextOf(h)[y] = r.next /\ DataOf(h)[y] = r.data /\ r = h[y]
  BY <1>2 DEF FirstAt, HeadReplaced
<1>5. r \in Buckets /\ y \in Links
  <2>1. r = [data |-> r.data, next |-> r.next]
    BY <1>3, <1>4 DEF Heaps
  <2>. QED
    BY <2>1, <1>4, IdsLinks DEF Buckets
<1>6. e = Edited(t, i, r, t.used, y)
  <2>1. BucketPut(t, i, r, y)
    BY <1>3, <1>5, PutBucketIs
  <2>. QED
    BY <2>1 DEF BucketPut, HeadReplaced
<1>7. RestPut(t, i, r, t.used, y, q, F, K)
  BY <1>5, RestEdit DEF q, F, K
<1>8. CountsIn(t, i, r, t.used, y)
  BY <1>3, <1>5, CountEdited
<1>9. /\ IsTable(e) /\ e.n = t.n /\ e.used = t.used /\ e.free = y
      /\ Lists(e) = [F EXCEPT ![q] = r.next, ![FreePlace] = y]
      /\ HeadsOf(e, NoTable) = [K EXCEPT ![q] = r.data]
  BY <1>6, <1>7 DEF RestPut
<1>10. Counted(e)
  <2>1. Cardinality(UsedBuckets(e)) = Cardinality(UsedBuckets(t))
    BY <1>4, <1>6, <1>8, KeysAssumption DEF CountsIn
  <2>. QED
    BY <2>1, <1>9 DEF Counted
<1>11. EntryPut(h, y, NoKey, t.free)
  BY <1>3, <1>4, HeapPut
<1>12. g \in Heaps /\ NextOf(g) = [NextOf(h) EXCEPT ![y] = t.free]
       /\ DataOf(g) = [DataOf(h) EXCEPT ![y] = NoKey]
  BY <1>11 DEF EntryPut, HeadReplaced
<1>13. FirstMoved(F, NextOf(h), o, q, FreePlace)
  BY <1>3, <1>4, PlaceFacts, NotIds, MoveFirst
<1>14. Ranked(Lists(e), NextOf(g), u)
  <2>1. Ranked([F EXCEPT ![q] = NextOf(h)[F[q]], ![FreePlace] = F[q]],
               [NextOf(h) EXCEPT ![F[q]] = F[FreePlace]], [o EXCEPT ![F[q]] = FreePlace])
    BY <1>13 DEF FirstMoved
  <2>2. NextOf(h)[F[q]] = r.next /\ F[q] = y
    BY <1>3, <1>4
  <2>. QED
    BY <2>1, <2>2, <1>3, <1>9, <1>12
<1>15. BecomesHead(K, DataOf(h), o, y, FreePlace, q)
  <2>1. Bucketed(o[y]) /\ AtHome(q, DataOf(h)[y])
    BY <1>3, <1>4
  <2>. QED
    BY <2>1, <1>3, <1>4, PlaceFacts, ToHead
<1>16. Keyed(HeadsOf(e, NoTable), DataOf(g), u, 0)
       /\ KeysIn(HeadsOf(e, NoTable), DataOf(g), u) = KeysIn(K, DataOf(h), o) \ {k}
  <2>1. /\ Keyed([K EXCEPT ![q] = DataOf(h)[y]], [DataOf(h) EXCEPT ![y] = NoKey], u, 0)
        /\ KeysIn([K EXCEPT ![q] = DataOf(h)[y]], [DataOf(h) EXCEPT ![y] = NoKey], u)
             = KeysIn(K, DataOf(h), o) \ {K[q]}
    BY <1>15 DEF BecomesHead
  <2>2. DataOf(h)[y] = r.data /\ K[q] = k
    BY <1>3, <1>4
  <2> HIDE DEF u
  <2>. QED
    BY <2>1, <2>2, <1>9, <1>12
<1>17. k \in KeysIn(K, DataOf(h), o)
  BY <1>3 DEF KeysIn
<1>18. LiveOf(u) = LiveOf(o)
  BY <1>3, <1>4, PlaceFacts DEF LiveOf
<1> HIDE DEF u
<1>19. Resting(e, g, u, 0)
  BY <1>3, <1>9, <1>12, <1>14, <1>16 DEF Resting
<1>20. RestKeys(e, g, u) = RestKeys(t, h, o) \ {k} /\ k \in RestKeys(t, h, o)
  BY <1>16, <1>17 DEF RestKeys, K
<1>21. Rests(e, g, 0, Nowhere, RestKeys(t, h, o) \ {k}, LiveOf(o))
  BY <1>18, <1>19, <1>20 DEF Rests
<1>. QED
  BY <1>9, <1>10, <1>20, <1>21 DEF Taken, Without

\* hash_delete takes out the first overflow entry of a bucket.
LEMMA DeletesFirst ==
  ASSUME NEW t, NEW h, NEW o, Resting(t, h, o, 0), Counted(t), NEW k \in Keys,
         NEW i \in 0..(t.n - 1), NEW y, y = t.bucket[i].next, y # 0, h[y].data = k,
         NEW v, v = h[y].next,
         NEW e, NEW g, FirstGoes(t, h, i, y, v, e, g)
  PROVE  Taken(e, g, k, RestKeys(t, h, o), LiveOf(o), t.n)
<1> DEFINE q == <<t.n, i>>
           F == Lists(t)
           K == HeadsOf(t, NoTable)
           u == [o EXCEPT ![y] = FreePlace]
           p == [data |-> t.bucket[i].data, next |-> v]
<1>1. RestHere(t, h, o, 0, i, q, F, K)
  BY RestAt
<1>2. FirstAt(t, h, o, y, q, F, K)
  <2> HIDE DEF q, F, K
  <2>. QED
    BY <1>1, FirstFacts
<1>3. /\ IsTable(t) /\ IsSize(t.n) /\ h \in Heaps /\ Ranked(F, NextOf(h), o)
      /\ Keyed(K, DataOf(h), o, 0) /\ q \in Place \ {Nowhere} /\ Bucketed(q) /\ q # FreePlace
      /\ F \in [Place -> Links] /\ K \in [Place -> Keys \cup {NoKey}] /\ o \in [Ids -> Place]
      /\ F[q] = y /\ F[FreePlace] = t.free /\ K[q] = t.bucket[i].data /\ t.free \in Links
  BY <1>1 DEF RestHere
<1>4. /\ y \in Ids /\ o[y] = q /\ Bucketed(o[y]) /\ v \in Links
      /\ NextOf(h)[y] = v /\ DataOf(h)[y] = k
  BY <1>2 DEF FirstAt
<1>5. y \in Links
  BY <1>4, IdsLinks
<1>6. e = Edited(t, i, p, t.used, y) /\ p \in Buckets
  <2>1. LinkPut(t, i, v, y)
    BY <1>3, <1>4, <1>5, PutLinkIs
  <2>. QED
    BY <2>1 DEF LinkPut, FirstGoes
<1>7. p.data = t.bucket[i].data /\ p.next = v
  OBVIOUS
<1> HIDE DEF p, q, F, K
<1>8. RestPut(t, i, p, t.used, y, q, F, K)
  BY <1>5, <1>6, RestEdit DEF q, F, K
<1>9. CountsIn(t, i, p, t.used, y)
  BY <1>3, <1>5, <1>6, CountEdited
<1>10. /\ IsTable(e) /\ e.n = t.n /\ e.used = t.used /\ e.free = y
       /\ Lists(e) = [F EXCEPT ![q] = v, ![FreePlace] = y]
       /\ HeadsOf(e, NoTable) = [K EXCEPT ![q] = t.bucket[i].data]
  BY <1>6, <1>7, <1>8 DEF RestPut
<1>11. Counted(e)
  <2>1. Cardinality(UsedBuckets(e)) = Cardinality(UsedBuckets(t))
    BY <1>6, <1>7, <1>9 DEF CountsIn
  <2>. QED
    BY <2>1, <1>10 DEF Counted
<1>12. HeadsOf(e, NoTable) = K
  <2>1. [K EXCEPT ![q] = t.bucket[i].data] = K
    BY <1>3
  <2>. QED
    BY <2>1, <1>10
<1>13. EntryPut(h, y, NoKey, t.free)
  BY <1>3, <1>4, HeapPut
<1>14. g \in Heaps /\ NextOf(g) = [NextOf(h) EXCEPT ![y] = t.free]
       /\ DataOf(g) = [DataOf(h) EXCEPT ![y] = NoKey]
  BY <1>13 DEF EntryPut, FirstGoes
<1>15. FirstMoved(F, NextOf(h), o, q, FreePlace)
  BY <1>3, <1>4, PlaceFacts, NotIds, MoveFirst
<1>16. Ranked(Lists(e), NextOf(g), u)
  <2>1. Ranked([F EXCEPT ![q] = NextOf(h)[F[q]], ![FreePlace] = F[q]],
               [NextOf(h) EXCEPT ![F[q]] = F[FreePlace]], [o EXCEPT ![F[q]] = FreePlace])
    BY <1>15 DEF FirstMoved
  <2>2. F[q] = y /\ NextOf(h)[y] = v /\ F[FreePlace] = t.free
    BY <1>3, <1>4
  <2>3. /\ Lists(e) = [F EXCEPT ![q] = v, ![FreePlace] = y]
        /\ NextOf(g) = [NextOf(h) EXCEPT ![y] = t.free]
    BY <1>10, <1>14
  <2> HIDE DEF u
  <2>4. Ranked(Lists(e), NextOf(g), [o EXCEPT ![y] = FreePlace])
    BY <2>1, <2>2, <2>3
  <2>. QED
    BY <2>4 DEF u
<1>17. EntryLeaves(K, DataOf(h), o, y, FreePlace)
  BY <1>3, <1>4, PlaceFacts, EntryGoes
<1>18. Keyed(K, DataOf(g), u, 0) /\ KeysIn(K, DataOf(g), u) = KeysIn(K, DataOf(h), o) \ {k}
  BY <1>4, <1>14, <1>17 DEF EntryLeaves
<1>19. k \in KeysIn(K, DataOf(h), o)
  BY <1>4 DEF KeysIn
<1>20. LiveOf(u) = LiveOf(o)
  BY <1>3, <1>4, PlaceFacts DEF LiveOf
<1> HIDE DEF u
<1>21. Resting(e, g, u, 0)
  BY <1>3, <1>10, <1>12, <1>14, <1>16, <1>18 DEF Resting
<1>22. RestKeys(e, g, u) = RestKeys(t, h, o) \ {k} /\ k \in RestKeys(t, h, o)
  BY <1>12, <1>18, <1>19 DEF RestKeys, K
<1>23. Rests(e, g, 0, Nowhere, RestKeys(t, h, o) \ {k}, LiveOf(o))
  BY <1>20, <1>21, <1>22 DEF Rests
<1>. QED
  BY <1>10, <1>11, <1>22, <1>23 DEF Taken, Without

\* hash_delete takes out an overflow entry that follows another one.
LEMMA DeletesAfter ==
  ASSUME NEW t, NEW h, NEW o, Resting(t, h, o, 0), NEW k \in Keys,
         NEW z \in Ids, Bucketed(o[z]), NEW y, y = h[z].next, y # 0, h[y].data = k,
         NEW e, IsTable(e), e.n = t.n, e.bucket = t.bucket, e.free = y,
         NEW v, v = h[y].next,
         NEW f, f = [h EXCEPT ![y] = [data |-> NoKey, next |-> t.free]],
         NEW g, g = [f EXCEPT ![z] = [data |-> h[z].data, next |-> v]]
  PROVE  Without(e, g, k, RestKeys(t, h, o), LiveOf(o))
<1> DEFINE F == Lists(t)
           K == HeadsOf(t, NoTable)
           u == [o EXCEPT ![y] = FreePlace]
<1>1. /\ IsTable(t) /\ IsSize(t.n) /\ h \in Heaps /\ Ranked(F, NextOf(h), o)
      /\ Keyed(K, DataOf(h), o, 0) /\ t.free \in Links
  BY DEF Resting, IsTable
<1>2. F = [NextsOf(t, NoTable) EXCEPT ![FreePlace] = t.free]
  BY DEF Lists
<1>3. F \in [Place -> Links] /\ F[FreePlace] = t.free /\ NextsOf(t, NoTable) \in [Place -> Links]
  <2>1. NextsOf(t, NoTable) \in [Place -> Links]
    BY <1>1, NoTableIs, ViewTypes
  <2>. QED
    BY <2>1, <1>1, <1>2, PlaceFacts
<1>4. Lists(e) = [F EXCEPT ![FreePlace] = y]
  <2>1. NextsOf(e, NoTable) = NextsOf(t, NoTable)
    BY ViewSame
  <2>2. Lists(e) = [NextsOf(t, NoTable) EXCEPT ![FreePlace] = y]
    BY <2>1 DEF Lists
  <2> DEFINE N == NextsOf(t, NoTable)
  <2> HIDE DEF N
  <2>3. [[N EXCEPT ![FreePlace] = t.free] EXCEPT ![FreePlace] = y] = [N EXCEPT ![FreePlace] = y]
    BY <1>3, PlaceFacts DEF N
  <2>. QED
    BY <2>2, <2>3, <1>2 DEF N
<1>5. HeadsOf(e, NoTable) = K
  BY ViewSame
<1> HIDE DEF F, K
<1>6. o \in [Ids -> Place] /\ NextOf(h)[z] = y /\ o[z] # Nowhere
  BY <1>1, PlaceFacts DEF Keyed, NextOf
<1>7. AfterMoved(F, NextOf(h), o, z, FreePlace)
  BY <1>1, <1>6, PlaceFacts, MoveAfter
<1>8. y \in Ids /\ y # z /\ o[y] = o[z]
  BY <1>6, <1>7 DEF AfterMoved
<1>9. /\ NextOf(h)[y] = v /\ DataOf(h)[y] = k /\ v \in Links /\ h[z].data \in Keys \cup {NoKey, Junk}
      /\ DataOf(h)[z] = h[z].data
  BY <1>1, <1>8 DEF NextOf, DataOf, Heaps
<1>10. EntryPut(h, y, NoKey, t.free)
  BY <1>1, <1>8, HeapPut
<1>11. f \in Heaps /\ NextOf(f) = [NextOf(h) EXCEPT ![y] = t.free]
       /\ DataOf(f) = [DataOf(h) EXCEPT ![y] = NoKey]
  BY <1>10 DEF EntryPut
<1>12. EntryPut(f, z, h[z].data, v)
  BY <1>9, <1>11, HeapPut
<1>13. g \in Heaps /\ NextOf(g) = [NextOf(f) EXCEPT ![z] = v]
       /\ DataOf(g) = [DataOf(f) EXCEPT ![z] = h[z].data]
  BY <1>12 DEF EntryPut
<1>14. NextOf(h) \in [Ids -> Links] /\ DataOf(h) \in [Ids -> Keys \cup {NoKey, Junk}]
  BY <1>1, HeapViews
<1>15. NextOf(g) = [NextOf(h) EXCEPT ![y] = t.free, ![z] = v]
  BY <1>11, <1>13
<1>16. DataOf(g) = [DataOf(h) EXCEPT ![y] = NoKey]
  <2> DEFINE D == DataOf(h)
  <2>1. [[D EXCEPT ![y] = NoKey] EXCEPT ![z] = h[z].data] = [D EXCEPT ![y] = NoKey]
    <3> HIDE DEF D
    <3>1. D[z] = h[z].data /\ D \in [Ids -> Keys \cup {NoKey, Junk}]
      BY <1>9, <1>14 DEF D
    <3>. QED
      BY <3>1, <1>8
  <2>. QED
    BY <2>1, <1>11, <1>13
<1>17. Ranked(Lists(e), NextOf(g), u)
  <2>1. Ranked([F EXCEPT ![FreePlace] = y], [NextOf(h) EXCEPT ![y] = F[FreePlace], ![z] = NextOf(h)[y]],
               [o EXCEPT ![y] = FreePlace])
    BY <1>6, <1>7 DEF AfterMoved
  <2>. QED
    BY <2>1, <1>3, <1>4, <1>9, <1>15
<1>18. EntryLeaves(K, DataOf(h), o, y, FreePlace)
  <2>1. Bucketed(o[y])
    BY <1>8
  <2>. QED
    BY <2>1, <1>1, <1>8, PlaceFacts, EntryGoes
<1>19. Keyed(K, DataOf(g), u, 0) /\ KeysIn(K, DataOf(g), u) = KeysIn(K, DataOf(h), o) \ {k}
  BY <1>9, <1>16, <1>18 DEF EntryLeaves
<1>20. k \in KeysIn(K, DataOf(h), o)
  BY <1>8, <1>9 DEF KeysIn
<1>21. LiveOf(u) = LiveOf(o)
  BY <1>6, <1>8, PlaceFacts DEF LiveOf
<1> HIDE DEF u
<1>22. Resting(e, g, u, 0)
  BY <1>1, <1>5, <1>13, <1>17, <1>19 DEF Resting
<1>23. RestKeys(e, g, u) = RestKeys(t, h, o) \ {k} /\ k \in RestKeys(t, h, o)
  BY <1>5, <1>19, <1>20 DEF RestKeys, K
<1>24. Rests(e, g, 0, Nowhere, RestKeys(t, h, o) \ {k}, LiveOf(o))
  BY <1>21, <1>22, <1>23 DEF Rests
<1>. QED
  BY <1>23, <1>24 DEF Without

\* hash_delete gives the free list back to malloc.
LEMMA GivesBack ==
  ASSUME NEW t, NEW h, NEW o, Resting(t, h, o, 0),
         NEW e, IsTable(e), e.n = t.n, e.bucket = t.bucket, e.free = 0
  PROVE  Rests(e, h, 0, Nowhere, RestKeys(t, h, o), LiveOf(o) \ {x \in Ids : o[x] = FreePlace})
<1> DEFINE F == Lists(t)
           K == HeadsOf(t, NoTable)
           u == [x \in Ids |-> IF o[x] = FreePlace THEN Nowhere ELSE o[x]]
<1>1. /\ IsTable(t) /\ IsSize(t.n) /\ h \in Heaps /\ Ranked(F, NextOf(h), o)
      /\ Keyed(K, DataOf(h), o, 0) /\ t.free \in Links
  BY DEF Resting, IsTable
<1>2. F = [NextsOf(t, NoTable) EXCEPT ![FreePlace] = t.free]
  BY DEF Lists
<1>3. NextsOf(t, NoTable) \in [Place -> Links]
  BY <1>1, NoTableIs, ViewTypes
<1>4. Lists(e) = [F EXCEPT ![FreePlace] = 0]
  <2>1. NextsOf(e, NoTable) = NextsOf(t, NoTable)
    BY ViewSame
  <2>2. Lists(e) = [NextsOf(t, NoTable) EXCEPT ![FreePlace] = 0]
    BY <2>1 DEF Lists
  <2> DEFINE N == NextsOf(t, NoTable)
  <2> HIDE DEF N
  <2>3. [[N EXCEPT ![FreePlace] = t.free] EXCEPT ![FreePlace] = 0] = [N EXCEPT ![FreePlace] = 0]
    BY <1>3, PlaceFacts DEF N
  <2>. QED
    BY <2>2, <2>3, <1>2 DEF N
<1>5. HeadsOf(e, NoTable) = K
  BY ViewSame
<1> HIDE DEF F, K
<1>6. GivenUp(F, NextOf(h), o, FreePlace) /\ o \in [Ids -> Place]
  BY <1>1, PlaceFacts, GiveUp DEF Keyed
<1>7. Ranked(Lists(e), NextOf(h), u)
  BY <1>4, <1>6 DEF GivenUp
<1>8. u \in [Ids -> Place] /\ \A x \in Ids : u[x] = o[x] \/ (~Bucketed(u[x]) /\ ~Bucketed(o[x]))
  BY <1>6, PlaceFacts
<1>9. LiveOf(u) = LiveOf(o) \ {x \in Ids : o[x] = FreePlace}
  BY PlaceFacts DEF LiveOf
<1> HIDE DEF u
<1>10. Keyed(K, DataOf(h), u, 0) /\ KeysIn(K, DataOf(h), u) = KeysIn(K, DataOf(h), o)
  BY <1>1, <1>8, SameChains
<1>11. Resting(e, h, u, 0)
  BY <1>1, <1>5, <1>7, <1>10 DEF Resting
<1>12. RestKeys(e, h, u) = RestKeys(t, h, o)
  BY <1>5, <1>10 DEF RestKeys, K
<1>. QED
  BY <1>9, <1>11, <1>12 DEF Rests

-----------------------------------------------------------------------------
(***************************************************************************)
(* hash_clear: sc and cu are the bucket and the entry it has come to.      *)
(***************************************************************************)
Clearing(t, sc, cu, h, o) ==
  /\ IsTable(t) /\ IsSize(t.n) /\ h \in Heaps /\ Walked(t, "clear", sc, cu)
  /\ Ranked(Firsts(t, NoTable, t.free, <<t.n, sc>>, cu), NextOf(h), o)
  /\ Keyed(HeadsOf(t, NoTable), DataOf(h), o, 0)

\* The next state of a clear.
Clears(t, sc, cu, h, ks, lv) ==
  \E u : Clearing(t, sc, cu, h, u) /\ RestKeys(t, h, u) = ks /\ LiveOf(u) = lv

\* A bucket without a head has no chain, unless it is the one that is walked.
LEMMA NoChain ==
  ASSUME NEW t, IsTable(t), t.n # 0, NEW w, NEW F, NEW N, NEW D, NEW o, NEW x,
         Ranked(F, N, o), Keyed(HeadsOf(t, NoTable), D, o, x),
         \A p \in Place : p # w /\ p # FreePlace => F[p] = NextsOf(t, NoTable)[p]
  PROVE  \A j \in 0..(t.n - 1) : <<t.n, j>> # w /\ t.bucket[j].data = NoKey
                                   => t.bucket[j].next = 0
<1> DEFINE K == HeadsOf(t, NoTable)
<1>1. t.n \in Nat \ {0} /\ t.n # NoTable.n /\ IsTable(NoTable)
  BY CellIs, NoTableIs
<1>2. \A j \in 0..(t.n - 1) : K[<<t.n, j>>] = t.bucket[j].data
                              /\ NextsOf(t, NoTable)[<<t.n, j>>] = t.bucket[j].next
  BY <1>1, ViewAt
<1> HIDE DEF K
<1> SUFFICES ASSUME NEW j \in 0..(t.n - 1), <<t.n, j>> # w, t.bucket[j].data = NoKey,
                    t.bucket[j].next # 0
             PROVE  FALSE
  OBVIOUS
<1> DEFINE q == <<t.n, j>>
<1>3. q \in Place \ {Nowhere} /\ Bucketed(q) /\ q # FreePlace
  BY <1>1, BucketPlace
<1>4. F[q] # 0 /\ K[q] = NoKey
  BY <1>2, <1>3
<1> HIDE DEF q
<1>5. F[q] \in Ids /\ o[F[q]] = q
  BY <1>3, <1>4, FirstIs
<1>6. K[q] # NoKey
  BY <1>3, <1>5 DEF Keyed, K
<1>. QED
  BY <1>4, <1>6

\* In a table at rest no bucket without a head has a chain.
LEMMA RestNoChain ==
  ASSUME NEW t, NEW h, NEW o, NEW x, Resting(t, h, o, x)
  PROVE  \A j \in 0..(t.n - 1) : t.bucket[j].data = NoKey => t.bucket[j].next = 0
<1>1. IsTable(t) /\ t.n # 0 /\ t.n \in Nat \ {0} /\ Ranked(Lists(t), NextOf(h), o)
      /\ Keyed(HeadsOf(t, NoTable), DataOf(h), o, x)
  BY SizeFacts DEF Resting
<1>2. \A p \in Place : p # FreePlace /\ p # FreePlace => Lists(t)[p] = NextsOf(t, NoTable)[p]
  <2>1. NextsOf(t, NoTable) \in [Place -> Links]
    BY <1>1, NoTableIs, ViewTypes
  <2>. QED
    BY <2>1 DEF Lists
<1>3. \A j \in 0..(t.n - 1) : <<t.n, j>> # FreePlace /\ t.bucket[j].data = NoKey
                                => t.bucket[j].next = 0
  BY <1>1, <1>2, NoChain
<1>4. \A j \in 0..(t.n - 1) : <<t.n, j>> # FreePlace
  BY <1>1, BucketPlace
<1>. QED
  BY <1>3, <1>4

\* Where a walk has not begun with a bucket.
LEMMA RestPlain ==
  ASSUME NEW t, IsTable(t), t.n # 0, NEW sc \in 0..t.n,
         NEW y, y = IF sc = t.n THEN 0 ELSE t.bucket[sc].next
  PROVE  Firsts(t, NoTable, t.free, <<t.n, sc>>, y) = Lists(t)
<1>1. t.n # NoTable.n /\ IsTable(NoTable) /\ t.free \in Links
  BY NoTableIs DEF IsTable
<1>2. Plain(t, NoTable, t.free, sc, y)
  BY <1>1, FirstsPlain
<1>. QED
  BY <1>2 DEF Plain, Lists

\* hash_clear begins with the first bucket in use.
LEMMA ClearStarts ==
  ASSUME NEW t, NEW h, NEW o, Resting(t, h, o, 0), NEW m, m = NextUsed(t, 0)
  PROVE  Clearing(t, m, NextAt(t, m), h, o)
<1>1. IsTable(t) /\ IsSize(t.n) /\ h \in Heaps /\ t.n \in Nat /\ t.n # 0
      /\ Ranked(Lists(t), NextOf(h), o) /\ Keyed(HeadsOf(t, NoTable), DataOf(h), o, 0)
  BY SizeFacts DEF Resting
<1>2. /\ m \in 0..t.n /\ \A j \in 0..(m - 1) : t.bucket[j].data = NoKey
      /\ m < t.n => t.bucket[m].data # NoKey
  <2>1. 0 \in 0..t.n
    BY <1>1
  <2>. QED
    BY <2>1, <1>1, NextUsedIs
<1>3. NextAt(t, m) \in Links /\ (m = t.n => NextAt(t, m) = 0)
  <2>1. m # t.n => m \in 0..(t.n - 1)
    BY <1>1, <1>2
  <2>. QED
    BY <2>1, <1>1, EmptyBucket DEF NextAt, IsTable, Buckets
<1>4. Walked(t, "clear", m, NextAt(t, m))
  BY <1>2, <1>3 DEF Walked
<1>5. Firsts(t, NoTable, t.free, <<t.n, m>>, NextAt(t, m)) = Lists(t)
  <2>1. NextAt(t, m) = IF m = t.n THEN 0 ELSE t.bucket[m].next
    BY DEF NextAt
  <2>. QED
    BY <2>1, <1>1, <1>2, RestPlain
<1>. QED
  BY <1>1, <1>4, <1>5 DEF Clearing

\* What holds at the bucket that is cleared.
ClearAt(t, sc, cu, h, o, w, F, K) ==
  /\ IsTable(t) /\ IsSize(t.n) /\ h \in Heaps /\ t.n # 0 /\ t.n # NoTable.n
  /\ Walked(t, "clear", sc, cu)
  /\ Ranked(F, NextOf(h), o) /\ Keyed(K, DataOf(h), o, 0)
  /\ sc \in 0..(t.n - 1) /\ w \in Place \ {Nowhere} /\ Bucketed(w) /\ w # FreePlace
  /\ F[w] = cu /\ F[FreePlace] = t.free /\ cu \in Links /\ t.free \in Links
  /\ F \in [Place -> Links] /\ K \in [Place -> Keys \cup {NoKey}] /\ o \in [Ids -> Place]
  /\ K[w] = t.bucket[sc].data /\ K[w] \in Keys
  /\ \A j \in 0..(t.n - 1) : j # sc /\ t.bucket[j].data = NoKey => t.bucket[j].next = 0

\* It holds at the bucket that hash_clear has come to.
LEMMA ClearHere ==
  ASSUME NEW t, NEW sc, NEW cu, NEW h, NEW o, Clearing(t, sc, cu, h, o), sc < t.n
  PROVE  ClearAt(t, sc, cu, h, o, <<t.n, sc>>, Firsts(t, NoTable, t.free, <<t.n, sc>>, cu),
                 HeadsOf(t, NoTable))
<1> DEFINE w == <<t.n, sc>>
           F == Firsts(t, NoTable, t.free, w, cu)
           K == HeadsOf(t, NoTable)
           X == NextsOf(t, NoTable)
<1>1. /\ IsTable(t) /\ IsSize(t.n) /\ h \in Heaps /\ t.n # 0 /\ t.n \in Nat \ {0}
      /\ t.n # NoTable.n /\ IsTable(NoTable) /\ Walked(t, "clear", sc, cu)
      /\ Ranked(F, NextOf(h), o) /\ Keyed(K, DataOf(h), o, 0) /\ t.free \in Links
  BY SizeFacts, NoTableIs DEF Clearing, IsTable
<1>2. sc \in 0..(t.n - 1) /\ cu \in Links /\ t.bucket[sc].data # NoKey
  BY <1>1 DEF Walked
<1>3. w \in Place \ {Nowhere} /\ Bucketed(w) /\ w # FreePlace
  BY <1>1, <1>2, BucketPlace
<1>4. K[w] = t.bucket[sc].data /\ X \in [Place -> Links] /\ t.bucket[sc] \in Buckets
  BY <1>1, <1>2, ViewAt, ViewTypes DEF IsTable
<1>5. t.bucket[sc].data \in Keys
  BY <1>2, <1>4 DEF Buckets
<1>6. /\ F[w] = cu /\ F[FreePlace] = t.free /\ F \in [Place -> Links]
      /\ \A p \in Place : p # w /\ p # FreePlace => F[p] = X[p]
  <2> HIDE DEF w, X
  <2>1. F = [X EXCEPT ![FreePlace] = t.free, ![w] = cu]
    BY DEF Firsts, X
  <2> HIDE DEF F
  <2>. QED
    BY <2>1, <1>1, <1>2, <1>3, <1>4, PlaceFacts
<1>7. \A j \in 0..(t.n - 1) : w # <<t.n, j>> /\ t.bucket[j].data = NoKey => t.bucket[j].next = 0
  <2> HIDE DEF F, w
  <2>. QED
    BY <1>1, <1>6, NoChain
<1>8. \A j \in 0..(t.n - 1) : j # sc /\ t.bucket[j].data = NoKey => t.bucket[j].next = 0
  <2>1. \A j : j # sc => w # <<t.n, j>>
    OBVIOUS
  <2> HIDE DEF w
  <2>. QED
    BY <2>1, <1>7
<1> HIDE DEF w, F, X
<1>9. o \in [Ids -> Place] /\ K \in [Place -> Keys \cup {NoKey}]
  BY <1>1 DEF Keyed
<1> HIDE DEF K
<1>10. ClearAt(t, sc, cu, h, o, w, F, K)
  BY <1>1, <1>2, <1>3, <1>4, <1>5, <1>6, <1>8, <1>9 DEF ClearAt
<1>. QED
  BY <1>10 DEF w, F, K

\* hash_clear puts an overflow entry into the free list.
LEMMA ClearsEntry ==
  ASSUME NEW t, NEW sc, NEW cu, NEW h, NEW o, Clearing(t, sc, cu, h, o), cu # 0,
         NEW e, IsTable(e), e.n = t.n, e.bucket = t.bucket, e.free = cu,
         NEW y, y = h[cu].next, NEW k, k = h[cu].data,
         NEW g, g = [h EXCEPT ![cu] = [data |-> NoKey, next |-> t.free]]
  PROVE  /\ Clears(e, sc, y, g, RestKeys(t, h, o) \ {k}, LiveOf(o))
         /\ sc < t.n /\ k \in RestKeys(t, h, o)
<1> DEFINE w == <<t.n, sc>>
           F == Firsts(t, NoTable, t.free, w, cu)
           K == HeadsOf(t, NoTable)
           u == [o EXCEPT ![cu] = FreePlace]
           X == NextsOf(t, NoTable)
<1>1. sc < t.n
  <2>1. sc \in 0..t.n /\ t.n \in Nat /\ (sc = t.n => cu = 0)
    BY SizeFacts DEF Clearing, Walked
  <2>. QED
    BY <2>1
<1>2. ClearAt(t, sc, cu, h, o, w, F, K)
  BY <1>1, ClearHere
<1>3. F = [X EXCEPT ![FreePlace] = t.free, ![w] = cu]
      /\ Firsts(e, NoTable, cu, w, y) = [NextsOf(e, NoTable) EXCEPT ![FreePlace] = cu, ![w] = y]
  BY DEF Firsts
<1>4. HeadsOf(e, NoTable) = K /\ NextsOf(e, NoTable) = X
  <2>1. e.n = t.n /\ e.bucket = t.bucket
    OBVIOUS
  <2>. QED
    BY <2>1, ViewSame
<1>5. X \in [Place -> Links]
  BY <1>2, NoTableIs, ViewTypes DEF ClearAt
<1> HIDE DEF w, F, K, X
<1>6. /\ IsTable(t) /\ IsSize(t.n) /\ h \in Heaps /\ Walked(t, "clear", sc, cu)
      /\ Ranked(F, NextOf(h), o) /\ Keyed(K, DataOf(h), o, 0) /\ t.free \in Links
      /\ w \in Place \ {Nowhere} /\ Bucketed(w) /\ w # FreePlace /\ o \in [Ids -> Place]
      /\ F \in [Place -> Links] /\ F[w] = cu /\ F[FreePlace] = t.free /\ cu \in Links
      /\ sc \in 0..(t.n - 1)
  BY <1>2 DEF ClearAt
<1>7. cu \in Ids /\ o[cu] = w
  BY <1>6, FirstIs
<1>8. /\ NextOf(h)[cu] = y /\ DataOf(h)[cu] = k /\ y \in Links
  BY <1>6, <1>7 DEF NextOf, DataOf, Heaps
<1>9. k \in Keys
  <2>1. Bucketed(o[cu]) /\ cu # 0
    BY <1>6, <1>7
  <2>. QED
    BY <2>1, <1>6, <1>7, <1>8 DEF Keyed
<1>10. EntryPut(h, cu, NoKey, t.free)
  BY <1>6, <1>7, HeapPut
<1>11. g \in Heaps /\ NextOf(g) = [NextOf(h) EXCEPT ![cu] = t.free]
       /\ DataOf(g) = [DataOf(h) EXCEPT ![cu] = NoKey]
  BY <1>10 DEF EntryPut
<1>12. FirstMoved(F, NextOf(h), o, w, FreePlace)
  BY <1>6, PlaceFacts, MoveFirst
<1>13. [F EXCEPT ![w] = y, ![FreePlace] = cu] = Firsts(e, NoTable, cu, w, y)
  BY <1>3, <1>4, <1>5, <1>6, PlaceFacts
<1>14. Ranked(Firsts(e, NoTable, cu, w, y), NextOf(g), u)
  <2>1. Ranked([F EXCEPT ![w] = NextOf(h)[F[w]], ![FreePlace] = F[w]],
               [NextOf(h) EXCEPT ![F[w]] = F[FreePlace]], [o EXCEPT ![F[w]] = FreePlace])
    BY <1>12 DEF FirstMoved
  <2>2. NextOf(h)[F[w]] = y /\ F[w] = cu
    BY <1>6, <1>8
  <2>. QED
    BY <2>1, <2>2, <1>6, <1>11, <1>13
<1>15. EntryLeaves(K, DataOf(h), o, cu, FreePlace)
  BY <1>6, <1>7, PlaceFacts, EntryGoes
<1>16. Keyed(K, DataOf(g), u, 0) /\ KeysIn(K, DataOf(g), u) = KeysIn(K, DataOf(h), o) \ {k}
  BY <1>8, <1>11, <1>15 DEF EntryLeaves
<1>17. k \in KeysIn(K, DataOf(h), o)
  BY <1>6, <1>7, <1>8, <1>9 DEF KeysIn
<1>18. LiveOf(u) = LiveOf(o)
  BY <1>6, <1>7, PlaceFacts DEF LiveOf
<1>19. Walked(e, "clear", sc, y)
  <2>1. e.n = t.n /\ e.bucket = t.bucket
    OBVIOUS
  <2>2. t.n \in Nat /\ sc # t.n
    BY <1>1, <1>6, SizeFacts
  <2>. QED
    BY <2>1, <2>2, <1>6, <1>8 DEF Walked
<1> HIDE DEF u
<1>20. Clearing(e, sc, y, g, u)
  <2>1. e.n = t.n /\ w = <<e.n, sc>> /\ e.free = cu /\ IsSize(e.n)
    BY <1>6 DEF w
  <2>. QED
    BY <2>1, <1>4, <1>11, <1>14, <1>16, <1>19 DEF Clearing
<1>21. RestKeys(e, g, u) = RestKeys(t, h, o) \ {k} /\ k \in RestKeys(t, h, o)
  BY <1>4, <1>16, <1>17 DEF RestKeys, K
<1>. QED
  BY <1>1, <1>18, <1>20, <1>21 DEF Clears

\* hash_clear empties a bucket that has no overflow left, and goes on.
LEMMA ClearsHead ==
  ASSUME NEW t, NEW sc, NEW h, NEW o, Clearing(t, sc, 0, h, o), sc < t.n,
         NEW k, k = t.bucket[sc].data,
         NEW e, e = Edited(t, sc, Empty, t.used, t.free), NEW m, m = NextUsed(t, sc + 1)
  PROVE  /\ Clears(e, m, NextAt(t, m), h, RestKeys(t, h, o) \ {k}, LiveOf(o))
         /\ k \in RestKeys(t, h, o)
<1> DEFINE w == <<t.n, sc>>
           F == Firsts(t, NoTable, t.free, w, 0)
           K == HeadsOf(t, NoTable)
<1>1. ClearAt(t, sc, 0, h, o, w, F, K)
  BY ClearHere
<1> HIDE DEF w, F, K
<1>2. /\ IsTable(t) /\ IsSize(t.n) /\ h \in Heaps /\ t.n # 0 /\ t.n # NoTable.n
      /\ Walked(t, "clear", sc, 0) /\ Ranked(F, NextOf(h), o) /\ Keyed(K, DataOf(h), o, 0)
      /\ sc \in 0..(t.n - 1) /\ w \in Place \ {Nowhere} /\ Bucketed(w) /\ w # FreePlace
      /\ F[w] = 0 /\ F[FreePlace] = t.free /\ t.free \in Links
      /\ F \in [Place -> Links] /\ K[w] = k /\ k \in Keys
      /\ \A j \in 0..(t.n - 1) : j # sc /\ t.bucket[j].data = NoKey => t.bucket[j].next = 0
  BY <1>1 DEF ClearAt
<1>3. e = Edited(t, sc, Empty, t.used, t.free)
  OBVIOUS
<1>4. Empty \in Buckets /\ Empty.data = NoKey /\ Empty.next = 0 /\ 0 \in Links
  BY EmptyBucket
<1>5. CutAre(t, NoTable, sc, Empty, t.used, t.free, 0)
  <2> HIDE DEF Empty
  <2>. QED
    BY <1>2, <1>4, NoTableIs, Cuts
<1>6. WalkedOn(e, "clear", sc)
  BY <1>2, <1>3, <1>4, WalkOn
<1>7. e.n = t.n /\ NextUsed(e, sc + 1) = m /\ NextAt(e, m) = NextAt(t, m) /\ e.free = t.free
  <2>1. e.n = t.n /\ e.bucket = [t.bucket EXCEPT ![sc] = Empty] /\ e.free = t.free
    BY <1>3 DEF Edited
  <2>2. t.n \in Nat /\ t.bucket \in [0..(t.n - 1) -> Buckets]
    BY <1>2, SizeFacts DEF IsTable
  <2>3. \A j \in (sc + 1)..(t.n - 1) : e.bucket[j] = t.bucket[j]
    BY <1>2, <2>1, <2>2
  <2>4. {j \in (sc + 1)..(e.n - 1) : e.bucket[j].data # NoKey}
          = {j \in (sc + 1)..(t.n - 1) : t.bucket[j].data # NoKey}
    BY <2>1, <2>3
  <2>5. NextUsed(e, sc + 1) = m
    <3> DEFINE R == {j \in (sc + 1)..(t.n - 1) : t.bucket[j].data # NoKey}
               S == {j \in (sc + 1)..(e.n - 1) : e.bucket[j].data # NoKey}
    <3>1. /\ m = IF R = {} THEN t.n ELSE CHOOSE j \in R : \A x \in R : j <= x
          /\ NextUsed(e, sc + 1) = IF S = {} THEN e.n ELSE CHOOSE j \in S : \A x \in S : j <= x
      BY Zenon DEF NextUsed
    <3>2. S = R /\ e.n = t.n
      BY <2>1, <2>4
    <3> HIDE DEF R, S
    <3>. QED
      BY <3>1, <3>2
  <2>6. m \in (sc + 1)..t.n
    <3>1. sc + 1 \in 0..t.n
      BY <1>2, <2>2
    <3>. QED
      BY <3>1, <1>2, NextUsedIs
  <2>7. m # t.n => m \in (sc + 1)..(t.n - 1)
    BY <2>2, <2>6, <1>2
  <2>. QED
    BY <2>1, <2>3, <2>5, <2>7 DEF NextAt
<1>8. /\ IsTable(e)
      /\ Firsts(e, NoTable, t.free, <<e.n, m>>, NextAt(e, m))
           = [Firsts(t, NoTable, NoTable.free, w, 0) EXCEPT ![w] = 0, ![FreePlace] = t.free]
      /\ HeadsOf(e, NoTable) = [K EXCEPT ![w] = Empty.data]
  BY <1>3, <1>5, <1>7 DEF CutAre, w, K
<1>9. [Firsts(t, NoTable, NoTable.free, w, 0) EXCEPT ![w] = 0, ![FreePlace] = t.free] = F
  <2> DEFINE X == NextsOf(t, NoTable)
  <2>1. X \in [Place -> Links]
    BY <1>2, NoTableIs, ViewTypes
  <2>2. /\ Firsts(t, NoTable, NoTable.free, w, 0) = [X EXCEPT ![FreePlace] = NoTable.free, ![w] = 0]
        /\ F = [X EXCEPT ![FreePlace] = t.free, ![w] = 0]
    BY DEF Firsts, F
  <2> HIDE DEF X
  <2>. QED
    BY <2>1, <2>2, <1>2, PlaceFacts
<1>10. \A i \in Ids : o[i] # w
  BY <1>2, FirstIs
<1>11. HeadLeaves(K, DataOf(h), o, w)
  BY <1>2, <1>10, HeadGoes
<1>12. /\ Keyed(HeadsOf(e, NoTable), DataOf(h), o, 0)
       /\ KeysIn(HeadsOf(e, NoTable), DataOf(h), o) = KeysIn(K, DataOf(h), o) \ {k}
  BY <1>2, <1>4, <1>8, <1>11 DEF HeadLeaves
<1>13. k \in KeysIn(K, DataOf(h), o)
  BY <1>2 DEF KeysIn
<1>14. Walked(e, "clear", m, NextAt(t, m))
  BY <1>6, <1>7 DEF WalkedOn
<1>15. Clearing(e, m, NextAt(t, m), h, o)
  BY <1>2, <1>7, <1>8, <1>9, <1>12, <1>14 DEF Clearing
<1>16. RestKeys(e, h, o) = RestKeys(t, h, o) \ {k} /\ k \in RestKeys(t, h, o)
  BY <1>12, <1>13 DEF RestKeys, K
<1>. QED
  BY <1>15, <1>16 DEF Clears

\* At the end of hash_clear the table is empty.
LEMMA ClearEnds ==
  ASSUME NEW t, NEW cu, NEW h, NEW o, Clearing(t, t.n, cu, h, o),
         NEW e, IsTable(e), e.n = t.n, e.bucket = t.bucket, e.free = t.free, e.used = 0
  PROVE  Resting(e, h, o, 0) /\ Counted(e) /\ RestKeys(e, h, o) = {} /\ RestKeys(t, h, o) = {}
<1>1. /\ IsTable(t) /\ IsSize(t.n) /\ h \in Heaps /\ t.n # 0 /\ t.n \in Nat /\ cu = 0
      /\ \A j \in 0..(t.n - 1) : t.bucket[j].data = NoKey
  BY SizeFacts DEF Clearing, Walked
<1>2. Firsts(t, NoTable, t.free, <<t.n, t.n>>, cu) = Lists(t)
  <2>1. t.n \in 0..t.n /\ cu = IF t.n = t.n THEN 0 ELSE t.bucket[t.n].next
    BY <1>1
  <2>. QED
    BY <2>1, <1>1, RestPlain
<1>3. Resting(t, h, o, 0)
  BY <1>1, <1>2 DEF Clearing, Resting
<1>4. RestKeys(t, h, o) = {}
  <2>1. \A p \in Place : HeadsOf(t, NoTable)[p] = NoKey
    <3>1. IsTable(t) /\ IsTable(NoTable) /\ t.n # NoTable.n /\ NoTable.n = 0
      BY <1>1, NoTableIs
    <3>2. \A p \in Place : \/ \E i \in 0..(t.n - 1) : p = <<t.n, i>>
                           \/ \E i \in 0..(NoTable.n - 1) : p = <<NoTable.n, i>>
                           \/ HeadsOf(t, NoTable)[p] = NoKey
      BY <3>1, ViewAt
    <3>3. \A i \in 0..(t.n - 1) : HeadsOf(t, NoTable)[<<t.n, i>>] = t.bucket[i].data
      BY <3>1, ViewAt
    <3>. QED
      BY <3>1, <3>2, <3>3, <1>1
  <2>2. Keyed(HeadsOf(t, NoTable), DataOf(h), o, 0)
    BY <1>3 DEF Resting
  <2>3. \A i \in Ids : ~Bucketed(o[i])
    BY <2>1, <2>2 DEF Keyed
  <2>. QED
    BY <2>1, <2>3, KeysAssumption DEF RestKeys, KeysIn
<1>5. Resting(e, h, o, 0) /\ RestKeys(e, h, o) = {}
  BY <1>3, <1>4, RestCounter
<1>6. Counted(e)
  <2>1. UsedBuckets(e) = {}
    BY <1>1 DEF UsedBuckets, IsTable
  <2>. QED
    BY <2>1, FS_EmptySet DEF Counted
<1>. QED
  BY <1>4, <1>5, <1>6

\* An entry of a table at rest is in the free list or in the chain of a bucket.
LEMMA RestPlaces ==
  ASSUME NEW t, NEW h, NEW o, NEW x, Resting(t, h, o, x), NEW e \in Ids, o[e] # Nowhere
  PROVE  o[e] = FreePlace \/ \E i \in 0..(t.n - 1) : o[e] = <<t.n, i>>
<1>1. IsTable(t) /\ IsTable(NoTable) /\ t.n # NoTable.n /\ NoTable.n = 0
      /\ Ranked(Lists(t), NextOf(h), o)
  BY SizeFacts, NoTableIs DEF Resting
<1>2. o[e] \in Place \ {Nowhere} /\ Lists(t)[o[e]] # 0
  <2>1. o[e] \in Place
    BY <1>1, FirstIs
  <2>. QED
    BY <2>1, <1>1, FirstIs
<1>3. NextsOf(t, NoTable) \in [Place -> Links]
  BY <1>1, ViewTypes
<1>4. CASE o[e] # FreePlace
  <2>1. NextsOf(t, NoTable)[o[e]] # 0
    BY <1>2, <1>3, <1>4 DEF Lists
  <2>2. \/ \E i \in 0..(t.n - 1) : o[e] = <<t.n, i>>
        \/ \E i \in 0..(NoTable.n - 1) : o[e] = <<NoTable.n, i>>
        \/ NextsOf(t, NoTable)[o[e]] = 0
    BY <1>1, <1>2, ViewAt
  <2>. QED
    BY <2>1, <2>2, <1>1
<1>. QED
  BY <1>4

\* The free list holds the entries of its place.
LEMMA SpareIs ==
  ASSUME NEW t, NEW o, NEW x, Resting(t, heap, o, x)
  PROVE  Elements(IdsFrom(t.free)) = {e \in Ids : o[e] = FreePlace}
<1> DEFINE F == Lists(t)
<1>1. heap \in Heaps /\ Ranked(F, NextOf(heap), o)
  BY DEF Resting
<1>2. F[FreePlace] = t.free
  BY PlaceFacts DEF Lists, NextsOf
<1> HIDE DEF F
<1>3. Listing(IdsFrom(F[FreePlace]), F, NextOf(heap), o, FreePlace)
  BY <1>1, PlaceFacts, Enumerates
<1>4. o \in [Ids -> Place]
  BY <1>1, FirstIs
<1>5. Elements(IdsFrom(F[FreePlace])) = {e \in Ids : o[e] = FreePlace}
  BY <1>3, <1>4, ListedOnly
<1>. QED
  BY <1>2, <1>5

\* hash_free comes to every entry.
LEMMA FreesAll ==
  ASSUME NEW t, NEW o, NEW x, Resting(t, heap, o, x)
  PROVE  LiveOf(o) \subseteq Reached(t)
<1> DEFINE F == Lists(t)
<1>1. heap \in Heaps /\ Ranked(F, NextOf(heap), o) /\ IsTable(t) /\ t.n \in Nat \ {0}
      /\ t.n # NoTable.n /\ IsTable(NoTable)
  BY SizeFacts, NoTableIs DEF Resting
<1>2. o \in [Ids -> Place]
  BY <1>1, FirstIs
<1> SUFFICES ASSUME NEW e \in Ids, o[e] # Nowhere
             PROVE  e \in Reached(t)
  BY DEF LiveOf
<1>3. o[e] = FreePlace \/ \E i \in 0..(t.n - 1) : o[e] = <<t.n, i>>
  BY RestPlaces
<1>4. CASE o[e] = FreePlace
  <2>1. e \in Elements(IdsFrom(t.free))
    BY <1>4, SpareIs
  <2>. QED
    BY <2>1 DEF Reached
<1>5. ASSUME NEW i \in 0..(t.n - 1), o[e] = <<t.n, i>>
      PROVE  e \in Reached(t)
  <2> DEFINE q == <<t.n, i>>
  <2>1. q \in Place \ {Nowhere} /\ q # FreePlace
    BY <1>1, BucketPlace
  <2>2. F[q] = t.bucket[i].next
    <3>1. NextsOf(t, NoTable)[q] = t.bucket[i].next /\ NextsOf(t, NoTable) \in [Place -> Links]
      BY <1>1, ViewAt, ViewTypes
    <3> HIDE DEF q
    <3>. QED
      BY <3>1, <2>1 DEF Lists
  <2>3. o[e] = q
    BY <1>5
  <2> HIDE DEF q, F
  <2>4. Listing(IdsFrom(F[q]), F, NextOf(heap), o, q)
    BY <1>1, <2>1, Enumerates
  <2>5. Elements(IdsFrom(F[q])) = {y \in Ids : o[y] = q}
    BY <1>2, <2>4, ListedOnly
  <2>6. e \in Elements(IdsFrom(t.bucket[i].next))
    BY <2>2, <2>3, <2>5
  <2>7. i \in DOMAIN t.bucket
    BY <1>1 DEF IsTable
  <2>. QED
    BY <2>6, <2>7 DEF Reached
<1>. QED
  BY <1>3, <1>4, <1>5

-----------------------------------------------------------------------------
\* The sizes that are asked for.
LEMMA QuotientIs ==
  ASSUME NEW a \in Nat, NEW b \in Nat \ {0}
  PROVE  a \div b \in Nat
BY DivModOf

\* Products of naturals.
LEMMA ProductIs ==
  ASSUME NEW a \in Nat, NEW b \in Nat
  PROVE  a * b \in Nat /\ (a # 0 /\ b # 0 => a * b # 0)
BY SMT

\* compute_bucket_size gives a size, whatever the candidate.
LEMMA BucketSizeIs ==
  ASSUME NEW t \in Tuning, check_tuning(t), NEW c \in Nat
  PROVE  IsSize(BucketSize(c, t))
<1>1. t.growth_threshold[1] \in Nat /\ t.growth_threshold[2] \in Nat \ {0}
  BY DEF Tuning, Fraction
<1>2. t.growth_threshold[1] # 0
  BY <1>1 DEF check_tuning, Less
<1> DEFINE a == c * t.growth_threshold[2]
           b == t.growth_threshold[1]
<1>3. a \in Nat
  BY <1>1, ProductIs
<1>4. a \div b \in Nat
  <2> HIDE DEF a
  <2>. QED
    BY <1>1, <1>2, <1>3, QuotientIs
<1>5. IsSize(next_prime(c)) /\ IsSize(next_prime(a \div b))
  <2> HIDE DEF a, b
  <2>. QED
    BY <1>4, NextPrimeIs
<1>. QED
  BY <1>5 DEF BucketSize

\* The scaled sizes are naturals.
LEMMA ScaledIs ==
  ASSUME NEW t \in Tuning, NEW n \in Nat, NEW f \in Fraction
  PROVE  Scaled(n, f, t) \in Nat
<1>1. /\ t.growth_threshold[1] \in Nat /\ t.growth_threshold[2] \in Nat \ {0}
      /\ f[1] \in Nat /\ f[2] \in Nat \ {0}
  BY DEF Tuning, Fraction
<1> DEFINE a == n * f[1]
           b == t.growth_threshold[1]
           c == f[2]
           d == t.growth_threshold[2]
<1>2. a \in Nat /\ b \in Nat /\ c \in Nat \ {0} /\ d \in Nat \ {0}
  BY <1>1, ProductIs
<1> HIDE DEF a, b, c, d
<1>3. a * b \in Nat /\ c * d \in Nat \ {0}
  BY <1>2, ProductIs
<1>4. a \div c \in Nat /\ (a * b) \div (c * d) \in Nat
  BY <1>2, <1>3, QuotientIs
<1>. QED
  BY <1>4 DEF Scaled, Times, a, b, c, d

\* So do the candidates of hash_insert and hash_delete.
LEMMA CandidateIs ==
  ASSUME NEW t \in Tuning, NEW n \in Nat
  PROVE  GrownCandidate(n, t) \in Nat /\ ShrunkCandidate(n, t) \in Nat
<1>1. t.growth_factor \in Fraction /\ t.shrink_factor \in Fraction
  BY DEF Tuning
<1>. QED
  BY <1>1, ScaledIs DEF GrownCandidate, ShrunkCandidate

\* The bucket of a key in a table at rest.
KeyAt(t, h, o, x, k, q, F, K) ==
  /\ Home(t, k) \in 0..(t.n - 1)
  /\ RestHere(t, h, o, x, Home(t, k), q, F, K) /\ AtHome(q, k)
  /\ \A p \in Place : K[p] = k => p = q
  /\ \A e \in Ids : Bucketed(o[e]) /\ e # x /\ DataOf(h)[e] = k => o[e] = q

\* A key is nowhere but in its bucket.
LEMMA KeyPlace ==
  ASSUME NEW t, NEW h, NEW o, NEW x, Resting(t, h, o, x), NEW k \in Keys
  PROVE  KeyAt(t, h, o, x, k, <<t.n, Home(t, k)>>, Lists(t), HeadsOf(t, NoTable))
<1> DEFINE i == Home(t, k)
           q == <<t.n, i>>
           F == Lists(t)
           K == HeadsOf(t, NoTable)
<1>1. IsTable(t) /\ t.n \in Nat \ {0} /\ IsTable(NoTable) /\ t.n # NoTable.n /\ NoTable.n = 0
      /\ Keyed(K, DataOf(h), o, x)
  BY SizeFacts, NoTableIs DEF Resting
<1>2. HashOf(k) \in Nat
  BY KeysAssumption
<1>3. i \in 0..(t.n - 1) /\ i = HashOf(k) % t.n
  BY <1>1, <1>2, DivModOf DEF Home
<1>4. RestHere(t, h, o, x, i, q, F, K)
  <2> HIDE DEF i
  <2>. QED
    BY <1>3, RestAt
<1>5. AtHome(q, k) /\ q = <<t.n, HashOf(k) % t.n>>
  BY <1>1, <1>3 DEF AtHome
<1>6. ASSUME NEW p \in Place, K[p] # NoKey, AtHome(p, k)
      PROVE  p = q
  <2>1. \/ \E j \in 0..(t.n - 1) : p = <<t.n, j>>
        \/ \E j \in 0..(NoTable.n - 1) : p = <<NoTable.n, j>>
        \/ K[p] = NoKey
    BY <1>1, ViewAt
  <2>2. PICK j \in 0..(t.n - 1) : p = <<t.n, j>>
    BY <2>1, <1>1, <1>6
  <2>3. j = HashOf(k) % t.n
    BY <2>2, <1>6 DEF AtHome
  <2>. QED
    BY <2>2, <2>3, <1>5
<1>7. \A p \in Place : K[p] = k => p = q
  <2>1. \A p \in Place : K[p] = k => AtHome(p, k) /\ K[p] # NoKey
    BY <1>1, KeysAssumption DEF Keyed
  <2> HIDE DEF K, q
  <2>. QED
    BY <2>1, <1>6
<1>8. \A e \in Ids : Bucketed(o[e]) /\ e # x /\ DataOf(h)[e] = k => o[e] = q
  <2>1. \A e \in Ids : Bucketed(o[e]) /\ e # x /\ DataOf(h)[e] = k
                         => AtHome(o[e], k) /\ K[o[e]] # NoKey /\ o[e] \in Place
    BY <1>1 DEF Keyed
  <2> HIDE DEF K, q
  <2>. QED
    BY <2>1, <1>6
<1> HIDE DEF i, q, F, K
<1>9. KeyAt(t, h, o, x, k, q, F, K)
  BY <1>3, <1>4, <1>5, <1>7, <1>8 DEF KeyAt, i
<1>. QED
  BY <1>9 DEF q, F, K, i

\* What a search goes through.
Searched(b, ids) ==
  /\ b.data = NoKey => Elements(Chain(b)) = {}
  /\ b.data # NoKey => Elements(Chain(b)) = {b.data} \cup {heap[ids[j]].data : j \in DOMAIN ids}

\* A search goes through the head and its overflow.
LEMMA ChainIs ==
  ASSUME NEW b, b \in Buckets, NEW ids, ids = IdsFrom(b.next), ids \in Seq(Ids)
  PROVE  Searched(b, ids)
<1>1. CASE b.data = NoKey
  BY <1>1 DEF Chain, Elements, Searched
<1>2. CASE b.data # NoKey
  <2> DEFINE s == [j \in DOMAIN ids |-> heap[ids[j]].data]
             D == {heap[ids[j]].data : j \in DOMAIN ids}
             c == <<b.data>> \o s
  <2>1. Chain(b) = c
    BY <1>2 DEF Chain
  <2>2. s \in Seq(D) /\ Len(s) = Len(ids) /\ DOMAIN ids = 1..Len(ids) /\ Len(ids) \in Nat
    <3>1. DOMAIN ids = 1..Len(ids) /\ Len(ids) \in Nat
      OBVIOUS
    <3>2. s \in [1..Len(ids) -> D]
      BY <3>1
    <3> HIDE DEF s, D
    <3>. QED
      BY <3>1, <3>2
  <2>3. \A j \in DOMAIN ids : s[j] = heap[ids[j]].data
    OBVIOUS
  <2> HIDE DEF s
  <2>4. /\ DOMAIN c = 1..(Len(ids) + 1) /\ c[1] = b.data
        /\ \A j \in 2..(Len(ids) + 1) : c[j] = s[j - 1]
    BY <2>2
  <2> HIDE DEF c
  <2>5. \A v \in Elements(c) : v \in {b.data} \cup D
    <3> SUFFICES ASSUME NEW j \in DOMAIN c PROVE c[j] \in {b.data} \cup D
      BY DEF Elements
    <3>1. CASE j = 1
      BY <3>1, <2>4
    <3>2. CASE j # 1
      <4>1. j \in 2..(Len(ids) + 1) /\ j - 1 \in DOMAIN ids
        BY <3>2, <2>2, <2>4
      <4>. QED
        BY <4>1, <2>3, <2>4
    <3>. QED
      BY <3>1, <3>2
  <2>6. b.data \in Elements(c)
    <3>1. 1 \in DOMAIN c
      BY <2>2, <2>4
    <3>. QED
      BY <3>1, <2>4 DEF Elements
  <2>7. ASSUME NEW j \in DOMAIN ids PROVE heap[ids[j]].data \in Elements(c)
    <3>1. j + 1 \in 2..(Len(ids) + 1) /\ (j + 1) - 1 = j
      BY <2>2
    <3>2. c[j + 1] = s[j] /\ j + 1 \in DOMAIN c
      BY <3>1, <2>2, <2>4
    <3>. QED
      BY <3>2, <2>3 DEF Elements
  <2>. QED
    BY <2>1, <2>5, <2>6, <2>7, <1>2 DEF Searched
<1>. QED
  BY <1>1, <1>2

\* A search finds the keys that are in the table.
LEMMA HasIs ==
  ASSUME NEW t, NEW o, Resting(t, heap, o, 0), NEW k \in Keys
  PROVE  Has(t, k) = (k \in RestKeys(t, heap, o))
<1> DEFINE i == Home(t, k)
           q == <<t.n, i>>
           F == Lists(t)
           K == HeadsOf(t, NoTable)
           b == t.bucket[i]
           ids == IdsFrom(b.next)
<1>1. KeyAt(t, heap, o, 0, k, q, F, K)
  BY KeyPlace
<1> HIDE DEF q, F, K
<1>2. /\ RestHere(t, heap, o, 0, i, q, F, K) /\ AtHome(q, k)
      /\ \A p \in Place : K[p] = k => p = q
      /\ \A e \in Ids : Bucketed(o[e]) /\ e # 0 /\ DataOf(heap)[e] = k => o[e] = q
  BY <1>1 DEF KeyAt
<1> HIDE DEF i
<1>3. /\ heap \in Heaps /\ Ranked(F, NextOf(heap), o) /\ Keyed(K, DataOf(heap), o, 0)
      /\ q \in Place \ {Nowhere} /\ Bucketed(q) /\ F[q] = b.next /\ K[q] = b.data /\ b \in Buckets
      /\ o \in [Ids -> Place]
  BY <1>2 DEF RestHere
<1>4. Listing(IdsFrom(F[q]), F, NextOf(heap), o, q)
  BY <1>3, Enumerates
<1>5. Listing(ids, F, NextOf(heap), o, q)
  <2> HIDE DEF b
  <2>. QED
    BY <1>3, <1>4
<1> HIDE DEF ids
<1>6. /\ ids \in Seq(Ids) /\ \A j \in DOMAIN ids : ids[j] \in Ids /\ o[ids[j]] = q
      /\ \A x \in Ids : o[x] = q => \E j \in DOMAIN ids : ids[j] = x
  BY <1>5 DEF Listing
<1>7. \A j \in DOMAIN ids : DataOf(heap)[ids[j]] = heap[ids[j]].data
  BY <1>6 DEF DataOf
<1>8. /\ b.data = NoKey => Elements(Chain(b)) = {}
      /\ b.data # NoKey => Elements(Chain(b)) = {b.data} \cup {heap[ids[j]].data : j \in DOMAIN ids}
  <2>1. ids = IdsFrom(b.next)
    BY DEF ids
  <2> HIDE DEF b
  <2>. QED
    <3>1. Searched(b, ids)
      BY <2>1, <1>3, <1>6, ChainIs
    <3>. QED
      BY <3>1 DEF Searched
<1>9. Has(t, k) = (k \in Elements(Chain(b)))
  BY DEF Has, i
<1> HIDE DEF b
<1>10. RestKeys(t, heap, o) = {v \in Keys : \/ \E p \in Place : K[p] = v
                                            \/ \E e \in Ids : Bucketed(o[e]) /\ DataOf(heap)[e] = v}
  BY DEF RestKeys, KeysIn, K
<1>11. ASSUME k \in Elements(Chain(b))
       PROVE  k \in RestKeys(t, heap, o)
  <2>1. b.data = k \/ \E j \in DOMAIN ids : heap[ids[j]].data = k
    BY <1>8, <1>11
  <2>2. CASE b.data = k
    BY <2>2, <1>3, <1>10
  <2>3. CASE \E j \in DOMAIN ids : heap[ids[j]].data = k
    BY <2>3, <1>3, <1>6, <1>7, <1>10
  <2>. QED
    BY <2>1, <2>2, <2>3
<1>12. ASSUME k \in RestKeys(t, heap, o)
       PROVE  k \in Elements(Chain(b))
  <2>1. CASE \E p \in Place : K[p] = k
    BY <2>1, <1>2, <1>3, <1>8, KeysAssumption
  <2>2. CASE \E e \in Ids : Bucketed(o[e]) /\ DataOf(heap)[e] = k
    <3>1. PICK e \in Ids : Bucketed(o[e]) /\ DataOf(heap)[e] = k
      BY <2>2
    <3>2. o[e] = q
      BY <3>1, <1>2, NotIds
    <3>3. K[q] # NoKey
      BY <3>1, <3>2, <1>3 DEF Keyed
    <3>4. PICK j \in DOMAIN ids : ids[j] = e
      BY <3>2, <1>6
    <3>5. heap[ids[j]].data = k
      BY <3>1, <3>4, <1>7
    <3>. QED
      BY <3>3, <3>5, <1>3, <1>8
  <2>. QED
    BY <2>1, <2>2, <1>10, <1>12
<1>. QED
  BY <1>9, <1>11, <1>12

-----------------------------------------------------------------------------
(***************************************************************************)
(* The invariant.  o is where each entry is; x, if not 0, the entry that   *)
(* has not got its node yet.                                               *)
(***************************************************************************)
Still == {"idle", "find", "link", "rehashed", "refused", "abort"}

\* No table has been made.
Nothing(a, b, h, lv, en, o) ==
  /\ a = NoTable /\ b = NoTable /\ lv = {} /\ en = 0
  /\ o = [e \in Ids |-> Nowhere]
  /\ Ranked(Lists(NoTable), NextOf(h), o) /\ Keyed(HeadsOf(NoTable, NoTable), DataOf(h), o, 0)

AtRest(a, b, h, lv, en, o) ==
  /\ b = NoTable /\ Resting(a, h, o, 0) /\ Counted(a)
  /\ lv = LiveOf(o) /\ en = Cardinality(RestKeys(a, h, o))

\* hash_insert has made the place sl of the key k: 0 is the head of its bucket.
Storing(a, b, h, lv, en, sl, k, o) ==
  /\ b = NoTable /\ lv = LiveOf(o) /\ en = Cardinality(RestKeys(a, h, o)) + 1
  /\ sl = 0 => /\ Resting(a, h, o, 0) /\ a.used = Cardinality(UsedBuckets(a)) + 1
               /\ a.bucket[Home(a, k)].data = NoKey
  /\ sl # 0 => Resting(a, h, o, sl) /\ Counted(a) /\ o[sl] = <<a.n, Home(a, k)>>

Carrying(a, b, ph, sc, cu, h, lv, en, o) ==
  /\ ph \in {"move", "undo_safe", "undo"}
  /\ ph = "move" => Moving(a, b, ph, sc, cu, h, o)
  /\ ph # "move" => Moving(b, a, ph, sc, cu, h, o)
  /\ lv = LiveOf(o) /\ en = Cardinality(KeysOf(a, b, h, o))
  /\ Enough(a.n, KeysOf(a, b, h, o), lv)

Emptying(a, b, sc, cu, h, lv, en, o) ==
  /\ b = NoTable /\ Clearing(a, sc, cu, h, o) /\ lv = LiveOf(o)
  /\ a.used \in 0..a.n /\ en \in 0..Cardinality(Keys)

Given(a, b, h, lv, en, o) ==
  /\ b = NoTable /\ Resting(a, h, o, 0) /\ Counted(a)
  /\ lv = {} /\ en = Cardinality(RestKeys(a, h, o))

Shape(o) ==
  /\ pc \in {"init", "null"} => Nothing(old, new, heap, live, entries, o)
  /\ pc \in Still => AtRest(old, new, heap, live, entries, o)
  /\ pc \in {"store", "exit"} => Storing(old, new, heap, live, entries, slot, arg, o)
  /\ pc = "transfer" => Carrying(old, new, phase, scan, cur, heap, live, entries, o)
  /\ pc = "clear" => Emptying(old, new, scan, cur, heap, live, entries, o)
  /\ pc = "freed" => Given(old, new, heap, live, entries, o)

KeysNow(o) == KeysOf(old, new, heap, o)

Results == [found : BOOLEAN, node : Keys \cup {NoKey}]

Typed ==
  /\ tuning \in Tunings /\ (pc \notin {"init", "null"} => check_tuning(tuning))
  /\ heap \in Heaps /\ live \in SUBSET Ids /\ nalloc \in 0..(SizeRange - 1)
  /\ cur \in Links /\ slot \in Links /\ ret \in Results

\* The call that runs, and its key.
Called ==
  /\ pc \in {"init", "null", "idle", "freed"} => op = "none" /\ arg = NoKey
  /\ pc = "find" => op \in {"insert", "lookup", "delete"} /\ arg \in Keys
  /\ pc \in {"link", "store", "exit", "abort"} => op = "insert" /\ arg \in Keys
  /\ pc \in {"transfer", "rehashed", "refused"} => \/ op \in {"insert", "delete"} /\ arg \in Keys
                                                   \/ op = "rehash" /\ arg = NoKey
  /\ pc = "clear" => op = "clear" /\ arg = NoKey

Points == {"init", "null", "freed", "store", "exit", "transfer", "clear"} \cup Still

\* Past the search, the key of the call is not in the table.
Absent(o) == pc \in {"link", "store", "exit", "abort", "transfer", "rehashed", "refused"}
               => arg \notin KeysNow(o)

Inv(o) == pc \in Points /\ Typed /\ Called /\ Shape(o) /\ Absent(o)

\* The keys after a step.
Reaches(ks) == \E u : Inv(u)' /\ KeysNow(u)' = ks

-----------------------------------------------------------------------------
\* The keys of one table are those of two, one of them being none.
LEMMA RestKeysAre == \A t, h, o : KeysOf(t, NoTable, h, o) = RestKeys(t, h, o)
BY DEF KeysOf, RestKeys

\* The invariant holds at first, with no key.
LEMMA InitHolds ==
  ASSUME Init
  PROVE  \E o : Inv(o) /\ KeysNow(o) = {}
<1> DEFINE o == [e \in Ids |-> Nowhere]
           d == [e \in Ids |-> 1]
           F == Lists(NoTable)
           K == HeadsOf(NoTable, NoTable)
<1>1. heap = [e \in Ids |-> Dead] /\ heap \in Heaps
  <2>1. Dead \in [data : Keys \cup {NoKey, Junk}, next : Links]
    BY EmptyBucket DEF Dead
  <2>. QED
    BY <2>1 DEF Init, Heaps
<1>2. NextOf(heap) \in [Ids -> Links] /\ DataOf(heap) \in [Ids -> Keys \cup {NoKey, Junk}]
  BY <1>1, HeapViews
<1>3. /\ F \in [Place -> Links] /\ \A p \in Place : F[p] = 0
  <2>1. \A p \in Place : Cell(NoTable, NoTable, p) = Empty
    BY NoTableIs DEF Cell, Place
  <2>2. NextsOf(NoTable, NoTable) = [p \in Place |-> 0]
    BY <2>1, EmptyBucket DEF NextsOf
  <2>. QED
    BY <2>2, NoTableIs, EmptyBucket DEF Lists
<1>4. /\ K \in [Place -> Keys \cup {NoKey}] /\ \A p \in Place : K[p] = NoKey
  <2>1. \A p \in Place : Cell(NoTable, NoTable, p) = Empty
    BY NoTableIs DEF Cell, Place
  <2>2. K = [p \in Place |-> NoKey]
    BY <2>1, EmptyBucket DEF HeadsOf
  <2>. QED
    BY <2>2
<1>5. o \in [Ids -> Place] /\ \A e \in Ids : o[e] = Nowhere
  BY PlaceFacts
<1>6. d \in [Ids -> Nat \ {0}]
  OBVIOUS
<1> HIDE DEF o, d, F, K
<1>7. Listed(F, NextOf(heap), o, d)
  BY <1>2, <1>3, <1>5, <1>6 DEF Listed
<1>8. Ranked(F, NextOf(heap), o)
  BY <1>7 DEF Ranked
<1>9. \A e \in Ids : ~Bucketed(o[e])
  BY <1>5, PlaceFacts
<1>10. Keyed(K, DataOf(heap), o, 0)
  BY <1>2, <1>4, <1>5, <1>9 DEF Keyed
<1>11. KeysIn(K, DataOf(heap), o) = {}
  BY <1>4, <1>9, KeysAssumption DEF KeysIn
<1>12. Shape(o)
  <2>1. Nothing(old, new, heap, live, entries, o)
    BY <1>8, <1>10 DEF Nothing, Init, F, K, o
  <2>. QED
    BY <2>1 DEF Shape, Init, Still
<1>13. Typed
  BY <1>1, BoundAssumption, EmptyBucket DEF Typed, Init, Results, NoResult
<1>14. Called /\ Absent(o) /\ pc \in Points
  BY DEF Called, Absent, Init, Points
<1>15. KeysNow(o) = {}
  BY <1>11 DEF KeysNow, KeysOf, Init, K
<1>. QED
  BY <1>12, <1>13, <1>14, <1>15 DEF Inv

\* The step leaves the table as it is.
LEMMA StaysAtRest ==
  ASSUME NEW o, Inv(o), pc \in Still, UNCHANGED <<tuning, old, new, entries, memory, slot>>,
         pc' \in Still, cur' \in Links, ret' \in Results, Called',
         pc' \in {"link", "abort", "rehashed", "refused"} => arg' \notin KeysNow(o)
  PROVE  Reaches(KeysNow(o))
<1>1. AtRest(old, new, heap, live, entries, o) /\ Typed
  BY DEF Inv, Shape
<1>2. KeysNow(o)' = KeysNow(o)
  BY DEF KeysNow, memory
<1>3. Typed'
  BY <1>1 DEF Typed, memory, Still
<1>4. Shape(o)'
  <2>1. AtRest(old, new, heap, live, entries, o)'
    BY <1>1 DEF memory
  <2>. QED
    BY <2>1 DEF Shape, Still
<1>5. Absent(o)' /\ (pc \in Points)'
  BY <1>2 DEF Absent, Points, Still
<1>6. Inv(o)'
  BY <1>3, <1>4, <1>5 DEF Inv
<1>. QED
  BY <1>2, <1>6 DEF Reaches

\* What is in the table at rest.
LEMMA HasNow ==
  ASSUME NEW o, Inv(o), pc \in Still, arg \in Keys
  PROVE  Has(old, arg) = (arg \in KeysNow(o))
<1>1. Resting(old, heap, o, 0) /\ new = NoTable
  BY DEF Inv, Shape, AtRest
<1>2. Has(old, arg) = (arg \in RestKeys(old, heap, o))
  BY <1>1, HasIs
<1>. QED
  BY <1>1, <1>2, RestKeysAre DEF KeysNow

\* A call that searches begins.
LEMMA CallFindKeeps ==
  ASSUME NEW o, Inv(o), NEW f \in {"insert", "lookup", "delete"}, NEW k \in Keys, CallFind(f, k)
  PROVE  Reaches(KeysNow(o))
<1>1. /\ pc \in Still /\ pc' = "find" /\ pc' \in Still /\ op' = f /\ arg' = k /\ ret' = NoResult
      /\ UNCHANGED <<tuning, old, new, entries, memory, slot>> /\ UNCHANGED cur
  BY DEF CallFind, Call, Still
<1>2. ret' \in Results /\ cur' \in Links
  BY <1>1 DEF Inv, Typed, Results, NoResult
<1>3. Called'
  BY <1>1 DEF Called
<1>. QED
  BY <1>1, <1>2, <1>3, StaysAtRest

\* GHASH_LOOKUP returns.
LEMMA LookupKeeps ==
  ASSUME NEW o, Inv(o), LookupReturn
  PROVE  Reaches(KeysNow(o))
<1>1. /\ pc \in Still /\ pc' = "idle" /\ pc' \in Still /\ op' = "none" /\ arg' = NoKey
      /\ UNCHANGED <<tuning, old, new, entries, memory, slot>> /\ UNCHANGED cur
  BY DEF LookupReturn, Return, Still, local
<1>2. arg \in Keys
  BY DEF Inv, Called, LookupReturn
<1>3. ret' \in Results /\ cur' \in Links
  <2>1. cur' \in Links
    BY <1>1 DEF Inv, Typed
  <2>2. ret' = [found |-> Has(old, arg), node |-> IF Has(old, arg) THEN arg ELSE NoKey]
    BY DEF LookupReturn, Return
  <2>3. Has(old, arg) = TRUE \/ Has(old, arg) = FALSE
    BY DEF Has
  <2>. QED
    BY <2>1, <2>2, <2>3, <1>2 DEF Results
<1>4. Called'
  BY <1>1 DEF Called
<1>. QED
  BY <1>1, <1>3, <1>4, StaysAtRest

\* hash_rehash returns.
LEMMA RehashReturnKeeps ==
  ASSUME NEW o, Inv(o), RehashReturn
  PROVE  Reaches(KeysNow(o))
<1>1. /\ pc \in Still /\ pc' = "idle" /\ pc' \in Still /\ op' = "none" /\ arg' = NoKey
      /\ UNCHANGED <<tuning, old, new, entries, memory, slot>> /\ UNCHANGED cur
  BY DEF RehashReturn, Return, Still, local
<1>2. ret' \in Results /\ cur' \in Links
  <2>1. cur' \in Links
    BY <1>1 DEF Inv, Typed
  <2>2. ret' = [found |-> pc = "rehashed", node |-> NoKey]
    BY DEF RehashReturn, Return
  <2>3. (pc = "rehashed") = TRUE \/ (pc = "rehashed") = FALSE
    OBVIOUS
  <2>. QED
    BY <2>1, <2>2, <2>3 DEF Results
<1>3. Called'
  BY <1>1 DEF Called
<1>. QED
  BY <1>1, <1>2, <1>3, StaysAtRest

\* The insertion of a key that is there returns.
LEMMA FoundKeeps ==
  ASSUME NEW o, Inv(o), InsertFound
  PROVE  Reaches(KeysNow(o))
<1>1. /\ pc \in Still /\ pc' = "idle" /\ pc' \in Still /\ op' = "none" /\ arg' = NoKey
      /\ UNCHANGED <<tuning, old, new, entries, memory, slot>> /\ UNCHANGED cur
  BY DEF InsertFound, Return, Still, local
<1>2. arg \in Keys
  BY DEF Inv, Called, InsertFound
<1>3. ret' \in Results /\ cur' \in Links
  BY <1>1, <1>2 DEF Inv, Typed, Results, InsertFound, Return
<1>4. Called'
  BY <1>1 DEF Called
<1>. QED
  BY <1>1, <1>3, <1>4, StaysAtRest

\* The deletion of a key that is not there returns.
LEMMA DeleteNoneKeeps ==
  ASSUME NEW o, Inv(o), DeleteNone
  PROVE  Reaches(KeysNow(o))
<1>1. /\ pc \in Still /\ pc' = "idle" /\ pc' \in Still /\ op' = "none" /\ arg' = NoKey
      /\ UNCHANGED <<tuning, old, new, entries, memory, slot>> /\ UNCHANGED cur
  BY DEF DeleteNone, Return, Still, local
<1>2. ret' \in Results /\ cur' \in Links
  BY <1>1 DEF Inv, Typed, Results, DeleteNone, Return
<1>3. Called'
  BY <1>1 DEF Called
<1>. QED
  BY <1>1, <1>2, <1>3, StaysAtRest

\* The insertion goes on without a rehash.
LEMMA RoomKeeps ==
  ASSUME NEW o, Inv(o), InsertRoom
  PROVE  Reaches(KeysNow(o))
<1>1. /\ pc \in Still /\ pc' = "link" /\ pc' \in Still
      /\ UNCHANGED <<tuning, old, new, entries, memory, slot>> /\ UNCHANGED <<cur, op, arg, ret>>
  BY DEF InsertRoom, Still, local
<1>2. arg \in Keys /\ op = "insert" /\ ~Has(old, arg)
  BY DEF Inv, Called, InsertRoom
<1>3. ret' \in Results /\ cur' \in Links
  BY <1>1 DEF Inv, Typed
<1>4. Called'
  BY <1>1, <1>2 DEF Called
<1>5. arg' \notin KeysNow(o)
  BY <1>1, <1>2, HasNow
<1>. QED
  BY <1>1, <1>3, <1>4, <1>5, StaysAtRest

\* The bucket does not hold the key: the call to abort is not reached.
LEMMA RefindKeeps ==
  ASSUME NEW o, Inv(o), Refind
  PROVE  Reaches(KeysNow(o))
<1>1. /\ pc \in Still /\ op = "insert" /\ pc \in {"rehashed", "refused"}
      /\ UNCHANGED <<tuning, old, new, entries, memory, slot>> /\ UNCHANGED <<cur, op, arg, ret>>
  BY DEF Refind, Still, local
<1>2. arg \in Keys /\ arg \notin KeysNow(o)
  BY <1>1 DEF Inv, Called, Absent
<1>3. ~Has(old, arg)
  BY <1>1, <1>2, HasNow
<1>4. pc' \in {"link", "abort"} /\ pc' \in Still
  BY <1>3 DEF Refind, Still
<1>5. ret' \in Results /\ cur' \in Links
  BY <1>1 DEF Inv, Typed
<1>6. Called'
  BY <1>1, <1>2, <1>4 DEF Called
<1>. QED
  BY <1>1, <1>2, <1>4, <1>5, <1>6, StaysAtRest

\* There is no memory for an overflow entry.
LEMMA LinkFailsKeeps ==
  ASSUME NEW o, Inv(o), LinkFails
  PROVE  Reaches(KeysNow(o))
<1>1. /\ pc \in Still /\ pc' = "abort" /\ pc' \in Still /\ pc = "link"
      /\ UNCHANGED <<tuning, old, new, entries, memory, slot>> /\ UNCHANGED <<cur, op, arg, ret>>
  BY DEF LinkFails, Still, local
<1>2. arg \in Keys /\ op = "insert" /\ arg \notin KeysNow(o)
  BY <1>1 DEF Inv, Called, Absent
<1>3. ret' \in Results /\ cur' \in Links
  BY <1>1 DEF Inv, Typed
<1>4. Called'
  BY <1>1, <1>2 DEF Called
<1>. QED
  BY <1>1, <1>2, <1>3, <1>4, StaysAtRest

\* hash_rehash leaves the table, or begins to transfer it.
LEMMA RehashStarts ==
  ASSUME NEW o, NEW t, Resting(t, heap, o, 0), Counted(t), Typed, live = LiveOf(o),
         new = NoTable, pc \notin {"init", "null"}, NEW c \in Nat, StartRehash(t, c),
         UNCHANGED <<tuning, memory, slot>>,
         old' = t, entries' = Cardinality(RestKeys(t, heap, o)), ret' \in Results,
         Called', arg' \notin RestKeys(t, heap, o)
  PROVE  Reaches(RestKeys(t, heap, o))
<1> DEFINE n == BucketSize(c, tuning)
           ks == RestKeys(t, heap, o)
<1>1. /\ tuning \in Tuning /\ check_tuning(tuning) /\ heap' = heap /\ live' = live
      /\ nalloc' = nalloc /\ tuning' = tuning /\ slot' = slot
  BY TuningAssumption DEF Typed, memory
<1>2. IsSize(n)
  BY <1>1, BucketSizeIs
<1> HIDE DEF n
<1>3. \/ pc' \in {"rehashed", "refused"} /\ UNCHANGED <<new, phase, scan, cur>>
      \/ /\ n # t.n /\ pc' = "transfer" /\ new' = Table(n, t.free) /\ phase' = "move"
         /\ scan' = NextUsed(t, 0) /\ cur' = IF scan' = t.n THEN 0 ELSE t.bucket[scan'].next
  BY DEF StartRehash, n
<1>4. CASE pc' \in {"rehashed", "refused"} /\ UNCHANGED <<new, phase, scan, cur>>
  <2>1. KeysNow(o)' = ks
    BY <1>1, <1>4, RestKeysAre DEF KeysNow
  <2>2. AtRest(old', new', heap', live', entries', o)
    BY <1>1, <1>4 DEF AtRest
  <2>3. Shape(o)'
    BY <2>2, <1>4 DEF Shape, Still
  <2>4. Typed'
    BY <1>1, <1>4 DEF Typed
  <2>5. Absent(o)' /\ (pc \in Points)'
    BY <2>1, <1>4 DEF Absent, Points, Still
  <2>6. Inv(o)'
    BY <2>3, <2>4, <2>5 DEF Inv
  <2>. QED
    BY <2>1, <2>6 DEF Reaches
<1>5. CASE /\ n # t.n /\ pc' = "transfer" /\ new' = Table(n, t.free) /\ phase' = "move"
           /\ scan' = NextUsed(t, 0) /\ cur' = IF scan' = t.n THEN 0 ELSE t.bucket[scan'].next
  <2>1. cur' = NextAt(t, scan')
    BY <1>5 DEF NextAt
  <2>2. /\ Moving(t, new', "move", scan', NextAt(t, scan'), heap, o)
        /\ KeysOf(t, new', heap, o) = RestKeys(t, heap, o)
    BY <1>2, <1>5, StartsMoving
  <2>3. KeysNow(o)' = ks
    BY <1>1, <2>2 DEF KeysNow
  <2>4. Enough(t.n, ks, live)
    BY RestEnough
  <2>5. Carrying(old', new', phase', scan', cur', heap', live', entries', o)
    BY <2>1, <2>2, <2>4, <1>1, <1>5 DEF Carrying
  <2>6. Shape(o)'
    BY <2>5, <1>5 DEF Shape, Still
  <2>7. cur' \in Links
    BY <2>1, <2>2 DEF Moving, Walked
  <2>8. Typed'
    BY <2>7, <1>1, <1>5 DEF Typed
  <2>9. Absent(o)' /\ (pc \in Points)'
    BY <2>3, <1>5 DEF Absent, Points
  <2>10. Inv(o)'
    BY <2>6, <2>8, <2>9 DEF Inv
  <2>. QED
    BY <2>3, <2>10 DEF Reaches
<1>. QED
  BY <1>3, <1>4, <1>5

\* The client calls hash_rehash,
LEMMA CallRehashKeeps ==
  ASSUME NEW o, Inv(o), NEW c \in Candidates, CallRehash(c)
  PROVE  Reaches(KeysNow(o))
<1>1. AtRest(old, new, heap, live, entries, o) /\ Typed /\ pc = "idle"
  BY DEF Inv, Shape, Still, CallRehash
<1>2. /\ StartRehash(old, c) /\ UNCHANGED <<tuning, old, entries, memory, slot>>
      /\ op' = "rehash" /\ arg' = NoKey /\ ret' = NoResult /\ c \in Nat
  BY TuningAssumption DEF CallRehash
<1>3. /\ Resting(old, heap, o, 0) /\ Counted(old) /\ live = LiveOf(o) /\ new = NoTable
      /\ entries = Cardinality(RestKeys(old, heap, o))
  BY <1>1 DEF AtRest
<1>4. pc' \in {"rehashed", "refused", "transfer"}
  BY <1>2 DEF StartRehash
<1>5. Called' /\ ret' \in Results
  BY <1>2, <1>4 DEF Called, Results, NoResult
<1>6. arg' \notin RestKeys(old, heap, o)
  BY <1>2, KeysAssumption DEF RestKeys, KeysIn
<1>7. Reaches(RestKeys(old, heap, o))
  BY <1>1, <1>2, <1>3, <1>5, <1>6, RehashStarts
<1>. QED
  BY <1>3, <1>7, RestKeysAre DEF KeysNow

\* or hash_insert does, past the threshold.
LEMMA FullKeeps ==
  ASSUME NEW o, Inv(o), InsertFull
  PROVE  Reaches(KeysNow(o))
<1>1. AtRest(old, new, heap, live, entries, o) /\ Typed /\ pc = "find" /\ op = "insert"
      /\ arg \in Keys
  BY DEF Inv, Shape, Still, InsertFull, Called
<1>2. /\ StartRehash(old, GrownCandidate(old.n, tuning))
      /\ UNCHANGED <<tuning, old, entries, memory, slot>> /\ UNCHANGED <<op, arg, ret>>
      /\ ~Has(old, arg)
  BY DEF InsertFull
<1>3. /\ Resting(old, heap, o, 0) /\ Counted(old) /\ live = LiveOf(o) /\ new = NoTable
      /\ entries = Cardinality(RestKeys(old, heap, o))
  BY <1>1 DEF AtRest
<1>4. GrownCandidate(old.n, tuning) \in Nat
  <2>1. old.n \in Nat /\ tuning \in Tuning
    BY <1>1, <1>3, SizeFacts, TuningAssumption DEF Resting, Typed
  <2>. QED
    BY <2>1, CandidateIs
<1>5. pc' \in {"rehashed", "refused", "transfer"}
  BY <1>2 DEF StartRehash
<1>6. Called' /\ ret' \in Results
  BY <1>1, <1>2, <1>5 DEF Called, Typed
<1>7. KeysNow(o) = RestKeys(old, heap, o)
  BY <1>3, RestKeysAre DEF KeysNow
<1>8. arg' \notin RestKeys(old, heap, o)
  <2>1. arg \notin KeysNow(o)
    BY <1>1, <1>2, HasNow DEF Still
  <2>. QED
    BY <2>1, <1>2, <1>7
<1>9. Reaches(RestKeys(old, heap, o))
  <2> DEFINE c == GrownCandidate(old.n, tuning)
  <2>1. c \in Nat /\ StartRehash(old, c)
    BY <1>2, <1>4
  <2> HIDE DEF c
  <2>. QED
    BY <2>1, <1>1, <1>2, <1>3, <1>6, <1>8, RehashStarts
<1>. QED
  BY <1>7, <1>9

\* hash_initialize makes an empty table, or none.
LEMMA InitializeKeeps ==
  ASSUME NEW o, Inv(o), NEW c \in Candidates, Initialize(c)
  PROVE  Reaches(KeysNow(o))
<1>1. /\ Nothing(old, new, heap, live, entries, o) /\ Typed /\ pc = "init" /\ op = "none" /\ arg = NoKey
  BY DEF Inv, Shape, Initialize, Called
<1>2. /\ UNCHANGED <<tuning, new, entries, memory, op, arg, local, ret>>
      /\ \/ check_tuning(tuning) /\ old' = Table(BucketSize(c, tuning), 0) /\ pc' = "idle"
         \/ pc' = "null" /\ old' = old
  BY DEF Initialize
<1>3. /\ heap' = heap /\ live' = live /\ nalloc' = nalloc /\ tuning' = tuning /\ cur' = cur
      /\ slot' = slot /\ new' = new /\ entries' = entries /\ op' = op /\ arg' = arg /\ ret' = ret
  BY <1>2 DEF memory, local
<1>4. /\ old = NoTable /\ new = NoTable /\ live = {} /\ entries = 0 /\ heap \in Heaps
      /\ Ranked(Lists(NoTable), NextOf(heap), o)
      /\ Keyed(HeadsOf(NoTable, NoTable), DataOf(heap), o, 0)
  BY <1>1 DEF Nothing, Typed
<1>5. CASE pc' = "null" /\ old' = old
  <2>1. KeysNow(o)' = KeysNow(o)
    BY <1>3, <1>5 DEF KeysNow
  <2>2. Typed' /\ Called' /\ Absent(o)' /\ (pc \in Points)'
    BY <1>1, <1>3, <1>5 DEF Typed, Called, Absent, Points
  <2>3. Nothing(old', new', heap', live', entries', o)
    BY <1>1, <1>3, <1>5
  <2>4. Shape(o)'
    BY <2>3, <1>5 DEF Shape, Still
  <2>. QED
    BY <2>1, <2>2, <2>4 DEF Inv, Reaches
<1>6. CASE check_tuning(tuning) /\ old' = Table(BucketSize(c, tuning), 0) /\ pc' = "idle"
  <2> DEFINE n == BucketSize(c, tuning)
             t == Table(n, 0)
  <2>1. IsSize(n)
    <3>1. tuning \in Tuning /\ c \in Nat
      BY <1>1, TuningAssumption DEF Typed
    <3>. QED
      BY <3>1, <1>6, BucketSizeIs
  <2> HIDE DEF n
  <2>2. /\ IsTable(t) /\ t.n = n /\ t.free = 0 /\ t.used = 0
        /\ \A i \in 0..(t.n - 1) : t.bucket[i].data = NoKey /\ t.bucket[i].next = 0
    BY <2>1, EmptyBucket, NewTableIs
  <2>3. old' = t
    BY <1>6 DEF n
  <2> HIDE DEF t
  <2>4. t.n # NoTable.n /\ IsTable(NoTable)
    BY <2>1, <2>2, SizeFacts, NoTableIs
  <2>5. HeadsOf(t, NoTable) = HeadsOf(NoTable, NoTable) /\ NextsOf(t, NoTable) = NextsOf(NoTable, NoTable)
    <3>1. HeadsOf(NoTable, t) = HeadsOf(NoTable, NoTable) /\ NextsOf(NoTable, t) = NextsOf(NoTable, NoTable)
      BY <2>2, <2>4, BesideEmpty
    <3>2. HeadsOf(NoTable, t) = HeadsOf(t, NoTable) /\ NextsOf(NoTable, t) = NextsOf(t, NoTable)
      BY <2>4, ViewSwap
    <3>. QED
      BY <3>1, <3>2
  <2>6. Lists(t) = Lists(NoTable)
    BY <2>2, <2>5, NoTableIs DEF Lists
  <2>7. Resting(t, heap, o, 0)
    BY <2>1, <2>2, <2>5, <2>6, <1>4 DEF Resting
  <2>8. Counted(t)
    <3>1. UsedBuckets(t) = {}
      BY <2>2 DEF UsedBuckets, IsTable
    <3>. QED
      BY <3>1, <2>2, FS_EmptySet DEF Counted
  <2>9. KeysOf(NoTable, NoTable, heap, o) = {} /\ LiveOf(o) = {}
    <3>1. \A e \in Ids : o[e] = Nowhere /\ ~Bucketed(o[e])
      BY <1>1, PlaceFacts DEF Nothing
    <3>2. \A p \in Place : HeadsOf(NoTable, NoTable)[p] = NoKey
      BY NoTableIs, EmptyBucket DEF HeadsOf, Cell, Place
    <3>. QED
      BY <3>1, <3>2, KeysAssumption DEF KeysOf, KeysIn, LiveOf
  <2>10. RestKeys(t, heap, o) = {} /\ KeysNow(o) = {}
    BY <2>5, <2>9, <1>4 DEF RestKeys, KeysOf, KeysNow
  <2>11. KeysNow(o)' = {}
    BY <2>3, <2>10, <1>3, <1>4, RestKeysAre DEF KeysNow
  <2>12. AtRest(old', new', heap', live', entries', o)
    BY <2>3, <2>7, <2>8, <2>9, <2>10, <1>3, <1>4, FS_EmptySet DEF AtRest
  <2>13. Shape(o)'
    BY <2>12, <1>6 DEF Shape, Still
  <2>14. Typed' /\ Called' /\ Absent(o)' /\ (pc \in Points)'
    BY <1>1, <1>3, <1>6 DEF Typed, Called, Absent, Points, Still
  <2>. QED
    BY <2>10, <2>11, <2>13, <2>14 DEF Inv, Reaches
<1>. QED
  BY <1>2, <1>5, <1>6

\* A transfer that runs.
Running(o, s, d) ==
  /\ Moving(s, d, phase, scan, cur, heap, o) /\ KeysNow(o) = KeysOf(s, d, heap, o)
  /\ live = LiveOf(o) /\ Enough(old.n, KeysNow(o), live) /\ entries = Cardinality(KeysNow(o))
  /\ phase \in {"move", "undo_safe", "undo"} /\ s.n # d.n
  /\ phase = "move" => s = old /\ d = new
  /\ phase # "move" => s = new /\ d = old

\* What the invariant says of a transfer.
LEMMA TransferIs ==
  ASSUME NEW o, Inv(o), pc = "transfer"
  PROVE  Running(o, Src, Dst) /\ Typed /\ Called /\ arg \notin KeysNow(o)
<1>1. Carrying(old, new, phase, scan, cur, heap, live, entries, o) /\ Typed /\ Called
      /\ arg \notin KeysNow(o)
  BY DEF Inv, Shape, Absent
<1>2. CASE phase = "move"
  BY <1>1, <1>2 DEF Carrying, Running, Src, Dst, KeysNow, Moving
<1>3. CASE phase # "move"
  <2>1. Src = new /\ Dst = old
    BY <1>3 DEF Src, Dst
  <2>2. Moving(new, old, phase, scan, cur, heap, o)
    BY <1>1, <1>3 DEF Carrying
  <2>3. new.n # old.n
    BY <2>2 DEF Moving
  <2>4. KeysOf(new, old, heap, o) = KeysOf(old, new, heap, o)
    BY <2>3, ViewSwap DEF KeysOf
  <2>. QED
    BY <2>1, <2>2, <2>3, <2>4, <1>1, <1>3 DEF Carrying, Running, KeysNow
<1>. QED
  BY <1>2, <1>3, <1>1

\* A step of the transfer.
LEMMA TransferMoves ==
  ASSUME NEW o, Inv(o), pc = "transfer", NEW t, NEW e, NEW ph, ph \in {"move", "undo_safe", "undo"},
         Moves(t, e, ph, scan', cur', heap', KeysNow(o), live'),
         phase' = ph, ph = "move" => old' = t /\ new' = e, ph # "move" => old' = e /\ new' = t,
         old'.n = old.n, Enough(old.n, KeysNow(o), live'),
         UNCHANGED <<tuning, entries, op, arg, slot, ret, pc>>, nalloc' \in 0..(SizeRange - 1)
  PROVE  Reaches(KeysNow(o))
<1>1. PICK u : /\ Moving(t, e, ph, scan', cur', heap', u)
               /\ KeysOf(t, e, heap', u) = KeysNow(o) /\ LiveOf(u) = live'
  BY DEF Moves
<1>2. Typed /\ Called /\ entries = Cardinality(KeysNow(o)) /\ arg \notin KeysNow(o)
  BY TransferIs DEF Running
<1>3. KeysOf(old', new', heap', u) = KeysNow(o)
  <2>1. CASE ph = "move"
    BY <2>1, <1>1
  <2>2. CASE ph # "move"
    <3>1. t.n # e.n
      BY <1>1 DEF Moving
    <3>2. KeysOf(e, t, heap', u) = KeysOf(t, e, heap', u)
      BY <3>1, ViewSwap DEF KeysOf
    <3>. QED
      BY <3>2, <2>2, <1>1
  <2>. QED
    BY <2>1, <2>2
<1>4. KeysNow(u)' = KeysNow(o)
  BY <1>3 DEF KeysNow
<1>5. Carrying(old', new', phase', scan', cur', heap', live', entries', u)
  <2>1. phase' = "move" => Moving(old', new', phase', scan', cur', heap', u)
    BY <1>1
  <2>2. phase' # "move" => Moving(new', old', phase', scan', cur', heap', u)
    BY <1>1
  <2>. QED
    BY <2>1, <2>2, <1>1, <1>2, <1>3 DEF Carrying
<1>6. Shape(u)'
  BY <1>5 DEF Shape, Still
<1>7. heap' \in Heaps /\ cur' \in Links /\ live' \in SUBSET Ids
  BY <1>1 DEF Moving, Walked, LiveOf
<1>8. Typed'
  BY <1>2, <1>7 DEF Typed
<1>9. Called' /\ Absent(u)' /\ (pc \in Points)'
  BY <1>2, <1>4 DEF Called, Absent, Points
<1>. QED
  BY <1>4, <1>6, <1>8, <1>9 DEF Inv, Reaches

\* Where the tables are after a step.
LEMMA TablesAre ==
  ASSUME NEW o, NEW s, NEW d, Running(o, s, d), NEW t, NEW e, Tables(e, t),
         t.n = s.n, e.n = d.n
  PROVE  /\ phase = "move" => old' = t /\ new' = e
         /\ phase # "move" => old' = e /\ new' = t
         /\ old'.n = old.n
BY DEF Running, Tables

\* A step that leaves the phase as it is.
LEMMA TransferSteps ==
  ASSUME NEW o, Inv(o), pc = "transfer", NEW s, NEW d, Running(o, s, d), NEW t, NEW e,
         Moves(t, e, phase, scan', cur', heap', KeysNow(o), live'),
         Tables(e, t), t.n = s.n, e.n = d.n, live \subseteq live',
         UNCHANGED <<tuning, entries, op, arg, slot, ret, pc, phase>>,
         nalloc' \in 0..(SizeRange - 1)
  PROVE  Reaches(KeysNow(o))
<1>1. /\ phase = "move" => old' = t /\ new' = e
      /\ phase # "move" => old' = e /\ new' = t
      /\ old'.n = old.n
  BY TablesAre
<1>2. Enough(old.n, KeysNow(o), live')
  <2>1. live' \in SUBSET Ids
    BY DEF Moves, LiveOf
  <2>2. /\ IsFiniteSet(live) /\ IsFiniteSet(live') /\ Cardinality(live) \in Nat
        /\ Cardinality(live') \in Nat
    BY <2>1, FiniteIds
  <2>3. Cardinality(live) <= Cardinality(live')
    BY <2>2, FS_Subset
  <2>4. Cardinality(KeysNow(o)) \in Nat /\ Cardinality(Homes(old.n, KeysNow(o))) \in Nat
    <3>1. KeysNow(o) \in SUBSET Keys
      BY DEF KeysNow, KeysOf, KeysIn
    <3>. QED
      BY <3>1, FiniteKeys, HomesFinite
  <2>5. Enough(old.n, KeysNow(o), live)
    BY DEF Running
  <2>. QED
    BY <2>2, <2>3, <2>4, <2>5 DEF Enough
<1>3. phase \in {"move", "undo_safe", "undo"}
  BY DEF Running
<1>. QED
  BY <1>1, <1>2, <1>3, TransferMoves

\* An overflow entry goes to the other table.
LEMMA OverflowKeeps ==
  ASSUME NEW o, Inv(o), MoveOverflow
  PROVE  Reaches(KeysNow(o))
<1> DEFINE s == Src
           d == Dst
           k == heap[cur].data
           i == Home(d, k)
           b == d.bucket[i]
<1>1. pc = "transfer" /\ scan < s.n /\ cur # 0
  BY DEF MoveOverflow, Transferring
<1>2. Running(o, s, d) /\ Typed
  BY <1>1, TransferIs
<1>3. /\ cur' = heap[cur].next
      /\ UNCHANGED <<tuning, entries, live, nalloc, pc, op, arg, phase, scan, slot, ret>>
      /\ \/ /\ b.data # NoKey
            /\ heap' = [heap EXCEPT ![cur].next = b.next]
            /\ Tables([d EXCEPT !.bucket[i].next = cur], s)
         \/ /\ b.data = NoKey
            /\ heap' = [heap EXCEPT ![cur] = [data |-> NoKey, next |-> d.free]]
            /\ Tables([d EXCEPT !.bucket[i].data = k, !.used = @ + 1, !.free = cur], s)
  BY DEF MoveOverflow, Freed
<1> HIDE DEF s, d
<1>4. Moving(s, d, phase, scan, cur, heap, o) /\ KeysOf(s, d, heap, o) = KeysNow(o) /\ LiveOf(o) = live
  BY <1>2 DEF Running
<1>5. There(s, d, scan, cur, k, i, <<d.n, i>>, Firsts(s, d, d.free, <<s.n, scan>>, cur), HeadsOf(s, d))
      /\ k \in Keys /\ cur \in Links
  <2>1. k \in Keys /\ cur \in Ids
    BY <1>1, <1>4, OverflowIs
  <2> HIDE DEF k
  <2>. QED
    BY <2>1, <1>1, <1>4, MovingTo, IdsLinks
<1>6. IsTable(d) /\ d.free \in Links /\ i \in 0..(d.n - 1)
  BY <1>4, <1>5 DEF Moving, There, IsTable
<1>7. CASE /\ b.data # NoKey
           /\ heap' = [heap EXCEPT ![cur].next = b.next]
           /\ Tables([d EXCEPT !.bucket[i].next = cur], s)
  <2> DEFINE e == [d EXCEPT !.bucket[i].next = cur]
  <2>1. Moves(s, e, phase, scan, heap[cur].next, [heap EXCEPT ![cur].next = b.next],
              KeysOf(s, d, heap, o), LiveOf(o))
    BY <1>1, <1>4, <1>7, MoveToChain
  <2>2. e = Edited(d, i, [data |-> b.data, next |-> cur], d.used, d.free)
    BY <1>5, <1>6, PutNextIs
  <2>3. e.n = d.n
    BY <2>2 DEF Edited
  <2> HIDE DEF e
  <2>4. Moves(s, e, phase, scan', cur', heap', KeysNow(o), live')
    BY <2>1, <1>3, <1>4, <1>7
  <2>5. Tables(e, s)
    BY <1>7 DEF e
  <2>. QED
    BY <2>3, <2>4, <2>5, <1>1, <1>2, <1>3, TransferSteps DEF Typed
<1>8. CASE /\ b.data = NoKey
           /\ heap' = [heap EXCEPT ![cur] = [data |-> NoKey, next |-> d.free]]
           /\ Tables([d EXCEPT !.bucket[i].data = k, !.used = @ + 1, !.free = cur], s)
  <2> DEFINE e == [d EXCEPT !.bucket[i].data = k, !.used = @ + 1, !.free = cur]
  <2>1. Moves(s, e, phase, scan, heap[cur].next,
              [heap EXCEPT ![cur] = [data |-> NoKey, next |-> d.free]],
              KeysOf(s, d, heap, o), LiveOf(o))
    BY <1>1, <1>4, <1>8, MoveToHead
  <2>2. e = Edited(d, i, [data |-> k, next |-> b.next], d.used + 1, cur)
    <3>1. DataPut(d, i, k, cur)
      BY <1>5, <1>6, PutDataIs
    <3>. QED
      BY <3>1 DEF DataPut
  <2>3. e.n = d.n
    BY <2>2 DEF Edited
  <2> HIDE DEF e
  <2>4. Moves(s, e, phase, scan', cur', heap', KeysNow(o), live')
    BY <2>1, <1>3, <1>4, <1>8
  <2>5. Tables(e, s)
    BY <1>8 DEF e
  <2>. QED
    BY <2>3, <2>4, <2>5, <1>1, <1>2, <1>3, TransferSteps DEF Typed
<1>. QED
  BY <1>3, <1>7, <1>8

\* The entry that malloc gives.
LEMMA FirstUnusedIs ==
  ASSUME Unused # {}
  PROVE  FirstUnused \in Ids /\ FirstUnused \notin live
<1>1. Unused \in SUBSET Nat
  BY BoundAssumption DEF Unused, Ids
<1>2. \E e \in Unused : \A x \in Unused : e <= x
  <2> HIDE DEF Unused
  <2>. QED
    BY <1>1, LeastElement
<1>3. FirstUnused \in Unused
  BY <1>2 DEF FirstUnused
<1>. QED
  BY <1>3 DEF Unused

\* The entry that allocate_entry gives, and what is left of the free list.
Gets(b, o, x, y) ==
  /\ x \in Ids /\ y \in Links /\ nalloc' \in 0..(SizeRange - 1) /\ live \subseteq live'
  /\ \/ b.free # 0 /\ x = b.free /\ y = heap[x].next /\ live' = live
     \/ b.free = 0 /\ o[x] = Nowhere /\ y = 0 /\ live' = live \cup {x}

\* allocate_entry gives an entry that no list has.
LEMMA GetsEntry ==
  ASSUME NEW b, b.free \in Links, NEW o, Typed, live = LiveOf(o), NEW rec, NEW g, NEW own,
         Recycle(b, rec) \/ Allocate(b, g, own)
  PROVE  Gets(b, o, EntryOf(b), Rest(b))
<1>1. heap \in Heaps /\ nalloc \in 0..(SizeRange - 1)
  BY DEF Typed
<1>2. CASE Recycle(b, rec)
  <2>1. b.free # 0 /\ live' = live /\ nalloc' = nalloc
    BY <1>2 DEF Recycle
  <2>2. EntryOf(b) = b.free /\ Rest(b) = heap[b.free].next /\ b.free \in Ids
    BY <2>1, IdsLinks DEF EntryOf, Rest
  <2>3. heap[b.free].next \in Links
    BY <2>2, <1>1 DEF Heaps
  <2>. QED
    BY <2>1, <2>2, <2>3, <1>1 DEF Gets
<1>3. CASE Allocate(b, g, own)
  <2>1. b.free = 0 /\ Unused # {} /\ live' = live \cup {FirstUnused}
        /\ nalloc' = IF own THEN (nalloc + 1) % SizeRange ELSE nalloc
    BY <1>3 DEF Allocate
  <2>2. EntryOf(b) = FirstUnused /\ Rest(b) = 0
    BY <2>1 DEF EntryOf, Rest
  <2>3. FirstUnused \in Ids /\ FirstUnused \notin live
    BY <2>1, FirstUnusedIs
  <2>4. o[FirstUnused] = Nowhere
    BY <2>3 DEF LiveOf
  <2>5. nalloc' \in 0..(SizeRange - 1)
    <3>1. nalloc + 1 \in Nat /\ SizeRange \in Nat \ {0}
      BY <1>1, BoundAssumption
    <3>2. (nalloc + 1) % SizeRange \in 0..(SizeRange - 1)
      BY <3>1, DivModOf
    <3>. QED
      BY <3>2, <2>1, <1>1
  <2>. QED
    BY <2>1, <2>2, <2>3, <2>4, <2>5, EmptyBucket DEF Gets
<1>. QED
  BY <1>2, <1>3

\* The first pass of the undoing goes past a head.
LEMMA KeepHeadKeeps ==
  ASSUME NEW o, Inv(o), KeepHead
  PROVE  Reaches(KeysNow(o))
<1> DEFINE s == Src
           d == Dst
           t == [s EXCEPT !.bucket[scan].next = 0]
<1>1. pc = "transfer" /\ scan < s.n /\ cur = 0 /\ phase = "undo_safe"
  BY DEF KeepHead, HeadsOnly, Transferring
<1>2. Running(o, s, d) /\ Typed
  BY <1>1, TransferIs
<1>3. /\ Tables(d, t) /\ scan' = NextUsed(t, scan + 1)
      /\ cur' = IF scan' = t.n THEN 0 ELSE t.bucket[scan'].next
      /\ UNCHANGED <<tuning, entries, memory, pc, op, arg, phase, slot, ret>>
  BY DEF KeepHead, Cut, Advance
<1>4. cur' = NextAt(t, scan')
  BY <1>3 DEF NextAt
<1> HIDE DEF s, d
<1>5. Moving(s, d, "undo_safe", scan, 0, heap, o) /\ KeysOf(s, d, heap, o) = KeysNow(o)
      /\ LiveOf(o) = live
  BY <1>1, <1>2 DEF Running
<1>6. t.n = s.n
  OBVIOUS
<1> HIDE DEF t
<1>7. Moves(t, d, "undo_safe", scan', NextAt(t, scan'), heap, KeysOf(s, d, heap, o), LiveOf(o))
  BY <1>1, <1>3, <1>5, KeepsHead DEF t
<1>8. Moves(t, d, phase, scan', cur', heap', KeysNow(o), live')
  BY <1>1, <1>3, <1>4, <1>5, <1>7 DEF memory
<1>. QED
  BY <1>1, <1>2, <1>3, <1>6, <1>8, TransferSteps DEF Typed, memory

\* A head goes to the other table.
LEMMA MoveHeadKeeps ==
  ASSUME NEW o, Inv(o), MoveHead
  PROVE  Reaches(KeysNow(o))
<1> DEFINE s == Src
           d == Dst
           t == [s EXCEPT !.bucket[scan] = Empty, !.used = @ - 1]
           k == s.bucket[scan].data
           i == Home(d, k)
           b == d.bucket[i]
           rec == [data |-> k, next |-> b.next]
<1>1. pc = "transfer" /\ scan < s.n /\ cur = 0 /\ phase # "undo_safe"
  BY DEF MoveHead, HeadsOnly, Transferring
<1>2. Running(o, s, d) /\ Typed
  BY <1>1, TransferIs
<1>3. /\ scan' = NextUsed(t, scan + 1)
      /\ cur' = IF scan' = t.n THEN 0 ELSE t.bucket[scan'].next
      /\ UNCHANGED <<tuning, entries, pc, op, arg, phase, slot, ret>>
      /\ \/ /\ b.data = NoKey
            /\ Tables([d EXCEPT !.bucket[i].data = k, !.used = @ + 1], t)
            /\ UNCHANGED memory
         \/ /\ b.data # NoKey
            /\ Recycle(d, rec) \/ Allocate(d, rec, phase # "move")
            /\ Tables([d EXCEPT !.bucket[i].next = EntryOf(d), !.free = Rest(d)], t)
  BY DEF MoveHead, Moved, HeadKey, Advance
<1>4. cur' = NextAt(t, scan')
  BY <1>3 DEF NextAt
<1> HIDE DEF s, d
<1>5. Moving(s, d, phase, scan, 0, heap, o) /\ KeysOf(s, d, heap, o) = KeysNow(o)
      /\ LiveOf(o) = live
  BY <1>1, <1>2 DEF Running
<1>6. t.n = s.n
  OBVIOUS
<1>7. IsTable(d) /\ d.free \in Links /\ i \in 0..(d.n - 1) /\ k \in Keys
  <2>1. There(s, d, scan, 0, k, i, <<d.n, i>>, Firsts(s, d, d.free, <<s.n, scan>>, 0), HeadsOf(s, d))
    BY <1>1, <1>5, HeadTo
  <2>2. Here(s, d, scan, 0, <<s.n, scan>>, Firsts(s, d, d.free, <<s.n, scan>>, 0), HeadsOf(s, d))
    BY <1>1, <1>5, MovingAt
  <2>. QED
    BY <2>1, <2>2, <1>5 DEF Moving, There, Here, IsTable
<1> HIDE DEF t
<1>8. CASE /\ b.data = NoKey
           /\ Tables([d EXCEPT !.bucket[i].data = k, !.used = @ + 1], t)
           /\ UNCHANGED memory
  <2> DEFINE e == [d EXCEPT !.bucket[i].data = k, !.used = @ + 1]
  <2>1. e.n = d.n
    OBVIOUS
  <2> HIDE DEF e
  <2>2. Moves(t, e, phase, scan', NextAt(t, scan'), heap, KeysOf(s, d, heap, o), LiveOf(o))
    <3>1. HeadFills(s, d, scan, k, i, t, e)
      BY DEF HeadFills, t, e
    <3>. QED
      BY <1>1, <1>3, <1>5, <1>8, <3>1, MovesHead
  <2>3. Moves(t, e, phase, scan', cur', heap', KeysNow(o), live')
    BY <2>2, <1>4, <1>5, <1>8 DEF memory
  <2>4. Tables(e, t)
    BY <1>8 DEF e
  <2>. QED
    BY <2>1, <2>3, <2>4, <1>1, <1>2, <1>3, <1>6, <1>8, TransferSteps DEF Typed, memory
<1>9. CASE /\ b.data # NoKey
           /\ Recycle(d, rec) \/ Allocate(d, rec, phase # "move")
           /\ Tables([d EXCEPT !.bucket[i].next = EntryOf(d), !.free = Rest(d)], t)
  <2> DEFINE x == EntryOf(d)
             y == Rest(d)
             e == [d EXCEPT !.bucket[i].next = x, !.free = y]
             g == [heap EXCEPT ![x] = rec]
  <2>1. e.n = d.n
    OBVIOUS
  <2>2. Gets(d, o, x, y)
    BY <1>2, <1>5, <1>7, <1>9, GetsEntry
  <2>3. heap' = g
    BY <1>9 DEF Recycle, Allocate, EntryOf
  <2> HIDE DEF x, y
  <2>4. /\ x \in Ids /\ y \in Links /\ nalloc' \in 0..(SizeRange - 1) /\ live \subseteq live'
        /\ \/ d.free # 0 /\ x = d.free /\ y = heap[x].next /\ live' = LiveOf(o)
           \/ d.free = 0 /\ o[x] = Nowhere /\ y = 0 /\ live' = LiveOf(o) \cup {x}
    BY <2>2, <1>5 DEF Gets
  <2> HIDE DEF e, g
  <2>5. Moves(t, e, phase, scan', NextAt(t, scan'), g, KeysOf(s, d, heap, o), live')
    <3>1. /\ Moving(s, d, phase, scan, 0, heap, o) /\ scan < s.n /\ phase # "undo_safe"
          /\ d.bucket[i].data # NoKey /\ scan' = NextUsed(t, scan + 1)
      BY <1>1, <1>3, <1>5, <1>9
    <3>2. HeadChains(s, d, scan, k, i, heap, x, y, t, e, g)
      BY DEF HeadChains, t, e, g
    <3>3. k = s.bucket[scan].data /\ i = Home(d, k)
      OBVIOUS
    <3>4. x \in Ids /\ y \in Links /\ Supplied(d, heap, o, x, y, live')
      BY <2>4 DEF Supplied
    <3> HIDE DEF k, i
    <3>. QED
      BY <3>1, <3>2, <3>3, <3>4, MovesHeadIn
  <2>6. Moves(t, e, phase, scan', cur', heap', KeysNow(o), live')
    BY <2>3, <2>5, <1>4, <1>5
  <2>7. Tables(e, t)
    BY <1>9 DEF e, x, y
  <2>. QED
    BY <2>1, <2>4, <2>6, <2>7, <1>1, <1>2, <1>3, <1>6, TransferSteps
<1>. QED
  BY <1>3, <1>8, <1>9

\* Where there is no memory the transfer turns back; on the way back none is needed.
LEMMA TurnBackKeeps ==
  ASSUME NEW o, Inv(o), HeadFails
  PROVE  Reaches(KeysNow(o))
<1> DEFINE s == Src
           d == Dst
           k == s.bucket[scan].data
<1>1. /\ pc = "transfer" /\ scan < s.n /\ cur = 0 /\ phase # "undo_safe"
      /\ d.bucket[Home(d, k)].data # NoKey /\ d.free = 0
  BY DEF HeadFails, HeadsOnly, Transferring, HeadKey
<1>2. Running(o, s, d) /\ Typed
  BY <1>1, TransferIs
<1>3. /\ UNCHANGED <<tuning, new, entries, memory, op, arg, slot, ret>>
      /\ \/ /\ phase = "move" /\ old' = [[s EXCEPT !.bucket[scan].next = 0] EXCEPT !.free = new.free]
            /\ phase' = "undo_safe" /\ scan' = NextUsed(new, 0)
            /\ cur' = IF scan' = new.n THEN 0 ELSE new.bucket[scan'].next
            /\ UNCHANGED pc
         \/ phase = "undo"
  BY DEF HeadFails, Cut
<1> HIDE DEF s, d
<1>4. Moving(s, d, phase, scan, 0, heap, o) /\ KeysOf(s, d, heap, o) = KeysNow(o)
      /\ LiveOf(o) = live /\ Enough(old.n, KeysNow(o), live)
  BY <1>1, <1>2 DEF Running
<1>5. phase # "undo"
  <2> SUFFICES ASSUME phase = "undo" PROVE FALSE
    OBVIOUS
  <2>1. Moving(s, d, "undo", scan, 0, heap, o) /\ Enough(d.n, KeysOf(s, d, heap, o), LiveOf(o))
    BY <1>2, <1>4 DEF Running
  <2>2. d.free # 0
    BY <2>1, <1>1, UndoNeedsNone
  <2>. QED
    BY <2>2, <1>1
<1>6. /\ phase = "move" /\ s = old /\ d = new /\ phase' = "undo_safe" /\ pc' = pc
      /\ old' = [[old EXCEPT !.bucket[scan].next = 0] EXCEPT !.free = new.free]
      /\ scan' = NextUsed(new, 0) /\ cur' = NextAt(new, scan')
  BY <1>2, <1>3, <1>5 DEF Running, NextAt
<1> DEFINE r == [data |-> old.bucket[scan].data, next |-> 0]
<1>7. IsTable(old) /\ scan \in 0..(old.n - 1) /\ new.free \in Links
  <2>1. Here(s, d, scan, 0, <<s.n, scan>>, Firsts(s, d, d.free, <<s.n, scan>>, 0), HeadsOf(s, d))
    BY <1>1, <1>4, MovingAt
  <2>. QED
    BY <2>1, <1>4, <1>6 DEF Moving, Here
<1>8. old' = Edited(old, scan, r, old.used, new.free)
  <2>1. [old EXCEPT !.bucket[scan].next = 0] = Edited(old, scan, r, old.used, old.free)
    BY <1>7, EmptyBucket, PutNextIs
  <2>. QED
    BY <2>1, <1>6 DEF Edited
<1> HIDE DEF r
<1>9. /\ Moving(new, old', "undo_safe", scan', NextAt(new, scan'), heap, o)
      /\ KeysOf(new, old', heap, o) = KeysOf(old, new, heap, o) /\ old'.n = old.n
  <2>1. Moving(old, new, "move", scan, 0, heap, o) /\ scan < old.n
    BY <1>1, <1>4, <1>6
  <2>. QED
    BY <2>1, <1>6, <1>8, TurnsBack DEF r
<1>10. Moves(new, old', "undo_safe", scan', cur', heap', KeysNow(o), live')
  BY <1>3, <1>4, <1>6, <1>9 DEF Moves, memory
<1>11. Enough(old.n, KeysNow(o), live') /\ nalloc' \in 0..(SizeRange - 1)
       /\ UNCHANGED <<tuning, entries, op, arg, slot, ret, pc>> /\ new' = new
  BY <1>2, <1>3, <1>4, <1>6 DEF memory, Typed
<1>. QED
  BY <1>1, <1>6, <1>9, <1>10, <1>11, TransferMoves

\* At the end of a pass.
LEMMA DoneKeeps ==
  ASSUME NEW o, Inv(o), TransferDone
  PROVE  Reaches(KeysNow(o))
<1>1. /\ pc = "transfer" /\ scan = Src.n
      /\ UNCHANGED <<tuning, entries, memory, op, arg, slot, ret>>
  BY DEF TransferDone
<1>2. Running(o, Src, Dst) /\ Typed /\ Called /\ arg \notin KeysNow(o)
  BY <1>1, TransferIs
<1>3. Moving(Src, Dst, phase, Src.n, cur, heap, o) /\ KeysOf(Src, Dst, heap, o) = KeysNow(o)
      /\ LiveOf(o) = live /\ Enough(old.n, KeysNow(o), live) /\ entries = Cardinality(KeysNow(o))
  BY <1>1, <1>2 DEF Running
<1>4. CASE phase = "undo_safe"
  <2>1. /\ phase' = "undo" /\ scan' = NextUsed(new, 0) /\ cur' = NextAt(new, scan')
        /\ UNCHANGED <<old, new, pc>> /\ Src = new /\ Dst = old
    BY <1>4 DEF TransferDone, NextAt, Src, Dst
  <2>2. Moving(new, old, "undo_safe", new.n, cur, heap, o) /\ KeysOf(new, old, heap, o) = KeysNow(o)
    BY <2>1, <1>3, <1>4
  <2>3. Moving(new, old, "undo", scan', NextAt(new, scan'), heap, o)
    BY <2>1, <2>2, StartsAgain
  <2>4. Moves(new, old, "undo", scan', cur', heap', KeysNow(o), live')
    BY <2>1, <2>2, <2>3, <1>1, <1>3 DEF Moves, memory
  <2>5. Enough(old.n, KeysNow(o), live') /\ nalloc' \in 0..(SizeRange - 1)
    BY <1>1, <1>2, <1>3 DEF memory, Typed
  <2>. QED
    BY <2>1, <2>4, <2>5, <1>1, TransferMoves
<1>5. CASE phase # "undo_safe"
  <2>1. /\ old' = Dst /\ new' = NoTable /\ pc' \in {"rehashed", "refused"} /\ cur' = 0
    BY <1>5 DEF TransferDone, Src, Dst
  <2>2. Resting(Dst, heap, o, 0) /\ Counted(Dst) /\ RestKeys(Dst, heap, o) = KeysNow(o)
    BY <1>3, <1>5, EndsMoving
  <2>3. KeysNow(o)' = KeysNow(o)
    BY <2>1, <2>2, <1>1, RestKeysAre DEF KeysNow, memory
  <2>4. AtRest(old', new', heap', live', entries', o)
    BY <2>1, <2>2, <1>1, <1>3 DEF AtRest, memory
  <2>5. Shape(o)'
    BY <2>1, <2>4 DEF Shape, Still
  <2>6. Typed'
    BY <2>1, <1>1, <1>2, EmptyBucket DEF Typed, memory
  <2>7. Called' /\ Absent(o)' /\ (pc \in Points)'
    BY <2>1, <2>3, <1>1, <1>2 DEF Called, Absent, Points, Still
  <2>. QED
    BY <2>3, <2>5, <2>6, <2>7 DEF Inv, Reaches
<1>. QED
  BY <1>4, <1>5

\* Every step of the transfer keeps the keys.
LEMMA TransferKeeps ==
  ASSUME NEW o, Inv(o), Transfer
  PROVE  Reaches(KeysNow(o))
BY OverflowKeeps, KeepHeadKeeps, MoveHeadKeeps, TurnBackKeeps, DoneKeeps DEF Transfer

\* hash_insert makes the place of the entry.
LEMMA LinkKeeps ==
  ASSUME NEW o, Inv(o), Link
  PROVE  Reaches(KeysNow(o))
<1> DEFINE i == Home(old, arg)
           b == old.bucket[i]
           ks == RestKeys(old, heap, o)
<1>1. /\ AtRest(old, new, heap, live, entries, o) /\ Typed /\ pc = "link" /\ op = "insert"
      /\ arg \in Keys /\ arg \notin KeysNow(o)
  BY DEF Inv, Shape, Still, Link, Called, Absent
<1>2. /\ Resting(old, heap, o, 0) /\ Counted(old) /\ live = LiveOf(o) /\ new = NoTable
      /\ entries = Cardinality(ks)
  BY <1>1 DEF AtRest
<1>3. KeysNow(o) = ks
  BY <1>2, RestKeysAre DEF KeysNow
<1>4. /\ IsTable(old) /\ i \in 0..(old.n - 1) /\ old.free \in Links
  <2>1. KeyAt(old, heap, o, 0, arg, <<old.n, i>>, Lists(old), HeadsOf(old, NoTable))
    BY <1>1, <1>2, KeyPlace
  <2>. QED
    BY <2>1 DEF KeyAt, RestHere
<1>5. /\ entries' = entries + 1 /\ pc' = "store"
      /\ UNCHANGED <<tuning, new, op, arg, phase, scan, cur, ret>>
      /\ \/ /\ b.data = NoKey /\ old' = [old EXCEPT !.used = @ + 1] /\ slot' = 0
            /\ UNCHANGED memory
         \/ /\ b.data # NoKey
            /\ \/ Recycle(old, [data |-> NoKey, next |-> b.next])
               \/ Allocate(old, [data |-> Junk, next |-> b.next], TRUE)
            /\ old' = [old EXCEPT !.bucket[i].next = EntryOf(old), !.free = Rest(old)]
            /\ slot' = EntryOf(old)
  BY DEF Link
<1> HIDE DEF ks
<1>6. CASE /\ b.data = NoKey /\ old' = [old EXCEPT !.used = @ + 1] /\ slot' = 0
           /\ UNCHANGED memory
  <2> DEFINE us == old.used + 1
  <2>1. old' = [old EXCEPT !.used = us]
    BY <1>6
  <2>2. /\ IsTable(old') /\ old'.n = old.n /\ old'.used = us
        /\ old'.bucket = old.bucket /\ old'.free = old.free
    <3> DEFINE e == [old EXCEPT !.used = us]
    <3> HIDE DEF us
    <3>1. IsTable(e) /\ e.n = old.n /\ e.used = us /\ e.bucket = old.bucket /\ e.free = old.free
      BY <1>4, PutUsedIs
    <3>2. old' = e
      BY <2>1
    <3> HIDE DEF e
    <3>. QED
      BY <3>1, <3>2
  <2>3. Resting(old', heap, o, 0) /\ RestKeys(old', heap, o) = ks
    BY <2>2, <1>2, RestCounter DEF ks
  <2>4. old'.used = Cardinality(UsedBuckets(old')) + 1
    BY <2>2, <1>2, CountSame DEF Counted
  <2>5. old'.bucket[Home(old', arg)].data = NoKey
    BY <2>2, <1>6 DEF Home
  <2>6. KeysNow(o)' = ks
    BY <2>3, <1>2, <1>5, <1>6, RestKeysAre DEF KeysNow, memory
  <2>7. Storing(old', new', heap', live', entries', slot', arg', o)
    BY <2>3, <2>4, <2>5, <1>2, <1>5, <1>6 DEF Storing, memory
  <2>8. Shape(o)'
    BY <2>7, <1>5 DEF Shape, Still
  <2>9. Typed'
    BY <1>1, <1>5, <1>6, EmptyBucket DEF Typed, memory
  <2>10. Called' /\ Absent(o)' /\ (pc \in Points)'
    BY <2>6, <1>1, <1>3, <1>5 DEF Called, Absent, Points
  <2>. QED
    BY <2>6, <2>8, <2>9, <2>10, <1>3 DEF Inv, Reaches
<1>7. CASE /\ b.data # NoKey
           /\ \/ Recycle(old, [data |-> NoKey, next |-> b.next])
              \/ Allocate(old, [data |-> Junk, next |-> b.next], TRUE)
           /\ old' = [old EXCEPT !.bucket[i].next = EntryOf(old), !.free = Rest(old)]
           /\ slot' = EntryOf(old)
  <2> DEFINE x == EntryOf(old)
             y == Rest(old)
             e == [old EXCEPT !.bucket[i].next = x, !.free = y]
  <2>1. Gets(old, o, x, y)
    BY <1>1, <1>2, <1>4, <1>7, GetsEntry
  <2>2. PICK v \in {NoKey, Junk} : heap' = [heap EXCEPT ![x] = [data |-> v, next |-> b.next]]
    BY <1>7 DEF Recycle, Allocate, EntryOf
  <2> DEFINE g == [heap EXCEPT ![x] = [data |-> v, next |-> b.next]]
  <2> HIDE DEF x, y
  <2>3. /\ x \in Ids /\ y \in Links /\ nalloc' \in 0..(SizeRange - 1)
        /\ \/ old.free # 0 /\ x = old.free /\ y = heap[x].next /\ live' = LiveOf(o)
           \/ old.free = 0 /\ o[x] = Nowhere /\ y = 0 /\ live' = LiveOf(o) \cup {x}
    BY <2>1, <1>2 DEF Gets
  <2> HIDE DEF e, g
  <2>4. Linked(e, g, x, <<old.n, i>>, RestKeys(old, heap, o), live', old.n)
    <3>1. old.bucket[i].data # NoKey /\ i \in 0..(old.n - 1)
      BY <1>4, <1>7
    <3>2. e = [old EXCEPT !.bucket[i].next = x, !.free = y]
          /\ g = [heap EXCEPT ![x] = [data |-> v, next |-> old.bucket[i].next]]
      BY DEF e, g
    <3> HIDE DEF i
    <3>. QED
      <4>1. /\ Resting(old, heap, o, 0) /\ Counted(old) /\ x \in Ids /\ y \in Links
            /\ i \in 0..(old.n - 1) /\ old.bucket[i].data # NoKey
            /\ \/ old.free # 0 /\ x = old.free /\ y = heap[x].next /\ live' = LiveOf(o)
               \/ old.free = 0 /\ o[x] = Nowhere /\ y = 0 /\ live' = LiveOf(o) \cup {x}
        BY <3>1, <2>3, <1>2
      <4>. QED
        BY <4>1, LinksIn DEF e, g
  <2>5. old' = e /\ heap' = g /\ slot' = x /\ x # 0 /\ x \in Links
    BY <2>2, <2>3, <1>7, NotIds, IdsLinks DEF e, g, x, y
  <2>6. PICK u : /\ Resting(old', heap', u, slot') /\ RestKeys(old', heap', u) = ks
                 /\ LiveOf(u) = live' /\ u[slot'] = <<old.n, i>>
    BY <2>4, <2>5 DEF Linked, Rests, ks
  <2>7. Home(old', arg') = i /\ old'.n = old.n /\ Counted(old')
    BY <2>4, <2>5, <1>5 DEF Home, Linked
  <2>8. KeysNow(u)' = ks
    BY <2>6, <1>2, <1>5, RestKeysAre DEF KeysNow
  <2>9. Storing(old', new', heap', live', entries', slot', arg', u)
    BY <2>5, <2>6, <2>7, <1>2, <1>5 DEF Storing
  <2>10. Shape(u)'
    BY <2>9, <1>5 DEF Shape, Still
  <2>11. heap' \in Heaps /\ live' \in SUBSET Ids
    BY <2>6 DEF Resting, LiveOf
  <2>12. Typed'
    BY <2>3, <2>5, <2>11, <1>1, <1>5 DEF Typed
  <2>13. Called' /\ Absent(u)' /\ (pc \in Points)'
    BY <2>8, <1>1, <1>3, <1>5 DEF Called, Absent, Points
  <2>. QED
    BY <2>8, <2>10, <2>12, <2>13, <1>3 DEF Inv, Reaches
<1>. QED
  BY <1>5, <1>6, <1>7

\* One key more.
LEMMA CountAdd ==
  ASSUME NEW ks \in SUBSET Keys, NEW k \in Keys, k \notin ks
  PROVE  Cardinality(ks \cup {k}) = Cardinality(ks) + 1
BY FiniteKeys, FS_AddElement

\* The keys of a table are keys.
LEMMA RestKeysIn == \A t, h, o : RestKeys(t, h, o) \in SUBSET Keys
BY DEF RestKeys, KeysIn

\* The node is stored where hash_insert said.
LEMMA StoreKeeps ==
  ASSUME NEW o, Inv(o), Store
  PROVE  Reaches(KeysNow(o) \cup {arg}) /\ arg \notin KeysNow(o)
<1> DEFINE i == Home(old, arg)
           ks == RestKeys(old, heap, o)
<1>1. /\ Storing(old, new, heap, live, entries, slot, arg, o) /\ Typed /\ pc = "store"
      /\ arg \in Keys /\ arg \notin KeysNow(o)
  BY DEF Inv, Shape, Store, Called, Absent
<1>2. /\ live = LiveOf(o) /\ new = NoTable /\ entries = Cardinality(ks) + 1
  BY <1>1 DEF Storing
<1>3. KeysNow(o) = ks
  BY <1>2, RestKeysAre DEF KeysNow
<1>4. /\ slot' = 0 /\ pc' = "idle" /\ op' = "none" /\ arg' = NoKey
      /\ ret' = [found |-> FALSE, node |-> arg]
      /\ UNCHANGED <<tuning, new, entries, live, nalloc, phase, scan, cur>>
      /\ \/ slot = 0 /\ old' = [old EXCEPT !.bucket[i].data = arg] /\ heap' = heap
         \/ slot # 0 /\ heap' = [heap EXCEPT ![slot].data = arg] /\ old' = old
  BY DEF Store, Return
<1>5. Cardinality(ks \cup {arg}) = entries
  BY <1>1, <1>2, <1>3, RestKeysIn, CountAdd
<1> HIDE DEF ks
<1>6. /\ Resting(old', heap', o, 0) /\ Counted(old')
      /\ RestKeys(old', heap', o) = ks \cup {arg}
  <2>1. CASE slot = 0 /\ old' = [old EXCEPT !.bucket[i].data = arg] /\ heap' = heap
    <3>1. /\ Resting(old, heap, o, 0) /\ old.used = Cardinality(UsedBuckets(old)) + 1
          /\ old.bucket[i].data = NoKey
      BY <2>1, <1>1 DEF Storing
    <3>2. i \in 0..(old.n - 1)
      <4>1. KeyAt(old, heap, o, 0, arg, <<old.n, i>>, Lists(old), HeadsOf(old, NoTable))
        BY <3>1, <1>1, KeyPlace
      <4>. QED
        BY <4>1 DEF KeyAt
    <3> HIDE DEF i
    <3>3. i = Home(old, arg) /\ arg \notin RestKeys(old, heap, o)
      BY <1>1, <1>3 DEF i, ks
    <3>. QED
      BY <3>1, <3>2, <3>3, <2>1, <1>1, StoresHead DEF ks
  <2>2. CASE slot # 0 /\ heap' = [heap EXCEPT ![slot].data = arg] /\ old' = old
    <3>1. Resting(old, heap, o, slot) /\ Counted(old) /\ o[slot] = <<old.n, i>>
      BY <2>2, <1>1 DEF Storing
    <3>2. AtHome(o[slot], arg)
      <4>1. KeyAt(old, heap, o, slot, arg, <<old.n, i>>, Lists(old), HeadsOf(old, NoTable))
        BY <3>1, <1>1, KeyPlace
      <4>. QED
        BY <4>1, <3>1 DEF KeyAt
    <3>3. heap \in Heaps /\ slot \in Ids
      BY <2>2, <1>1, IdsLinks DEF Typed
    <3>4. heap' = [heap EXCEPT ![slot] = [data |-> arg, next |-> heap[slot].next]]
      <4>1. heap[slot] = [data |-> heap[slot].data, next |-> heap[slot].next]
        BY <3>3 DEF Heaps
      <4>2. [heap[slot] EXCEPT !.data = arg] = [data |-> arg, next |-> heap[slot].next]
        BY <4>1
      <4>. QED
        BY <4>2, <2>2
    <3>5. arg \notin RestKeys(old, heap, o)
      BY <1>1, <1>3 DEF ks
    <3>6. Resting(old, heap', o, 0) /\ RestKeys(old, heap', o) = RestKeys(old, heap, o) \cup {arg}
      <4> DEFINE g == [heap EXCEPT ![slot] = [data |-> arg, next |-> heap[slot].next]]
      <4>1. Filled(old, g, o, RestKeys(old, heap, o) \cup {arg})
        <5>1. /\ Resting(old, heap, o, slot) /\ slot # 0 /\ arg \in Keys
              /\ arg \notin RestKeys(old, heap, o) /\ AtHome(o[slot], arg)
          BY <3>1, <3>2, <3>5, <2>2, <1>1
        <5>. QED
          BY <5>1, StoresIn
      <4>2. heap' = g
        BY <3>4
      <4> HIDE DEF g
      <4>. QED
        BY <4>1, <4>2 DEF Filled
    <3>. QED
      BY <3>1, <3>6, <2>2 DEF ks
  <2>. QED
    BY <2>1, <2>2, <1>4
<1>7. KeysNow(o)' = ks \cup {arg}
  BY <1>2, <1>4, <1>6, RestKeysAre DEF KeysNow
<1>8. AtRest(old', new', heap', live', entries', o)
  BY <1>2, <1>4, <1>5, <1>6 DEF AtRest
<1>9. Shape(o)'
  BY <1>8, <1>4 DEF Shape, Still
<1>10. Typed'
  <2>1. heap' \in Heaps /\ ret' \in Results
    BY <1>1, <1>4, <1>6 DEF Resting, Results
  <2>. QED
    BY <2>1, <1>1, <1>4, EmptyBucket DEF Typed
<1>11. Called' /\ Absent(o)' /\ (pc \in Points)'
  BY <1>4 DEF Called, Absent, Points, Still
<1>. QED
  BY <1>1, <1>3, <1>7, <1>9, <1>10, <1>11 DEF Inv, Reaches

\* The pool has no memory for the node.
LEMMA NodeFailsKeeps ==
  ASSUME NEW o, Inv(o), NodeFails
  PROVE  Reaches(KeysNow(o))
<1>1. /\ Storing(old, new, heap, live, entries, slot, arg, o) /\ Typed /\ pc = "store"
      /\ arg \in Keys /\ op = "insert" /\ arg \notin KeysNow(o)
  BY DEF Inv, Shape, NodeFails, Called, Absent
<1>2. pc' = "exit" /\ UNCHANGED <<tuning, old, new, entries, memory, op, arg, local, ret>>
  BY DEF NodeFails
<1>3. KeysNow(o)' = KeysNow(o)
  BY <1>2 DEF KeysNow, memory
<1>4. Storing(old', new', heap', live', entries', slot', arg', o)
  BY <1>1, <1>2 DEF memory, local
<1>5. Shape(o)'
  BY <1>2, <1>4 DEF Shape, Still
<1>6. Typed' /\ Called' /\ Absent(o)' /\ (pc \in Points)'
  BY <1>1, <1>2, <1>3 DEF Typed, Called, Absent, Points, memory, local
<1>. QED
  BY <1>3, <1>5, <1>6 DEF Inv, Reaches

\* The remainder of any integer.
LEMMA RemainderIs ==
  ASSUME NEW a \in Int, NEW n \in Nat \ {0}
  PROVE  a % n \in 0..(n - 1)
BY SMT

\* One key less.
LEMMA CountTake ==
  ASSUME NEW ks \in SUBSET Keys, NEW k \in ks
  PROVE  Cardinality(ks \ {k}) = Cardinality(ks) - 1
<1>1. IsFiniteSet(ks)
  BY FiniteKeys
<1>. QED
  BY <1>1, FS_RemoveElement

\* hash_delete returns, with the entry in the free list.
LEMMA DeleteEnds ==
  ASSUME NEW o, Inv(o), pc = "find", arg \in Keys,
         Without(old', heap', arg, RestKeys(old, heap, o), live), Counted(old'),
         entries' = entries - 1, pc' = "idle", op' = "none", arg' = NoKey, ret' \in Results,
         UNCHANGED <<tuning, new, live, nalloc, cur, slot>>
  PROVE  Reaches(KeysNow(o) \ {arg}) /\ arg \in KeysNow(o)
<1> DEFINE ks == RestKeys(old, heap, o)
<1>1. AtRest(old, new, heap, live, entries, o) /\ Typed
  BY DEF Inv, Shape, Still
<1>2. new = NoTable /\ entries = Cardinality(ks)
  BY <1>1 DEF AtRest
<1>3. KeysNow(o) = ks
  BY <1>2, RestKeysAre DEF KeysNow
<1>4. PICK u : /\ Resting(old', heap', u, 0) /\ RestKeys(old', heap', u) = ks \ {arg}
               /\ LiveOf(u) = live
  BY DEF Without, Rests
<1>5. arg \in ks
  BY DEF Without
<1>6. Cardinality(ks \ {arg}) = entries - 1
  BY <1>2, <1>5, RestKeysIn, CountTake
<1> HIDE DEF ks
<1>7. AtRest(old', new', heap', live', entries', u)
  BY <1>2, <1>4, <1>6 DEF AtRest
<1>8. KeysNow(u)' = ks \ {arg}
  BY <1>2, <1>4, RestKeysAre DEF KeysNow
<1>9. Shape(u)'
  BY <1>7 DEF Shape, Still
<1>10. Typed'
  BY <1>1, <1>4 DEF Typed, Resting
<1>11. Called' /\ Absent(u)' /\ (pc \in Points)'
  BY DEF Called, Absent, Points, Still
<1>. QED
  BY <1>3, <1>5, <1>8, <1>9, <1>10, <1>11 DEF Inv, Reaches

\* What hash_delete begins with.
LEMMA DeleteBegins ==
  ASSUME NEW o, Inv(o), pc = "find", op = "delete"
  PROVE  /\ Resting(old, heap, o, 0) /\ Counted(old) /\ live = LiveOf(o) /\ new = NoTable
         /\ entries = Cardinality(RestKeys(old, heap, o)) /\ Typed /\ arg \in Keys
         /\ KeyAt(old, heap, o, 0, arg, <<old.n, Home(old, arg)>>, Lists(old), HeadsOf(old, NoTable))
         /\ KeysNow(o) = RestKeys(old, heap, o)
<1>1. AtRest(old, new, heap, live, entries, o) /\ Typed /\ arg \in Keys
  BY DEF Inv, Shape, Still, Called
<1>2. /\ Resting(old, heap, o, 0) /\ Counted(old) /\ live = LiveOf(o) /\ new = NoTable
      /\ entries = Cardinality(RestKeys(old, heap, o))
  BY <1>1 DEF AtRest
<1>3. KeyAt(old, heap, o, 0, arg, <<old.n, Home(old, arg)>>, Lists(old), HeadsOf(old, NoTable))
  BY <1>1, <1>2, KeyPlace
<1>. QED
  BY <1>1, <1>2, <1>3, RestKeysAre DEF KeysNow

\* The only entry of a bucket is taken out; the table may then shrink.
LEMMA DeleteAloneKeeps ==
  ASSUME NEW o, Inv(o), DeleteAlone
  PROVE  Reaches(KeysNow(o) \ {arg}) /\ arg \in KeysNow(o)
<1> DEFINE i == Home(old, arg)
           t == [old EXCEPT !.bucket[i].data = NoKey, !.used = @ - 1]
           ks == RestKeys(old, heap, o)
<1>1. /\ pc = "find" /\ op = "delete" /\ old.bucket[i].data = arg /\ old.bucket[i].next = 0
      /\ entries' = entries - 1 /\ UNCHANGED <<tuning, memory, slot>> /\ old' = t
      /\ \/ StartRehash(t, ShrunkCandidate(t.n, tuning)) /\ UNCHANGED <<op, arg, ret>>
         \/ Return(FALSE, arg) /\ UNCHANGED <<new, phase, scan, cur>>
  BY DEF DeleteAlone, HomeOfArg
<1>2. /\ Resting(old, heap, o, 0) /\ Counted(old) /\ live = LiveOf(o) /\ new = NoTable
      /\ entries = Cardinality(ks) /\ Typed /\ arg \in Keys /\ KeysNow(o) = ks
  BY <1>1, DeleteBegins
<1>3. i \in 0..(old.n - 1)
  <2>1. KeyAt(old, heap, o, 0, arg, <<old.n, i>>, Lists(old), HeadsOf(old, NoTable))
    BY <1>1, DeleteBegins
  <2>. QED
    BY <2>1 DEF KeyAt
<1>4. Emptied(old, t, heap, o, arg)
  <2> HIDE DEF i
  <2>. QED
    BY <1>1, <1>2, <1>3, DeletesAlone
<1> HIDE DEF t, i
<1>5. /\ Resting(t, heap, o, 0) /\ RestKeys(t, heap, o) = ks \ {arg} /\ Counted(t)
      /\ t.n = old.n /\ arg \in ks
  BY <1>4 DEF Emptied, Filled
<1> HIDE DEF ks
<1>6. entries' = Cardinality(ks \ {arg})
  BY <1>1, <1>2, <1>5, RestKeysIn, CountTake DEF ks
<1>7. CASE StartRehash(t, ShrunkCandidate(t.n, tuning)) /\ UNCHANGED <<op, arg, ret>>
  <2> DEFINE c == ShrunkCandidate(t.n, tuning)
  <2>1. c \in Nat
    <3>1. t.n \in Nat /\ tuning \in Tuning
      BY <1>2, <1>5, SizeFacts, TuningAssumption DEF Resting, Typed
    <3>. QED
      BY <3>1, CandidateIs
  <2>2. StartRehash(t, c)
    BY <1>7
  <2> HIDE DEF c
  <2>3. pc' \in {"rehashed", "refused", "transfer"}
    BY <2>2 DEF StartRehash
  <2>4. Called' /\ ret' \in Results
    BY <1>1, <1>2, <1>7, <2>3 DEF Called, Typed
  <2>5. arg' \notin RestKeys(t, heap, o)
    BY <1>5, <1>7
  <2>6. entries' = Cardinality(RestKeys(t, heap, o))
    BY <1>5, <1>6
  <2>7. Reaches(RestKeys(t, heap, o))
    BY <2>1, <2>2, <2>4, <2>5, <2>6, <1>1, <1>2, <1>5, RehashStarts
  <2>. QED
    BY <2>7, <1>2, <1>5
<1>8. CASE Return(FALSE, arg) /\ UNCHANGED <<new, phase, scan, cur>>
  <2>1. Without(old', heap', arg, RestKeys(old, heap, o), live)
    <3>1. Resting(t, heap, o, 0) /\ RestKeys(t, heap, o) = RestKeys(old, heap, o) \ {arg}
          /\ LiveOf(o) = live /\ arg \in RestKeys(old, heap, o)
      BY <1>2, <1>5 DEF ks
    <3>2. Without(t, heap, arg, RestKeys(old, heap, o), live)
      BY <3>1 DEF Without, Rests
    <3>. QED
      BY <3>2, <1>1 DEF memory
  <2>2. ret' \in Results
    BY <1>2, <1>8 DEF Return, Results
  <2>3. Counted(old')
    BY <1>1, <1>5
  <2>. QED
    BY <2>1, <2>2, <2>3, <1>1, <1>2, <1>8, DeleteEnds DEF Return, memory
<1>. QED
  BY <1>1, <1>7, <1>8

\* A head is taken out, and the first overflow entry takes its place.
LEMMA DeleteHeadKeeps ==
  ASSUME NEW o, Inv(o), DeleteHead
  PROVE  Reaches(KeysNow(o) \ {arg}) /\ arg \in KeysNow(o)
<1> DEFINE i == Home(old, arg)
           y == old.bucket[i].next
           t == [old EXCEPT !.bucket[i] = heap[y], !.free = y]
           g == [heap EXCEPT ![y] = [data |-> NoKey, next |-> old.free]]
<1>1. /\ pc = "find" /\ op = "delete" /\ old.bucket[i].data = arg /\ y # 0
      /\ old' = t /\ heap' = g /\ entries' = entries - 1 /\ Return(FALSE, arg)
      /\ UNCHANGED <<tuning, new, live, nalloc, cur, slot>>
  BY DEF DeleteHead, HomeOfArg, Freed, local
<1>2. /\ Resting(old, heap, o, 0) /\ Counted(old) /\ live = LiveOf(o) /\ arg \in Keys
  BY <1>1, DeleteBegins
<1>3. i \in 0..(old.n - 1)
  <2>1. KeyAt(old, heap, o, 0, arg, <<old.n, i>>, Lists(old), HeadsOf(old, NoTable))
    BY <1>1, DeleteBegins
  <2>. QED
    BY <2>1 DEF KeyAt
<1>4. Taken(t, g, arg, RestKeys(old, heap, o), LiveOf(o), old.n)
  <2> HIDE DEF i
  <2>. QED
    <3>1. HeadReplaced(old, heap, i, y, heap[y], t, g)
      BY DEF HeadReplaced
    <3>. QED
      BY <1>1, <1>2, <1>3, <3>1, DeletesHead
<1> HIDE DEF t, g
<1>5. Without(old', heap', arg, RestKeys(old, heap, o), live) /\ Counted(old')
  BY <1>1, <1>2, <1>4 DEF Taken
<1>6. ret' \in Results
  BY <1>1, <1>2 DEF Return, Results
<1>. QED
  BY <1>1, <1>2, <1>5, <1>6, DeleteEnds DEF Return

\* An overflow entry is taken out of its chain.
LEMMA DeleteOverflowKeeps ==
  ASSUME NEW o, Inv(o), DeleteOverflow
  PROVE  Reaches(KeysNow(o) \ {arg}) /\ arg \in KeysNow(o)
<1> DEFINE i == Home(old, arg)
           ids == IdsFrom(old.bucket[i].next)
           q == <<old.n, i>>
           F == Lists(old)
<1>1. /\ pc = "find" /\ op = "delete" /\ entries' = entries - 1 /\ Return(FALSE, NoKey)
      /\ UNCHANGED <<tuning, new, live, nalloc, cur, slot>>
  BY DEF DeleteOverflow, local
<1>2. PICK j \in DOMAIN ids :
        /\ heap[ids[j]].data = arg
        /\ \/ /\ j = 1
              /\ old' = [old EXCEPT !.bucket[i].next = heap[ids[j]].next, !.free = ids[j]]
              /\ heap' = [heap EXCEPT ![ids[j]] = [data |-> NoKey, next |-> old.free]]
           \/ /\ j > 1
              /\ old' = [old EXCEPT !.free = ids[j]]
              /\ heap' = [[heap EXCEPT ![ids[j]] = [data |-> NoKey, next |-> old.free]]
                            EXCEPT ![ids[j - 1]].next = heap[ids[j]].next]
  BY DEF DeleteOverflow, HomeOfArg, Freed
<1>3. /\ Resting(old, heap, o, 0) /\ Counted(old) /\ live = LiveOf(o) /\ arg \in Keys /\ Typed
  BY <1>1, DeleteBegins
<1>4. RestHere(old, heap, o, 0, i, q, F, HeadsOf(old, NoTable)) /\ i \in 0..(old.n - 1)
  <2>1. KeyAt(old, heap, o, 0, arg, q, F, HeadsOf(old, NoTable))
    BY <1>1, DeleteBegins
  <2>. QED
    BY <2>1 DEF KeyAt
<1> HIDE DEF i
<1>5. /\ heap \in Heaps /\ Ranked(F, NextOf(heap), o) /\ q \in Place \ {Nowhere} /\ Bucketed(q)
      /\ F[q] = old.bucket[i].next /\ IsTable(old) /\ old.free \in Links
  BY <1>4 DEF RestHere
<1>6. Listing(ids, F, NextOf(heap), o, q)
  <2> HIDE DEF F, q
  <2>1. Listing(IdsFrom(F[q]), F, NextOf(heap), o, q)
    BY <1>5, Enumerates
  <2>. QED
    BY <2>1, <1>5
<1> HIDE DEF ids, F, q
<1> DEFINE y == ids[j]
           v == heap[y].next
           f == [heap EXCEPT ![y] = [data |-> NoKey, next |-> old.free]]
<1>7. y \in Ids /\ o[y] = q /\ y # 0 /\ y \in Links
  <2>1. ids[j] \in Ids /\ o[ids[j]] = q
    BY <1>6, <1>2 DEF Listing
  <2> HIDE DEF y
  <2>2. y \in Ids /\ o[y] = q
    BY <2>1 DEF y
  <2>. QED
    BY <2>2, IdsLinks, NotIds
<1>8. Without(old', heap', arg, RestKeys(old, heap, o), LiveOf(o)) /\ Counted(old')
  <2>1. CASE /\ j = 1
             /\ old' = [old EXCEPT !.bucket[i].next = v, !.free = y]
             /\ heap' = f
    <3> DEFINE t == [old EXCEPT !.bucket[i].next = v, !.free = y]
    <3>1. y = old.bucket[i].next /\ heap[y].data = arg
      <4>1. ids[1] = F[q]
        BY <1>6, <1>2, <2>1 DEF Listing
      <4>. QED
        BY <4>1, <1>2, <1>5, <2>1
    <3> HIDE DEF y
    <3>2. Taken(t, f, arg, RestKeys(old, heap, o), LiveOf(o), old.n)
      <4>1. FirstGoes(old, heap, i, y, v, t, f)
        BY DEF FirstGoes
      <4> HIDE DEF v, t, f
      <4>2. v = heap[y].next
        BY DEF v
      <4>. QED
        BY <3>1, <4>1, <4>2, <1>3, <1>4, <1>7, DeletesFirst
    <3> HIDE DEF t, f
    <3>3. old' = t /\ heap' = f
      BY <2>1 DEF t
    <3>. QED
      BY <3>2, <3>3 DEF Taken
  <2>2. CASE /\ j > 1
             /\ old' = [old EXCEPT !.free = y]
             /\ heap' = [f EXCEPT ![ids[j - 1]].next = v]
    <3> DEFINE z == ids[j - 1]
               g == [f EXCEPT ![z] = [data |-> heap[z].data, next |-> v]]
               t == [old EXCEPT !.free = y]
    <3>1. j - 1 \in DOMAIN ids /\ NextOf(heap)[z] = y /\ z \in Ids /\ o[z] = q
      BY <1>6, <1>2, <2>2 DEF Listing
    <3>2. y = heap[z].next
      BY <3>1, <1>5 DEF NextOf
    <3>3. z # y
      <4>1. j \in Nat /\ j - 1 # j
        BY <1>6, <1>2 DEF Listing
      <4>. QED
        BY <4>1, <3>1, <1>2, <1>6 DEF Listing
    <3>4. heap[y].data = arg
      BY <1>2
    <3>5. heap' = g
      <4>1. f[z] = heap[z] /\ f \in Heaps
        BY <3>1, <3>3, <1>5, <1>7, EmptyBucket DEF Heaps
      <4> HIDE DEF f, z
      <4>2. heap[z] = [data |-> heap[z].data, next |-> heap[z].next]
        BY <3>1, <1>5 DEF Heaps
      <4>3. [f[z] EXCEPT !.next = v] = [data |-> heap[z].data, next |-> v]
        BY <4>1, <4>2
      <4>. QED
        BY <4>3, <2>2 DEF z
    <3> HIDE DEF y, z
    <3>6. /\ IsTable(t) /\ t.n = old.n /\ t.bucket = old.bucket /\ t.free = y /\ t.used = old.used
      BY <1>5, <1>7, PutFreeIs
    <3>7. old' = t
      BY <2>2
    <3> HIDE DEF t
    <3>8. Bucketed(o[z])
      BY <3>1, <1>5
    <3>9. Without(t, g, arg, RestKeys(old, heap, o), LiveOf(o))
      BY <3>1, <3>2, <3>4, <3>6, <3>8, <1>3, <1>7, DeletesAfter
    <3>10. Counted(t)
      BY <3>6, <1>3, CountSame DEF Counted
    <3> HIDE DEF g
    <3>. QED
      BY <3>5, <3>7, <3>9, <3>10
  <2>. QED
    BY <1>2, <2>1, <2>2
<1>9. ret' \in Results
  BY <1>1 DEF Return, Results
<1>. QED
  BY <1>1, <1>3, <1>8, <1>9, DeleteEnds DEF Return

\* After a rehash that failed hash_delete gives the free list back to malloc.
LEMMA DeleteReturnKeeps ==
  ASSUME NEW o, Inv(o), DeleteReturn
  PROVE  Reaches(KeysNow(o))
<1> DEFINE S == {e \in Ids : o[e] = FreePlace}
           ks == RestKeys(old, heap, o)
<1>1. /\ pc \in Still /\ op = "delete" /\ arg \in Keys
      /\ AtRest(old, new, heap, live, entries, o) /\ Typed
  BY DEF Inv, Shape, Still, Called, DeleteReturn
<1>2. /\ Resting(old, heap, o, 0) /\ Counted(old) /\ live = LiveOf(o) /\ new = NoTable
      /\ entries = Cardinality(ks)
  BY <1>1 DEF AtRest
<1>3. Elements(IdsFrom(old.free)) = S
  BY <1>2, SpareIs
<1>4. KeysNow(o) = ks
  BY <1>2, RestKeysAre DEF KeysNow
<1> HIDE DEF S
<1>5. /\ pc' = "idle" /\ op' = "none" /\ arg' = NoKey /\ ret' = [found |-> FALSE, node |-> arg]
      /\ UNCHANGED <<tuning, new, entries, local>>
      /\ \/ UNCHANGED <<old, memory>>
         \/ /\ old' = [old EXCEPT !.free = 0] /\ live' = live \ S /\ heap' = heap
            /\ nalloc' = (nalloc - Cardinality(S)) % SizeRange
  BY <1>3 DEF DeleteReturn, Return
<1>6. ret' \in Results
  BY <1>1, <1>5 DEF Results
<1>7. CASE UNCHANGED <<old, memory>>
  <2>1. Called'
    BY <1>5 DEF Called
  <2>2. cur' \in Links /\ pc' \in Still
    BY <1>1, <1>5 DEF Typed, local, Still
  <2>3. UNCHANGED <<tuning, old, new, entries, memory, slot>>
    BY <1>5, <1>7 DEF local
  <2>. QED
    BY <2>1, <2>2, <2>3, <1>1, <1>5, <1>6, StaysAtRest
<1>8. CASE /\ old' = [old EXCEPT !.free = 0] /\ live' = live \ S /\ heap' = heap
           /\ nalloc' = (nalloc - Cardinality(S)) % SizeRange
  <2> DEFINE t == [old EXCEPT !.free = 0]
  <2>1. /\ IsTable(t) /\ t.n = old.n /\ t.bucket = old.bucket /\ t.free = 0 /\ t.used = old.used
    <3>1. IsTable(old) /\ 0 \in Links
      BY <1>2, EmptyBucket DEF Resting
    <3>. QED
      BY <3>1, PutFreeIs
  <2>2. old' = t
    BY <1>8
  <2> HIDE DEF t
  <2>3. Rests(t, heap, 0, Nowhere, RestKeys(old, heap, o), LiveOf(o) \ {x \in Ids : o[x] = FreePlace})
    BY <2>1, <1>2, GivesBack
  <2>4. PICK u : /\ Resting(t, heap, u, 0) /\ RestKeys(t, heap, u) = RestKeys(old, heap, o)
                 /\ LiveOf(u) = LiveOf(o) \ {x \in Ids : o[x] = FreePlace}
    BY <2>3 DEF Rests
  <2>5. LiveOf(u) = live'
    BY <2>4, <1>2, <1>8 DEF S
  <2>6. Counted(t)
    BY <2>1, <1>2, CountSame DEF Counted
  <2>7. KeysNow(u)' = ks
    BY <2>2, <2>4, <1>2, <1>5, <1>8, RestKeysAre DEF KeysNow
  <2>8. AtRest(old', new', heap', live', entries', u)
    BY <2>2, <2>4, <2>5, <2>6, <1>2, <1>5, <1>8 DEF AtRest
  <2>9. Shape(u)'
    BY <2>8, <1>5 DEF Shape, Still
  <2>10. nalloc' \in 0..(SizeRange - 1)
    <3>1. Cardinality(S) \in Nat
      BY FiniteIds DEF S
    <3>2. nalloc - Cardinality(S) \in Int
      BY <3>1, <1>1, BoundAssumption DEF Typed
    <3>. QED
      BY <3>2, <1>8, BoundAssumption, RemainderIs
  <2>11. live' \in SUBSET Ids
    BY <1>1, <1>8 DEF Typed
  <2>12. Typed'
    BY <2>10, <2>11, <1>1, <1>5, <1>6, <1>8 DEF Typed, local, Still
  <2>13. Called' /\ Absent(u)' /\ (pc \in Points)'
    BY <1>5 DEF Called, Absent, Points, Still
  <2>. QED
    BY <2>7, <2>9, <2>12, <2>13, <1>4 DEF Inv, Reaches
<1>. QED
  BY <1>5, <1>7, <1>8

\* No more buckets are in use than there are.
LEMMA CountedIn ==
  ASSUME NEW t, IsTable(t), IsSize(t.n), Counted(t)
  PROVE  t.used \in 0..t.n
<1>1. t.n \in Nat \ {0}
  BY SizeFacts
<1>2. UsedBuckets(t) \in SUBSET (0..(t.n - 1))
  BY DEF UsedBuckets, IsTable
<1>3. 0 \in 0..(t.n - 1)
  BY <1>1
<1>4. Edited(t, 0, Empty, 0, 0).n = t.n
      /\ Edited(t, 0, Empty, 0, 0).bucket = [t.bucket EXCEPT ![0] = Empty]
  BY DEF Edited
<1>5. Cardinality(UsedBuckets(t)) \in 0..t.n
  BY <1>3, <1>4, EmptyBucket, CountEdit
<1>. QED
  BY <1>5 DEF Counted

\* hash_clear begins.
LEMMA CallClearKeeps ==
  ASSUME NEW o, Inv(o), CallClear
  PROVE  Reaches(KeysNow(o))
<1>1. AtRest(old, new, heap, live, entries, o) /\ Typed /\ pc = "idle"
  BY DEF Inv, Shape, Still, CallClear, Call
<1>2. /\ Resting(old, heap, o, 0) /\ Counted(old) /\ live = LiveOf(o) /\ new = NoTable
      /\ entries = Cardinality(RestKeys(old, heap, o))
  BY <1>1 DEF AtRest
<1>3. /\ pc' = "clear" /\ op' = "clear" /\ arg' = NoKey /\ ret' = NoResult
      /\ UNCHANGED <<tuning, old, new, entries, memory, phase, slot>>
      /\ scan' = NextUsed(old, 0) /\ cur' = NextAt(old, scan')
  BY DEF CallClear, Call, NextAt
<1>4. Clearing(old, scan', cur', heap, o)
  BY <1>2, <1>3, ClearStarts
<1>5. KeysNow(o)' = KeysNow(o)
  BY <1>3 DEF KeysNow, memory
<1>6. old.used \in 0..old.n /\ entries \in 0..Cardinality(Keys)
  <2>1. old.used \in 0..old.n
    BY <1>2, CountedIn DEF Resting
  <2>2. entries \in Nat /\ entries <= Cardinality(Keys)
    BY <1>2, RestKeysIn, FiniteKeys, KeysAssumption, FS_Subset, FS_CardinalityType
  <2>3. Cardinality(Keys) \in Nat
    BY KeysAssumption, FS_CardinalityType
  <2>. QED
    BY <2>1, <2>2, <2>3
<1>7. Emptying(old', new', scan', cur', heap', live', entries', o)
  BY <1>2, <1>3, <1>4, <1>6 DEF Emptying, memory
<1>8. Shape(o)'
  BY <1>3, <1>7 DEF Shape, Still
<1>9. cur' \in Links /\ ret' \in Results
  BY <1>3, <1>4 DEF Clearing, Walked, Results, NoResult
<1>10. Typed'
  BY <1>1, <1>3, <1>9 DEF Typed, memory
<1>11. Called' /\ Absent(o)' /\ (pc \in Points)'
  BY <1>3 DEF Called, Absent, Points
<1>. QED
  BY <1>5, <1>8, <1>10, <1>11 DEF Inv, Reaches

\* A step of hash_clear.
LEMMA ClearSteps ==
  ASSUME NEW o, Inv(o), pc = "clear", NEW ks, Clears(old', scan', cur', heap', ks, live),
         old'.used = old.used, old'.n = old.n,
         UNCHANGED <<tuning, new, entries, live, nalloc, pc, op, arg, slot, ret>>
  PROVE  Reaches(ks)
<1>1. Emptying(old, new, scan, cur, heap, live, entries, o) /\ Typed
  BY DEF Inv, Shape
<1>2. PICK u : Clearing(old', scan', cur', heap', u) /\ RestKeys(old', heap', u) = ks
               /\ LiveOf(u) = live
  BY DEF Clears
<1>3. /\ new = NoTable /\ old.used \in 0..old.n /\ entries \in 0..Cardinality(Keys)
  BY <1>1 DEF Emptying
<1>4. KeysNow(u)' = ks
  BY <1>2, <1>3, RestKeysAre DEF KeysNow
<1>5. Emptying(old', new', scan', cur', heap', live', entries', u)
  BY <1>2, <1>3 DEF Emptying
<1>6. Shape(u)'
  BY <1>5 DEF Shape, Still
<1>7. heap' \in Heaps /\ cur' \in Links
  BY <1>2 DEF Clearing, Walked
<1>8. Typed'
  BY <1>1, <1>7 DEF Typed
<1>9. Called' /\ Absent(u)' /\ (pc \in Points)'
  BY DEF Inv, Called, Absent, Points
<1>. QED
  BY <1>4, <1>6, <1>8, <1>9 DEF Inv, Reaches

\* hash_clear frees an overflow entry.
LEMMA ClearOverflowKeeps ==
  ASSUME NEW o, Inv(o), ClearOverflow
  PROVE  \E k \in KeysNow(o) : Reaches(KeysNow(o) \ {k})
<1> DEFINE t == [old EXCEPT !.free = cur]
           g == [heap EXCEPT ![cur] = [data |-> NoKey, next |-> old.free]]
           k == heap[cur].data
           y == heap[cur].next
<1>1. /\ pc = "clear" /\ cur # 0 /\ old' = t /\ heap' = g /\ cur' = y
      /\ UNCHANGED <<tuning, new, entries, live, nalloc, pc, op, arg, scan, slot, ret>>
  BY DEF ClearOverflow, Freed
<1>2. Emptying(old, new, scan, cur, heap, live, entries, o)
  BY <1>1 DEF Inv, Shape
<1>3. Clearing(old, scan, cur, heap, o) /\ live = LiveOf(o) /\ new = NoTable
  BY <1>2 DEF Emptying
<1>4. IsTable(old) /\ cur \in Links
  BY <1>3 DEF Clearing, Walked
<1>5. IsTable(t) /\ t.n = old.n /\ t.bucket = old.bucket /\ t.free = cur /\ t.used = old.used
  BY <1>4, PutFreeIs
<1> HIDE DEF t
<1>6. /\ Clears(t, scan, y, g, RestKeys(old, heap, o) \ {k}, LiveOf(o))
      /\ k \in RestKeys(old, heap, o)
  BY <1>1, <1>3, <1>5, ClearsEntry
<1>7. KeysNow(o) = RestKeys(old, heap, o)
  BY <1>3, RestKeysAre DEF KeysNow
<1> HIDE DEF g, k, y
<1>8. Clears(old', scan', cur', heap', KeysNow(o) \ {k}, live)
  BY <1>1, <1>3, <1>6, <1>7
<1>9. Reaches(KeysNow(o) \ {k})
  BY <1>1, <1>5, <1>8, ClearSteps
<1>. QED
  BY <1>6, <1>7, <1>9

\* hash_clear empties the head of a bucket.
LEMMA ClearHeadKeeps ==
  ASSUME NEW o, Inv(o), ClearHead
  PROVE  \E k \in KeysNow(o) : Reaches(KeysNow(o) \ {k})
<1> DEFINE k == old.bucket[scan].data
           t == [old EXCEPT !.bucket[scan] = Empty]
           m == NextUsed(old, scan + 1)
<1>1. /\ pc = "clear" /\ cur = 0 /\ scan < old.n /\ old' = t /\ scan' = m
      /\ cur' = (IF m = old.n THEN 0 ELSE old.bucket[m].next)
      /\ UNCHANGED <<tuning, new, entries, memory, pc, op, arg, slot, ret>>
  BY DEF ClearHead, Advance
<1>2. Emptying(old, new, scan, cur, heap, live, entries, o)
  BY <1>1 DEF Inv, Shape
<1>3. Clearing(old, scan, 0, heap, o) /\ live = LiveOf(o) /\ new = NoTable
  BY <1>1, <1>2 DEF Emptying
<1>4. IsTable(old) /\ scan \in 0..(old.n - 1)
  <2>1. ClearAt(old, scan, 0, heap, o, <<old.n, scan>>,
                Firsts(old, NoTable, old.free, <<old.n, scan>>, 0), HeadsOf(old, NoTable))
    BY <1>1, <1>3, ClearHere
  <2>. QED
    BY <2>1 DEF ClearAt
<1>5. t = Edited(old, scan, Empty, old.used, old.free)
  <2>1. BucketPut(old, scan, Empty, 0)
    BY <1>4, EmptyBucket, PutBucketIs
  <2>. QED
    BY <2>1 DEF BucketPut
<1> HIDE DEF t, m
<1>6. t.n = old.n /\ t.used = old.used
  BY <1>5 DEF Edited
<1>7. /\ Clears(t, m, NextAt(old, m), heap, RestKeys(old, heap, o) \ {k}, LiveOf(o))
      /\ k \in RestKeys(old, heap, o)
  BY <1>1, <1>3, <1>5, ClearsHead DEF m
<1>8. KeysNow(o) = RestKeys(old, heap, o)
  BY <1>3, RestKeysAre DEF KeysNow
<1>9. cur' = NextAt(old, m) /\ heap' = heap /\ live' = live /\ nalloc' = nalloc
  BY <1>1 DEF NextAt, memory
<1> HIDE DEF k
<1>10. Clears(old', scan', cur', heap', KeysNow(o) \ {k}, live)
  BY <1>1, <1>3, <1>7, <1>8, <1>9
<1>11. Reaches(KeysNow(o) \ {k})
  BY <1>1, <1>6, <1>9, <1>10, ClearSteps
<1>. QED
  BY <1>7, <1>8, <1>11

\* hash_clear ends with an empty table.
LEMMA ClearDoneKeeps ==
  ASSUME NEW o, Inv(o), ClearDone
  PROVE  Reaches({}) /\ KeysNow(o) = {}
<1> DEFINE t == [old EXCEPT !.used = 0]
<1>1. /\ pc = "clear" /\ scan = old.n /\ old' = t /\ entries' = 0 /\ cur' = 0
      /\ pc' = "idle" /\ op' = "none" /\ arg' = NoKey /\ ret' = [found |-> FALSE, node |-> NoKey]
      /\ UNCHANGED <<tuning, new, memory, slot>>
  BY DEF ClearDone, Return
<1>2. Emptying(old, new, scan, cur, heap, live, entries, o) /\ Typed
  BY <1>1 DEF Inv, Shape
<1>3. Clearing(old, old.n, cur, heap, o) /\ live = LiveOf(o) /\ new = NoTable
  BY <1>1, <1>2 DEF Emptying
<1>4. IsTable(t) /\ t.n = old.n /\ t.used = 0 /\ t.bucket = old.bucket /\ t.free = old.free
  BY <1>3, PutUsedIs DEF Clearing
<1> HIDE DEF t
<1>5. /\ Resting(t, heap, o, 0) /\ Counted(t) /\ RestKeys(t, heap, o) = {}
      /\ RestKeys(old, heap, o) = {}
  BY <1>3, <1>4, ClearEnds
<1>6. KeysNow(o) = {}
  BY <1>3, <1>5, RestKeysAre DEF KeysNow
<1>7. KeysNow(o)' = {}
  BY <1>1, <1>3, <1>5, RestKeysAre DEF KeysNow, memory
<1>8. AtRest(old', new', heap', live', entries', o)
  BY <1>1, <1>3, <1>5, FS_EmptySet DEF AtRest, memory
<1>9. Shape(o)'
  BY <1>1, <1>8 DEF Shape, Still
<1>10. Typed'
  BY <1>1, <1>2, EmptyBucket DEF Typed, memory, Results
<1>11. Called' /\ Absent(o)' /\ (pc \in Points)'
  BY <1>1 DEF Called, Absent, Points, Still
<1>. QED
  BY <1>6, <1>7, <1>9, <1>10, <1>11 DEF Inv, Reaches

\* hash_free gives every entry back.
LEMMA FreeKeeps ==
  ASSUME NEW o, Inv(o), Free
  PROVE  Reaches(KeysNow(o))
<1>1. /\ AtRest(old, new, heap, live, entries, o) /\ Typed /\ pc = "idle" /\ op = "none" /\ arg = NoKey
  BY DEF Inv, Shape, Still, Free, Called
<1>2. /\ Resting(old, heap, o, 0) /\ Counted(old) /\ live = LiveOf(o) /\ new = NoTable
      /\ entries = Cardinality(RestKeys(old, heap, o))
  BY <1>1 DEF AtRest
<1>3. /\ live' = live \ Reached(old) /\ pc' = "freed"
      /\ UNCHANGED <<tuning, old, new, entries, heap, nalloc, op, arg, local, ret>>
  BY DEF Free
<1>4. live' = {}
  <2>1. live \subseteq Reached(old)
    BY <1>2, FreesAll
  <2>. QED
    BY <2>1, <1>3
<1>5. KeysNow(o)' = KeysNow(o)
  BY <1>3 DEF KeysNow
<1>6. Given(old', new', heap', live', entries', o)
  BY <1>2, <1>3, <1>4 DEF Given
<1>7. Shape(o)'
  BY <1>3, <1>6 DEF Shape, Still
<1>8. Typed'
  BY <1>1, <1>3, <1>4 DEF Typed, local
<1>9. Called' /\ Absent(o)' /\ (pc \in Points)'
  BY <1>1, <1>3 DEF Called, Absent, Points
<1>. QED
  BY <1>5, <1>7, <1>8, <1>9 DEF Inv, Reaches

GHashInv == \E o : Inv(o)

\* Where the program has stopped, and where nothing happens.
LEMMA StutterKeeps ==
  ASSUME NEW o, Inv(o), UNCHANGED vars
  PROVE  Inv(o)'
<1>1. /\ UNCHANGED <<tuning, old, new, entries, pc, op, arg, ret>>
      /\ UNCHANGED <<heap, live, nalloc, phase, scan, cur, slot>>
  BY DEF vars, memory, local
<1>2. KeysNow(o)' = KeysNow(o)
  BY <1>1 DEF KeysNow
<1>3. Shape(o)'
  BY <1>1 DEF Inv, Shape
<1>4. Typed' /\ Called' /\ Absent(o)' /\ (pc \in Points)'
  BY <1>1, <1>2 DEF Inv, Typed, Called, Absent
<1>. QED
  BY <1>3, <1>4 DEF Inv

\* The invariant is kept by every step.
LEMMA NextKeeps ==
  ASSUME NEW o, Inv(o), [Next]_vars
  PROVE  GHashInv'
<1>1. ASSUME NEW ks, Reaches(ks)
      PROVE  GHashInv'
  BY <1>1 DEF Reaches, GHashInv
<1>2. CASE \E c \in Candidates : Initialize(c) \/ CallRehash(c)
  BY <1>1, <1>2, InitializeKeeps, CallRehashKeeps
<1>3. CASE \E f \in {"insert", "lookup", "delete"}, k \in Keys : CallFind(f, k)
  BY <1>1, <1>3, CallFindKeeps
<1>4. CASE CallClear
  BY <1>1, <1>4, CallClearKeeps
<1>5. CASE Transfer
  BY <1>1, <1>5, TransferKeeps
<1>6. CASE Insert
  BY <1>1, <1>6, FoundKeeps, RoomKeeps, FullKeeps, RefindKeeps, LinkKeeps, LinkFailsKeeps,
     StoreKeeps, NodeFailsKeeps DEF Insert
<1>7. CASE Delete
  BY <1>1, <1>7, DeleteNoneKeeps, DeleteAloneKeeps, DeleteHeadKeeps, DeleteOverflowKeeps,
     DeleteReturnKeeps DEF Delete
<1>8. CASE Clear
  BY <1>1, <1>8, ClearOverflowKeeps, ClearHeadKeeps, ClearDoneKeeps DEF Clear
<1>9. CASE LookupReturn \/ RehashReturn
  BY <1>1, <1>9, LookupKeeps, RehashReturnKeeps
<1>10. CASE Free
  BY <1>1, <1>10, FreeKeeps
<1>11. CASE UNCHANGED vars
  BY <1>11, StutterKeeps DEF GHashInv
<1>12. CASE Stopped
  BY <1>11, <1>12 DEF Stopped
<1>. QED
  BY <1>2, <1>3, <1>4, <1>5, <1>6, <1>7, <1>8, <1>9, <1>10, <1>11, <1>12 DEF Next, Step

\* The inductive invariant is one: in every state there is a place for each entry, such
\* that the lists, the keys, the counters and the call that runs are as Inv says.
THEOREM GHashInvariance == Spec => []GHashInv
<1>1. Init => GHashInv
  BY InitHolds DEF GHashInv
<1>2. GHashInv /\ [Next]_vars => GHashInv'
  <2> SUFFICES ASSUME GHashInv, [Next]_vars PROVE GHashInv'
    OBVIOUS
  <2>1. PICK o : Inv(o)
    BY DEF GHashInv
  <2>. QED
    BY <2>1, NextKeeps
<1>. QED
  BY <1>1, <1>2, PTL DEF Spec

-----------------------------------------------------------------------------
(***************************************************************************)
(* What the invariant says of a traversal of the tables.                   *)
(***************************************************************************)
\* F and K are right about a table, if they are about each of its buckets.
LEMMA TableShown ==
  ASSUME NEW t, IsTable(t), NEW F, NEW K,
         \A i \in 0..(t.n - 1) :
           /\ K[<<t.n, i>>] = t.bucket[i].data
           /\ F[<<t.n, i>>] = IF Walking(t) /\ i = scan THEN cur ELSE t.bucket[i].next,
         \A p \in Place : Bucketed(p) /\ p[1] = t.n /\ K[p] # NoKey
                            => \E i \in 0..(t.n - 1) : p = <<t.n, i>>
  PROVE  Shows(t, F, K)
<1>1. ASSUME NEW i \in 0..(t.n - 1)
      PROVE  /\ <<t.n, i>> \in Place \ {Nowhere} /\ Bucketed(<<t.n, i>>)
             /\ Overflow(t, i) = IdsFrom(F[<<t.n, i>>])
             /\ K[<<t.n, i>>] = t.bucket[i].data
  <2>1. t.n \in Nat \ {0} /\ i \in Nat
    BY SizeFacts DEF IsTable
  <2>2. <<t.n, i>> \in Place \ {Nowhere} /\ Bucketed(<<t.n, i>>)
    BY <2>1, BucketPlace
  <2>. QED
    BY <2>2 DEF Overflow
<1>2. ASSUME NEW p \in Place, Bucketed(p), p[1] = t.n, K[p] # NoKey
      PROVE  p[2] \in 0..(t.n - 1) /\ p = <<t.n, p[2]>>
  <2>1. PICK i \in 0..(t.n - 1) : p = <<t.n, i>>
    BY <1>2
  <2>. QED
    BY <2>1
<1>. QED
  BY <1>1, <1>2 DEF Shows

\* There is nothing to show of no table.
LEMMA NoTableShown ==
  ASSUME NEW F, NEW K
  PROVE  Shows(NoTable, F, K)
<1>1. 0..(NoTable.n - 1) = {} /\ \A p \in Place : Bucketed(p) => p[1] # NoTable.n
  BY NoTableIs DEF Bucketed
<1>. QED
  BY <1>1, NoTableIs DEF Shows

\* The lists of two tables, one of them walked from the place w on.
LEMMA FirstsSeen ==
  ASSUME NEW a, NEW b, IsTable(a), IsTable(b), a.n # b.n, NEW f \in Links, NEW w \in Place,
         NEW y \in Links, w # FreePlace, NEW F, F = Firsts(a, b, f, w, y)
  PROVE  /\ F[FreePlace] = f
         /\ \A p \in Place : p # FreePlace => F[p] = IF p = w THEN y ELSE NextsOf(a, b)[p]
         /\ \A p \in Place : ~Bucketed(p) /\ p # FreePlace /\ p # w => F[p] = 0
<1>1. NextsOf(a, b) \in [Place -> Links]
  BY ViewTypes
<1> DEFINE N == NextsOf(a, b)
<1>2. F = [N EXCEPT ![FreePlace] = f, ![w] = y]
  BY DEF Firsts
<1>3. FreePlace \in Place
  BY PlaceFacts
<1>4. ASSUME NEW p \in Place, ~Bucketed(p), p # FreePlace, p # w
      PROVE  N[p] = 0
  <2>1. p[1] = 0
    BY <1>4 DEF Bucketed
  <2>2. Cell(a, b, p) = Empty
    <3>1. a.n \in Nat /\ b.n \in Nat /\ p[2] \in Nat
      BY CellIs DEF Place
    <3>. QED
      BY <2>1, <3>1 DEF Cell
  <2>. QED
    BY <2>2, <1>4, EmptyBucket DEF NextsOf
<1> HIDE DEF N
<1>. QED
  BY <1>1, <1>2, <1>3, <1>4 DEF N

\* The place of a walk is not the free list.
LEMMA WalkPlace ==
  ASSUME NEW n \in Nat \ {0}, NEW i \in Nat
  PROVE  <<n, i>> \in Place /\ <<n, i>> # FreePlace /\ Bucketed(<<n, i>>)
BY BucketPlace

\* What a table, at rest but for an entry without its node, shows.
LEMMA RestSeen ==
  ASSUME NEW o, NEW x, Resting(old, heap, o, x), new = NoTable, pc \notin {"transfer", "clear"}
  PROVE  Seen(Lists(old), HeadsOf(old, NoTable), o, x)
<1> DEFINE F == Lists(old)
           K == HeadsOf(old, NoTable)
<1>1. /\ IsTable(old) /\ IsSize(old.n) /\ heap \in Heaps /\ Ranked(F, NextOf(heap), o)
      /\ Keyed(K, DataOf(heap), o, x)
  BY DEF Resting
<1>2. /\ old.n \in Nat \ {0} /\ old.n # NoTable.n /\ IsTable(NoTable) /\ old.free \in Links
      /\ NoWalk \in Place /\ NoWalk # FreePlace /\ 0 \in Links /\ ~Bucketed(NoWalk)
  BY <1>1, SizeFacts, NoTableIs, PlaceFacts, EmptyBucket DEF IsTable
<1>3. F = Firsts(old, NoTable, old.free, NoWalk, 0)
  <2> DEFINE N == NextsOf(old, NoTable)
             G == [N EXCEPT ![FreePlace] = old.free]
  <2>1. N \in [Place -> Links] /\ N[NoWalk] = 0
    <3>1. NoWalk[1] = 0 /\ NoTable.n = 0 /\ NoWalk[2] = 2
      BY NoTableIs DEF NoWalk
    <3>2. Cell(old, NoTable, NoWalk) = Empty
      BY <3>1, <1>2 DEF Cell
    <3>. QED
      BY <3>2, <1>1, <1>2, ViewTypes, EmptyBucket DEF NextsOf
  <2>2. F = G /\ Firsts(old, NoTable, old.free, NoWalk, 0) = [G EXCEPT ![NoWalk] = 0]
    BY DEF Lists, Firsts
  <2> HIDE DEF N
  <2>3. G[NoWalk] = 0 /\ G \in [Place -> Links]
    BY <2>1, <1>2
  <2> HIDE DEF G, F
  <2>. QED
    BY <2>2, <2>3
<1> HIDE DEF F
<1>4. /\ F[FreePlace] = old.free
      /\ \A p \in Place : p # FreePlace => F[p] = IF p = NoWalk THEN 0 ELSE NextsOf(old, NoTable)[p]
      /\ \A p \in Place : ~Bucketed(p) /\ p # FreePlace /\ p # NoWalk => F[p] = 0
  BY <1>1, <1>2, <1>3, FirstsSeen
<1>5. /\ \A i \in 0..(old.n - 1) : /\ K[<<old.n, i>>] = old.bucket[i].data
                                   /\ NextsOf(old, NoTable)[<<old.n, i>>] = old.bucket[i].next
      /\ \A p \in Place : K[p] # NoKey => \E i \in 0..(old.n - 1) : p = <<old.n, i>>
  <2>1. 0..(NoTable.n - 1) = {}
    BY NoTableIs
  <2>. QED
    BY <2>1, <1>1, <1>2, ViewAt
<1> HIDE DEF K
<1>6. ~Walking(old)
  BY DEF Walking
<1>7. ASSUME NEW i \in 0..(old.n - 1)
      PROVE  F[<<old.n, i>>] = old.bucket[i].next
  <2> DEFINE w == <<old.n, i>>
  <2>1. w \in Place /\ w # FreePlace /\ w # NoWalk
    BY <1>2, BucketPlace
  <2>. QED
    BY <2>1, <1>4, <1>5
<1>8. Shows(old, F, K)
  BY <1>1, <1>5, <1>6, <1>7, TableShown
<1>9. Shows(new, F, K)
  BY NoTableShown
<1>10. \A p \in Place : K[p] # NoKey => p[1] = old.n \/ p[1] = new.n
  BY <1>5
<1>11. \A p \in Place : ~Bucketed(p) /\ p # FreePlace => F[p] = 0
  BY <1>2, <1>4
<1>12. FreeList = IdsFrom(F[FreePlace])
  BY <1>4 DEF FreeList
<1>13. \A i \in 0..(old.n - 1) : old.bucket[i].data = NoKey => old.bucket[i].next = 0
  BY RestNoChain
<1>14. 0..(new.n - 1) = {} /\ old.n # new.n
  BY <1>2, NoTableIs
<1>15. \A i \in 0..(new.n - 1) : new.bucket[i].data = NoKey => new.bucket[i].next = 0
  BY <1>14
<1>16. Seen(F, K, o, x)
  BY <1>1, <1>8, <1>9, <1>10, <1>11, <1>12, <1>13, <1>14, <1>15 DEF Seen
<1>. QED
  BY <1>16 DEF F, K

\* A table that is being cleared.
LEMMA ClearSeen ==
  ASSUME NEW o, Clearing(old, scan, cur, heap, o), new = NoTable, pc = "clear"
  PROVE  Seen(Firsts(old, NoTable, old.free, <<old.n, scan>>, cur), HeadsOf(old, NoTable), o, 0)
<1> DEFINE w == <<old.n, scan>>
           F == Firsts(old, NoTable, old.free, w, cur)
           K == HeadsOf(old, NoTable)
<1>1. /\ IsTable(old) /\ IsSize(old.n) /\ heap \in Heaps /\ Walked(old, "clear", scan, cur)
      /\ Ranked(F, NextOf(heap), o) /\ Keyed(K, DataOf(heap), o, 0)
  BY DEF Clearing
<1>2. /\ old.n \in Nat \ {0} /\ old.n # NoTable.n /\ IsTable(NoTable) /\ old.free \in Links
      /\ scan \in 0..old.n /\ cur \in Links /\ (scan < old.n => old.bucket[scan].data # NoKey)
      /\ scan \in Nat
  BY <1>1, SizeFacts, NoTableIs DEF IsTable, Walked
<1>3. w \in Place /\ w # FreePlace /\ Bucketed(w)
  BY <1>2, WalkPlace
<1>4. /\ F[FreePlace] = old.free
      /\ \A p \in Place : p # FreePlace => F[p] = IF p = w THEN cur ELSE NextsOf(old, NoTable)[p]
      /\ \A p \in Place : ~Bucketed(p) /\ p # FreePlace /\ p # w => F[p] = 0
  <2> HIDE DEF w
  <2>. QED
    BY <1>1, <1>2, <1>3, FirstsSeen
<1>5. /\ \A i \in 0..(old.n - 1) : /\ K[<<old.n, i>>] = old.bucket[i].data
                                   /\ NextsOf(old, NoTable)[<<old.n, i>>] = old.bucket[i].next
      /\ \A p \in Place : K[p] # NoKey => \E i \in 0..(old.n - 1) : p = <<old.n, i>>
  <2>1. 0..(NoTable.n - 1) = {}
    BY NoTableIs
  <2>. QED
    BY <2>1, <1>1, <1>2, ViewAt
<1> HIDE DEF F, K
<1>6. Walking(old)
  BY DEF Walking
<1>7. ASSUME NEW i \in 0..(old.n - 1)
      PROVE  F[<<old.n, i>>] = IF Walking(old) /\ i = scan THEN cur ELSE old.bucket[i].next
  <2> DEFINE q == <<old.n, i>>
  <2>1. q \in Place /\ q # FreePlace
    BY <1>2, BucketPlace
  <2>2. (q = w) <=> (i = scan)
    OBVIOUS
  <2>3. NextsOf(old, NoTable)[q] = old.bucket[i].next
    BY <1>5
  <2> HIDE DEF q, w
  <2>4. F[q] = IF q = w THEN cur ELSE NextsOf(old, NoTable)[q]
    BY <2>1, <1>4
  <2>5. F[q] = IF Walking(old) /\ i = scan THEN cur ELSE old.bucket[i].next
    BY <2>2, <2>3, <2>4, <1>6
  <2>. QED
    BY <2>5 DEF q
<1>8. Shows(old, F, K)
  BY <1>1, <1>5, <1>7, TableShown
<1>9. Shows(new, F, K)
  BY NoTableShown
<1>10. \A p \in Place : K[p] # NoKey => p[1] = old.n \/ p[1] = new.n
  BY <1>5
<1>11. \A p \in Place : ~Bucketed(p) /\ p # FreePlace => F[p] = 0
  BY <1>3, <1>4
<1>12. FreeList = IdsFrom(F[FreePlace])
  BY <1>4 DEF FreeList
<1>13. \A i \in 0..(old.n - 1) : old.bucket[i].data = NoKey => old.bucket[i].next = 0
  <2>1. \A p \in Place : p # w /\ p # FreePlace => F[p] = NextsOf(old, NoTable)[p]
    BY <1>4
  <2>2. \A j \in 0..(old.n - 1) : <<old.n, j>> # w /\ old.bucket[j].data = NoKey
                                   => old.bucket[j].next = 0
    <3> HIDE DEF w
    <3>. QED
      BY <2>1, <1>1, <1>2, NoChain DEF K
  <2>3. ASSUME NEW j \in 0..(old.n - 1), old.bucket[j].data = NoKey
        PROVE  <<old.n, j>> # w
    BY <2>3, <1>2
  <2>. QED
    BY <2>2, <2>3
<1>14. 0..(new.n - 1) = {} /\ old.n # new.n
  BY <1>2, NoTableIs
<1>15. \A i \in 0..(new.n - 1) : new.bucket[i].data = NoKey => new.bucket[i].next = 0
  BY <1>14
<1>16. Seen(F, K, o, 0)
  BY <1>1, <1>8, <1>9, <1>10, <1>11, <1>12, <1>13, <1>14, <1>15 DEF Seen
<1>. QED
  BY <1>16 DEF F, K

\* The two tables of a transfer, s the one that is walked.
LEMMA MoveSeen ==
  ASSUME NEW o, NEW s, NEW d, Running(o, s, d), s = Src, d = Dst, pc = "transfer"
  PROVE  Seen(Firsts(s, d, d.free, <<s.n, scan>>, cur), HeadsOf(s, d), o, 0)
<1> DEFINE w == <<s.n, scan>>
           F == Firsts(s, d, d.free, w, cur)
           K == HeadsOf(s, d)
           N == NextsOf(s, d)
<1>1. /\ IsTable(s) /\ IsTable(d) /\ IsSize(s.n) /\ IsSize(d.n) /\ s.n # d.n /\ heap \in Heaps
      /\ Walked(s, phase, scan, cur) /\ Ranked(F, NextOf(heap), o) /\ Keyed(K, DataOf(heap), o, 0)
      /\ Moving(s, d, phase, scan, cur, heap, o)
  BY DEF Running, Moving
<1>2. /\ s.n \in Nat \ {0} /\ d.n \in Nat \ {0} /\ d.free \in Links /\ scan \in 0..s.n
      /\ cur \in Links /\ (scan < s.n => s.bucket[scan].data # NoKey) /\ scan \in Nat
  BY <1>1, SizeFacts DEF IsTable, Walked
<1>3. w \in Place /\ w # FreePlace /\ Bucketed(w)
  BY <1>2, WalkPlace
<1>4. /\ F[FreePlace] = d.free
      /\ \A p \in Place : p # FreePlace => F[p] = IF p = w THEN cur ELSE N[p]
      /\ \A p \in Place : ~Bucketed(p) /\ p # FreePlace /\ p # w => F[p] = 0
  <2> HIDE DEF w
  <2>. QED
    BY <1>1, <1>2, <1>3, FirstsSeen
<1>5. /\ \A i \in 0..(s.n - 1) : K[<<s.n, i>>] = s.bucket[i].data /\ N[<<s.n, i>>] = s.bucket[i].next
      /\ \A i \in 0..(d.n - 1) : K[<<d.n, i>>] = d.bucket[i].data /\ N[<<d.n, i>>] = d.bucket[i].next
      /\ \A p \in Place : K[p] # NoKey => \/ \E i \in 0..(s.n - 1) : p = <<s.n, i>>
                                          \/ \E i \in 0..(d.n - 1) : p = <<d.n, i>>
  BY <1>1, ViewAt
<1> HIDE DEF F, K, N
<1>6. Walking(s) /\ ~Walking(d)
  BY <1>1 DEF Walking
<1>7. ASSUME NEW i \in 0..(s.n - 1)
      PROVE  F[<<s.n, i>>] = IF Walking(s) /\ i = scan THEN cur ELSE s.bucket[i].next
  <2> DEFINE q == <<s.n, i>>
  <2>1. q \in Place /\ q # FreePlace
    BY <1>2, BucketPlace
  <2>2. (q = w) <=> (i = scan)
    OBVIOUS
  <2>3. N[q] = s.bucket[i].next
    BY <1>5
  <2> HIDE DEF q, w
  <2>4. F[q] = IF q = w THEN cur ELSE N[q]
    BY <2>1, <1>4
  <2>5. F[q] = IF Walking(s) /\ i = scan THEN cur ELSE s.bucket[i].next
    BY <2>2, <2>3, <2>4, <1>6
  <2>. QED
    BY <2>5 DEF q
<1>8. ASSUME NEW i \in 0..(d.n - 1)
      PROVE  F[<<d.n, i>>] = IF Walking(d) /\ i = scan THEN cur ELSE d.bucket[i].next
  <2> DEFINE q == <<d.n, i>>
  <2>1. q \in Place /\ q # FreePlace
    BY <1>2, BucketPlace
  <2>2. q # w
    BY <1>1
  <2>3. N[q] = d.bucket[i].next
    BY <1>5
  <2> HIDE DEF q, w
  <2>4. F[q] = IF q = w THEN cur ELSE N[q]
    BY <2>1, <1>4
  <2>5. F[q] = IF Walking(d) /\ i = scan THEN cur ELSE d.bucket[i].next
    BY <2>2, <2>3, <2>4, <1>6
  <2>. QED
    BY <2>5 DEF q
<1>9. Shows(s, F, K)
  <2>1. ASSUME NEW p \in Place, Bucketed(p), p[1] = s.n, K[p] # NoKey
        PROVE  \E i \in 0..(s.n - 1) : p = <<s.n, i>>
    <3>1. CASE \E i \in 0..(d.n - 1) : p = <<d.n, i>>
      BY <3>1, <2>1, <1>1
    <3>. QED
      BY <3>1, <2>1, <1>5
  <2>. QED
    BY <2>1, <1>1, <1>5, <1>7, TableShown
<1>10. Shows(d, F, K)
  <2>1. ASSUME NEW p \in Place, Bucketed(p), p[1] = d.n, K[p] # NoKey
        PROVE  \E i \in 0..(d.n - 1) : p = <<d.n, i>>
    <3>1. CASE \E i \in 0..(s.n - 1) : p = <<s.n, i>>
      BY <3>1, <2>1, <1>1
    <3>. QED
      BY <3>1, <2>1, <1>5
  <2>. QED
    BY <2>1, <1>1, <1>5, <1>8, TableShown
<1>11. \A p \in Place : K[p] # NoKey => p[1] = s.n \/ p[1] = d.n
  BY <1>5
<1>12. \A p \in Place : ~Bucketed(p) /\ p # FreePlace => F[p] = 0
  BY <1>3, <1>4
<1>13. FreeList = IdsFrom(F[FreePlace])
  BY <1>4 DEF FreeList
<1>14. /\ \A j \in 0..(s.n - 1) : j # scan /\ s.bucket[j].data = NoKey => s.bucket[j].next = 0
       /\ \A j \in 0..(d.n - 1) : d.bucket[j].data = NoKey => d.bucket[j].next = 0
  BY <1>1, NoHeadNoChain
<1>15. \A j \in 0..(s.n - 1) : s.bucket[j].data = NoKey => s.bucket[j].next = 0
  BY <1>2, <1>14
<1>16. (s = old /\ d = new) \/ (s = new /\ d = old)
  BY DEF Running
<1>17. Seen(F, K, o, 0)
  BY <1>1, <1>9, <1>10, <1>11, <1>12, <1>13, <1>14, <1>15, <1>16 DEF Seen
<1>. QED
  BY <1>17 DEF F, K

\* Before hash_initialize there is nothing.
LEMMA NothingSeen ==
  ASSUME NEW o, Nothing(old, new, heap, live, entries, o), heap \in Heaps, pc \in {"init", "null"}
  PROVE  Seen(Lists(NoTable), HeadsOf(NoTable, NoTable), o, 0)
<1> DEFINE F == Lists(NoTable)
           K == HeadsOf(NoTable, NoTable)
<1>1. old = NoTable /\ new = NoTable /\ Ranked(F, NextOf(heap), o) /\ Keyed(K, DataOf(heap), o, 0)
  BY DEF Nothing
<1>2. \A p \in Place : Cell(NoTable, NoTable, p) = Empty
  BY NoTableIs DEF Cell, Place
<1>3. NextsOf(NoTable, NoTable) = [p \in Place |-> 0] /\ K = [p \in Place |-> NoKey]
  BY <1>2, EmptyBucket DEF NextsOf, HeadsOf
<1>4. F[FreePlace] = NoTable.free /\ \A p \in Place : p # FreePlace => F[p] = 0
  BY <1>3, PlaceFacts DEF Lists
<1> HIDE DEF F
<1>5. \A p \in Place : K[p] = NoKey
  BY <1>3
<1> HIDE DEF K
<1>6. Shows(old, F, K) /\ Shows(new, F, K)
  BY <1>1, NoTableShown
<1>7. FreeList = IdsFrom(F[FreePlace])
  BY <1>1, <1>4 DEF FreeList
<1>8. old.n = 0 /\ 0..(old.n - 1) = {} /\ 0..(new.n - 1) = {}
  BY <1>1, NoTableIs
<1>9. /\ \A i \in 0..(old.n - 1) : old.bucket[i].data = NoKey => old.bucket[i].next = 0
      /\ \A i \in 0..(new.n - 1) : new.bucket[i].data = NoKey => new.bucket[i].next = 0
  BY <1>8
<1>10. Seen(F, K, o, 0)
  BY <1>1, <1>4, <1>5, <1>6, <1>7, <1>8, <1>9 DEF Seen
<1>. QED
  BY <1>10 DEF F, K

\* The entry without its node, if it is an overflow entry.
Unfilled == IF Pending THEN slot ELSE 0

\* What a traversal sees of the keys.
Traversed(o) == \E F, K : Seen(F, K, o, Unfilled) /\ KeysNow(o) = KeysIn(K, DataOf(heap), o)

\* So a traversal sees, in every state, the keys that the invariant says are there.
LEMMA SeenNow ==
  ASSUME NEW o, Inv(o)
  PROVE  Traversed(o)
<1>1. pc \in Points /\ Typed /\ Shape(o)
  BY DEF Inv
<1>2. CASE pc \in {"init", "null"}
  <2>1. Seen(Lists(NoTable), HeadsOf(NoTable, NoTable), o, 0) /\ old = NoTable /\ new = NoTable
    BY <1>1, <1>2, NothingSeen DEF Shape, Typed, Nothing
  <2>2. Unfilled = 0
    BY <1>2 DEF Unfilled, Pending
  <2>. QED
    BY <2>1, <2>2 DEF Traversed, KeysNow, KeysOf
<1>3. ASSUME NEW x, Resting(old, heap, o, x), new = NoTable, pc \notin {"transfer", "clear"},
             Unfilled = x
      PROVE  Traversed(o)
  <2>1. Seen(Lists(old), HeadsOf(old, NoTable), o, x)
    BY <1>3, RestSeen
  <2>. QED
    BY <2>1, <1>3 DEF Traversed, KeysNow, KeysOf
<1>4. CASE pc \in Still \cup {"freed"}
  <2>1. Resting(old, heap, o, 0) /\ new = NoTable
    BY <1>1, <1>4 DEF Shape, AtRest, Given
  <2>2. Unfilled = 0 /\ pc \notin {"transfer", "clear"}
    BY <1>4 DEF Unfilled, Pending, Still
  <2>. QED
    BY <2>1, <2>2, <1>3
<1>5. CASE pc \in {"store", "exit"}
  <2>1. Resting(old, heap, o, slot) /\ new = NoTable
    BY <1>1, <1>5 DEF Shape, Storing
  <2>2. Unfilled = slot /\ pc \notin {"transfer", "clear"}
    BY <1>5 DEF Unfilled, Pending
  <2>. QED
    BY <2>1, <2>2, <1>3
<1>6. CASE pc = "transfer"
  <2> DEFINE s == Src
             d == Dst
  <2>1. Running(o, s, d)
    BY <1>6, TransferIs
  <2>2. Unfilled = 0
    BY <1>6 DEF Unfilled, Pending
  <2>3. Seen(Firsts(s, d, d.free, <<s.n, scan>>, cur), HeadsOf(s, d), o, 0)
    BY <2>1, <1>6, MoveSeen
  <2>4. KeysNow(o) = KeysIn(HeadsOf(s, d), DataOf(heap), o)
    BY <2>1 DEF Running, KeysOf
  <2> HIDE DEF s, d
  <2>. QED
    BY <2>2, <2>3, <2>4 DEF Traversed
<1>7. CASE pc = "clear"
  <2>1. Clearing(old, scan, cur, heap, o) /\ new = NoTable
    BY <1>1, <1>7 DEF Shape, Emptying
  <2>2. Unfilled = 0
    BY <1>7 DEF Unfilled, Pending
  <2>3. Seen(Firsts(old, NoTable, old.free, <<old.n, scan>>, cur), HeadsOf(old, NoTable), o, 0)
    BY <2>1, <1>7, ClearSeen
  <2>. QED
    BY <2>1, <2>2, <2>3 DEF Traversed, KeysNow, KeysOf
<1>. QED
  BY <1>1, <1>2, <1>4, <1>5, <1>6, <1>7 DEF Points

-----------------------------------------------------------------------------
(***************************************************************************)
(* The properties, from the invariant.                                     *)
(***************************************************************************)
\* A new head is counted before its node is there, and there is room for it.
HeadDue == IF Pending /\ slot = 0 THEN 1 ELSE 0

\* The counters of a table are those of its buckets, one head being due in it or none.
Tallied(t, due) == /\ IsTable(t) /\ t.used = Cardinality(UsedBuckets(t)) + due
                   /\ t.used \in 0..t.n

\* Nothing is counted in no table.
LEMMA NoTableTallied == Tallied(NoTable, 0)
<1>1. UsedBuckets(NoTable) = {}
  <2>1. DOMAIN NoTable.bucket = {}
    BY NoTableIs DEF IsTable
  <2>. QED
    BY <2>1 DEF UsedBuckets
<1>. QED
  BY <1>1, NoTableIs, FS_EmptySet DEF Tallied

\* At rest the counter is right,
LEMMA CountedTallied ==
  ASSUME NEW t, IsTable(t), IsSize(t.n), Counted(t)
  PROVE  Tallied(t, 0)
<1>1. t.used \in 0..t.n
  BY CountedIn
<1>2. t.used = Cardinality(UsedBuckets(t))
  BY DEF Counted
<1>. QED
  BY <1>1, <1>2, SizeFacts DEF Tallied

\* and with a head due there is room for it.
LEMMA DueTallied ==
  ASSUME NEW t, NEW h, NEW o, Resting(t, h, o, 0), NEW k \in Keys,
         t.used = Cardinality(UsedBuckets(t)) + 1, t.bucket[Home(t, k)].data = NoKey
  PROVE  Tallied(t, 1)
<1> DEFINE i == Home(t, k)
           r == [data |-> k, next |-> 0]
           b == [t.bucket EXCEPT ![i] = r]
           e == [n |-> t.n, bucket |-> b]
<1>1. i \in 0..(t.n - 1) /\ IsTable(t) /\ IsSize(t.n)
  BY KeyPlace DEF KeyAt, Resting
<1>2. r \in Buckets /\ r.data # NoKey
  BY KeysAssumption, EmptyBucket DEF Buckets
<1>3. e.n = t.n /\ e.bucket = b
  OBVIOUS
<1> HIDE DEF i, r, e
<1>4. /\ Cardinality(UsedBuckets(t)) \in 0..t.n /\ Cardinality(UsedBuckets(e)) \in 0..t.n
      /\ (r.data # NoKey /\ t.bucket[i].data = NoKey
            => Cardinality(UsedBuckets(e)) = Cardinality(UsedBuckets(t)) + 1)
  BY <1>1, <1>2, <1>3, CountEdit
<1>5. t.bucket[i].data = NoKey
  BY DEF i
<1>6. t.used \in 0..t.n
  BY <1>2, <1>4, <1>5
<1>. QED
  BY <1>1, <1>6 DEF Tallied

\* So the counters of both tables are right, but while a clear runs.
LEMMA TalliedNow ==
  ASSUME NEW o, Inv(o), pc # "clear"
  PROVE  Tallied(old, HeadDue) /\ Tallied(new, 0)
<1>1. pc \in Points /\ Shape(o) /\ Called
  BY DEF Inv
<1>2. CASE pc \in {"init", "null"}
  <2>1. old = NoTable /\ new = NoTable /\ HeadDue = 0
    BY <1>1, <1>2 DEF Shape, Nothing, HeadDue, Pending
  <2>. QED
    BY <2>1, NoTableTallied
<1>3. ASSUME Resting(old, heap, o, 0), Counted(old), new = NoTable, HeadDue = 0
      PROVE  Tallied(old, HeadDue) /\ Tallied(new, 0)
  BY <1>3, CountedTallied, NoTableTallied DEF Resting
<1>4. CASE pc \in Still \cup {"freed"}
  <2>1. Resting(old, heap, o, 0) /\ Counted(old) /\ new = NoTable
    BY <1>1, <1>4 DEF Shape, AtRest, Given
  <2>2. HeadDue = 0
    BY <1>4 DEF HeadDue, Pending, Still
  <2>. QED
    BY <2>1, <2>2, <1>3
<1>5. CASE pc \in {"store", "exit"} /\ slot # 0
  <2>1. Resting(old, heap, o, slot) /\ Counted(old) /\ new = NoTable
    BY <1>1, <1>5 DEF Shape, Storing
  <2>2. HeadDue = 0
    BY <1>5 DEF HeadDue, Pending
  <2>. QED
    BY <2>1, <2>2, CountedTallied, NoTableTallied DEF Resting
<1>6. CASE pc \in {"store", "exit"} /\ slot = 0
  <2>1. /\ Resting(old, heap, o, 0) /\ new = NoTable /\ arg \in Keys
        /\ old.used = Cardinality(UsedBuckets(old)) + 1 /\ old.bucket[Home(old, arg)].data = NoKey
    BY <1>1, <1>6 DEF Shape, Storing, Called
  <2>2. HeadDue = 1
    BY <1>6 DEF HeadDue, Pending
  <2>. QED
    BY <2>1, <2>2, DueTallied, NoTableTallied
<1>7. CASE pc = "transfer"
  <2>1. Running(o, Src, Dst)
    BY <1>7, TransferIs
  <2>2. Tallied(Src, 0) /\ Tallied(Dst, 0)
    BY <2>1, CountedTallied DEF Running, Moving
  <2>3. (Src = old /\ Dst = new) \/ (Src = new /\ Dst = old)
    BY DEF Src, Dst
  <2>4. HeadDue = 0
    BY <1>7 DEF HeadDue, Pending
  <2>. QED
    BY <2>2, <2>3, <2>4
<1>. QED
  BY <1>1, <1>2, <1>4, <1>5, <1>6, <1>7 DEF Points

\* n_entries is the number of keys, with the one whose node is being made.
LEMMA EntriesNow ==
  ASSUME NEW o, Inv(o), pc # "clear"
  PROVE  /\ KeysNow(o) \in SUBSET Keys /\ Cardinality(KeysNow(o)) \in Nat
         /\ entries = Cardinality(KeysNow(o)) + (IF Pending THEN 1 ELSE 0)
<1>1. pc \in Points /\ Shape(o)
  BY DEF Inv
<1>2. KeysNow(o) \in SUBSET Keys
  BY DEF KeysNow, KeysOf, KeysIn
<1>3. Cardinality(KeysNow(o)) \in Nat
  BY <1>2, FiniteKeys
<1>4. ASSUME new = NoTable
      PROVE  KeysNow(o) = RestKeys(old, heap, o)
  BY <1>4, RestKeysAre DEF KeysNow
<1>5. CASE pc \in {"init", "null"}
  <2>1. /\ old = NoTable /\ new = NoTable /\ entries = 0
        /\ Keyed(HeadsOf(NoTable, NoTable), DataOf(heap), o, 0)
        /\ o = [e \in Ids |-> Nowhere]
    BY <1>1, <1>5 DEF Shape, Nothing
  <2>2. \A p \in Place : Cell(NoTable, NoTable, p) = Empty
    BY NoTableIs DEF Cell, Place
  <2>3. \A p \in Place : HeadsOf(NoTable, NoTable)[p] = NoKey
    BY <2>2, EmptyBucket DEF HeadsOf
  <2>4. \A e \in Ids : ~Bucketed(o[e])
    BY <2>1, PlaceFacts
  <2>5. KeysNow(o) = {}
    BY <2>1, <2>3, <2>4, KeysAssumption DEF KeysNow, KeysOf, KeysIn
  <2>6. Cardinality(KeysNow(o)) = 0 /\ ~Pending
    BY <1>5, <2>5, FS_EmptySet DEF Pending
  <2>. QED
    BY <1>2, <1>3, <2>1, <2>6
<1>6. CASE pc \in Still \cup {"freed"}
  <2>1. entries = Cardinality(RestKeys(old, heap, o)) /\ new = NoTable
    BY <1>1, <1>6 DEF Shape, AtRest, Given
  <2>2. ~Pending
    BY <1>6 DEF Pending, Still
  <2>. QED
    BY <1>2, <1>3, <1>4, <2>1, <2>2
<1>7. CASE pc \in {"store", "exit"}
  <2>1. entries = Cardinality(RestKeys(old, heap, o)) + 1 /\ new = NoTable
    BY <1>1, <1>7 DEF Shape, Storing
  <2>2. Pending
    BY <1>7 DEF Pending
  <2>. QED
    BY <1>2, <1>3, <1>4, <2>1, <2>2
<1>8. CASE pc = "transfer"
  <2>1. entries = Cardinality(KeysNow(o))
    BY <1>8, TransferIs DEF Running
  <2>2. ~Pending
    BY <1>8 DEF Pending
  <2>. QED
    BY <1>2, <1>3, <2>1, <2>2
<1>. QED
  BY <1>1, <1>5, <1>6, <1>7, <1>8 DEF Points

\* n_entries is never more than there are keys.
LEMMA EntriesBounded ==
  ASSUME NEW o, Inv(o)
  PROVE  entries \in 0..Cardinality(Keys)
<1>0. Cardinality(Keys) \in Nat
  BY KeysAssumption, FS_CardinalityType
<1>1. CASE pc = "clear"
  BY <1>1 DEF Inv, Shape, Emptying
<1>2. CASE pc # "clear" /\ ~Pending
  <2>1. KeysNow(o) \in SUBSET Keys /\ entries = Cardinality(KeysNow(o))
        /\ Cardinality(KeysNow(o)) \in Nat
    BY <1>2, EntriesNow
  <2>. QED
    BY <1>0, <2>1, FiniteKeys
<1>3. CASE Pending
  <2>1. pc # "clear"
    BY <1>3 DEF Pending
  <2>2. KeysNow(o) \in SUBSET Keys /\ entries = Cardinality(KeysNow(o)) + 1
        /\ Cardinality(KeysNow(o)) \in Nat
    BY <1>3, <2>1, EntriesNow
  <2>3. arg \in Keys /\ arg \notin KeysNow(o)
    BY <1>3 DEF Inv, Called, Absent, Pending
  <2>4. entries = Cardinality(KeysNow(o) \cup {arg})
    BY <2>2, <2>3, CountAdd
  <2>5. KeysNow(o) \cup {arg} \in SUBSET Keys
    BY <2>2, <2>3
  <2>. QED
    BY <1>0, <2>4, <2>5, FiniteKeys
<1>. QED
  BY <1>1, <1>2, <1>3

\* The properties hold wherever the invariant does: the types,
LEMMA TypeNow ==
  ASSUME NEW o, Inv(o)
  PROVE  TypeOK
<1>1. IsTable(old) /\ old.used \in 0..old.n /\ IsTable(new) /\ new.used \in 0..new.n
  <2>1. CASE pc = "clear"
    BY <2>1, NoTableTallied DEF Inv, Shape, Emptying, Clearing, Tallied
  <2>2. CASE pc # "clear"
    BY <2>2, TalliedNow DEF Tallied
  <2>. QED
    BY <2>1, <2>2
<1>2. ASSUME NEW b, IsTable(b)
      PROVE  /\ b.n = 0 \/ (b.n >= 11 /\ b.n % 2 = 1 /\ is_prime(b.n))
             /\ b.bucket \in [0..(b.n - 1) ->
                               [data : Keys \cup {NoKey}, next : 0..MaxEntries]]
             /\ b.free \in 0..MaxEntries
  BY <1>2 DEF IsTable, IsSize, Buckets, Links
<1>3. entries \in 0..Cardinality(Keys)
  BY EntriesBounded
<1>4. /\ heap \in [Ids -> [data : Keys \cup {NoKey, Junk}, next : 0..MaxEntries]]
      /\ live \subseteq Ids /\ nalloc \in 0..(SizeRange - 1)
      /\ cur \in 0..MaxEntries /\ slot \in 0..MaxEntries
      /\ ret \in [found : BOOLEAN, node : Keys \cup {NoKey}]
  BY DEF Inv, Typed, Heaps, Links, Results
<1>. QED
  BY <1>1, <1>2, <1>3, <1>4 DEF TypeOK

\* the keys that a client can find,
LEMMA StoredNow ==
  ASSUME NEW o, Inv(o)
  PROVE  Stored = KeysNow(o)
<1>1. PICK F, K : Seen(F, K, o, Unfilled) /\ KeysNow(o) = KeysIn(K, DataOf(heap), o)
  BY SeenNow DEF Traversed
<1>. QED
  BY <1>1, HeldAre

\* the chains,
LEMMA ChainsNow ==
  ASSUME NEW o, Inv(o)
  PROVE  ChainsRight
<1>1. PICK F, K : Seen(F, K, o, Unfilled) /\ KeysNow(o) = KeysIn(K, DataOf(heap), o)
  BY SeenNow DEF Traversed
<1>2. Unfilled # 0 => Pending /\ Unfilled = slot
  BY DEF Unfilled
<1>. QED
  BY <1>1, <1>2, ChainsSeen

\* the counters,
LEMMA UsedNow ==
  ASSUME NEW o, Inv(o)
  PROVE  UsedRight
<1>1. CASE pc \in {"clear", "freed"}
  BY <1>1 DEF UsedRight
<1>2. CASE pc \notin {"clear", "freed"}
  <2>1. /\ Tallied(old, HeadDue) /\ Tallied(new, 0) /\ Cardinality(KeysNow(o)) \in Nat
        /\ entries = Cardinality(KeysNow(o)) + (IF Pending THEN 1 ELSE 0)
    BY <1>2, TalliedNow, EntriesNow
  <2>2. PICK F, K : Seen(F, K, o, Unfilled) /\ KeysNow(o) = KeysIn(K, DataOf(heap), o)
    BY SeenNow DEF Traversed
  <2>3. Size(old) + Size(new) = Cardinality(KeysNow(o)) + (IF Unfilled = 0 THEN 0 ELSE 1)
    BY <2>2, HeldAre
  <2>4. entries = Size(old) + Size(new) + HeadDue
    BY <2>1, <2>3 DEF HeadDue, Unfilled
  <2>5. /\ IsTable(new) /\ Cardinality(UsedBuckets(new)) \in Nat
    <3>1. IsFiniteSet(UsedBuckets(new))
      BY <2>2, ChainedAre DEF Seen
    <3>. QED
      BY <2>1, <3>1, FS_CardinalityType DEF Tallied
  <2>6. new.used = Cardinality(UsedBuckets(new))
    BY <2>1, <2>5 DEF Tallied
  <2>. QED
    BY <2>1, <2>4, <2>6 DEF UsedRight, HeadDue, Tallied
<1>. QED
  BY <1>1, <1>2

\* and the overflow entries.
LEMMA AccountedNow ==
  ASSUME NEW o, Inv(o)
  PROVE  EntriesAccounted
<1>1. pc \in Points /\ Shape(o)
  BY DEF Inv
<1>2. CASE pc = "freed"
  BY <1>1, <1>2 DEF Shape, Given, EntriesAccounted
<1>3. CASE pc # "freed"
  <2>1. live = LiveOf(o)
    <3>1. CASE pc \in {"init", "null"}
      <4>1. live = {} /\ o = [e \in Ids |-> Nowhere]
        BY <1>1, <3>1 DEF Shape, Nothing
      <4>. QED
        BY <4>1 DEF LiveOf
    <3>2. CASE pc \in Still
      BY <1>1, <3>2 DEF Shape, AtRest
    <3>3. CASE pc \in {"store", "exit"}
      BY <1>1, <3>3 DEF Shape, Storing
    <3>4. CASE pc = "transfer"
      BY <1>1, <3>4 DEF Shape, Carrying
    <3>5. CASE pc = "clear"
      BY <1>1, <3>5 DEF Shape, Emptying
    <3>. QED
      BY <1>1, <1>3, <3>1, <3>2, <3>3, <3>4, <3>5 DEF Points
  <2>2. PICK F, K : Seen(F, K, o, Unfilled) /\ KeysNow(o) = KeysIn(K, DataOf(heap), o)
    BY SeenNow DEF Traversed
  <2>. QED
    BY <1>3, <2>1, <2>2, EntriesSeen DEF EntriesAccounted
<1>. QED
  BY <1>2, <1>3

-----------------------------------------------------------------------------
(***************************************************************************)
(* The theorems.                                                           *)
(***************************************************************************)
\* Type correctness: whatever is inserted, deleted, rebuilt or undone, the sizes
\* are odd primes from 11 on, no more buckets are used than there are, and no
\* counter leaves its range.
THEOREM GHashTypeCorrect == Spec => []TypeOK
<1>1. GHashInv => TypeOK
  BY TypeNow DEF GHashInv
<1>. QED
  BY <1>1, GHashInvariance, PTL

\* In every state of a transfer, of its undoing and of a clear a key is in its
\* bucket, once, and in one table, and the counters are those of a traversal.
THEOREM GHashTablesRight == Spec => []TablesRight
<1>1. GHashInv => TablesRight
  BY ChainsNow, UsedNow DEF GHashInv, TablesRight
<1>. QED
  BY <1>1, GHashInvariance, PTL

\* No overflow entry is lost, linked twice or freed twice, and hash_free gives
\* all of them back.
THEOREM GHashEntriesAccounted == Spec => []EntriesAccounted
<1>1. GHashInv => EntriesAccounted
  BY AccountedNow DEF GHashInv
<1>. QED
  BY <1>1, GHashInvariance, PTL

\* Undoing a transfer never comes to need an entry that there is no memory for,
\* and a rehash never brings in the key that is to be inserted: neither call to
\* abort is reached.
THEOREM GHashAssertionsHold == Spec => []AssertionsHold
<1>1. GHashInv => AssertionsHold
  BY DEF GHashInv, Inv, Points, Still, AssertionsHold
<1>. QED
  BY <1>1, GHashInvariance, PTL

-----------------------------------------------------------------------------
(***************************************************************************)
(* The table is a dictionary.                                              *)
(***************************************************************************)
\* What a client can see is what the invariant says is there.
Agrees == \A o : Inv(o) => Stored = KeysNow(o)

\* They agree now,
LEMMA StoredAgrees == Agrees
BY StoredNow DEF Agrees

\* and in the next state.
LEMMA StoredAgreesNext == Agrees'
BY StoredAgrees, PTL

\* The keys before and after a step.
LEMMA StoredAfter ==
  ASSUME NEW o, Inv(o), NEW ks, Reaches(ks)
  PROVE  Stored = KeysNow(o) /\ Stored' = ks
<1>1. PICK u : Inv(u)' /\ KeysNow(u)' = ks
  BY DEF Reaches
<1>2. Inv(u)' => Stored' = KeysNow(u)'
  BY StoredAgreesNext DEF Agrees
<1>. QED
  BY <1>1, <1>2, StoredNow

\* A step of the table that the dictionary may take, or does not notice.
Maps == [Dict!DictNext]_(Dict!vars)

\* The call of the dictionary is that of the table while it goes on, and none
\* when it returns.
LEMMA OpStays ==
  ASSUME UNCHANGED op, op # "delete" \/ (pc # "find" /\ pc' # "find")
  PROVE  UNCHANGED DictOp
BY DEF DictOp

LEMMA OpIs ==
  ASSUME op # "delete" \/ pc = "find"
  PROVE  DictOp = op
BY DEF DictOp

LEMMA OpEnds ==
  ASSUME op' = "none"
  PROVE  DictOp' = "none"
BY DEF DictOp

\* The client sees nothing of it.
LEMMA Unseen ==
  ASSUME NEW o, Inv(o), Reaches(KeysNow(o)), UNCHANGED <<op, arg, ret>>,
         op # "delete" \/ (pc # "find" /\ pc' # "find")
  PROVE  Maps
<1>1. Stored' = Stored
  BY StoredAfter
<1>2. UNCHANGED DictOp
  BY OpStays
<1>. QED
  BY <1>1, <1>2 DEF Maps, Dict!vars

\* A call begins.
LEMMA CallMaps ==
  ASSUME NEW o, Inv(o), Reaches(KeysNow(o)), NEW f, NEW k, pc = "idle",
         \/ f \in {"insert", "lookup", "delete"} /\ k \in Keys
         \/ f \in {"clear", "rehash"} /\ k = NoKey,
         op' = f, arg' = k, ret' = NoResult, f = "delete" => pc' = "find"
  PROVE  Maps
<1>1. Stored' = Stored
  BY StoredAfter
<1>2. DictOp = "none" /\ DictOp' = f
  BY DEF Inv, Called, DictOp
<1>3. Dict!Call(f, k)
  BY <1>1, <1>2 DEF Dict!Call, NoResult, Dict!NoResult
<1>4. Dict!DictNext
  BY <1>3 DEF Dict!DictNext
<1>. QED
  BY <1>4 DEF Maps

\* A search returns.
LEMMA SearchMaps ==
  ASSUME NEW o, Inv(o), LookupReturn \/ InsertFound
  PROVE  Maps
<1>1. Reaches(KeysNow(o))
  BY LookupKeeps, FoundKeeps
<1>2. Stored = KeysNow(o) /\ Stored' = Stored
  BY <1>1, StoredAfter
<1>3. /\ pc \in Still /\ pc = "find" /\ op \in {"insert", "lookup"} /\ arg' = NoKey
      /\ DictOp = op /\ DictOp' = "none"
  <2>1. /\ pc \in Still /\ pc = "find" /\ op \in {"insert", "lookup"}
        /\ op' = "none" /\ arg' = NoKey
    BY DEF LookupReturn, InsertFound, Return, Still
  <2>. QED
    BY <2>1, OpIs, OpEnds
<1>4. Has(old, arg) = (arg \in Stored)
  BY <1>2, <1>3, HasNow DEF Inv, Called
<1>5. CASE LookupReturn /\ ~Has(old, arg)
  <2>1. op = "lookup" /\ arg \notin Stored /\ ret'.node = NoKey
    BY <1>4, <1>5 DEF LookupReturn, Return
  <2>2. ret' = [found |-> FALSE, node |-> NoKey]
    <3>1. ret' = [found |-> Has(old, arg), node |-> NoKey]
      BY <1>5 DEF LookupReturn, Return
    <3>2. Has(old, arg) = FALSE
      BY <1>4, <1>5
    <3>. QED
      BY <3>1, <3>2
  <2>3. Dict!ReturnNull
    BY <1>2, <1>3, <2>1, <2>2 DEF Dict!ReturnNull, Dict!Return, Dict!NoResult
  <2>. QED
    BY <2>3 DEF Maps, Dict!DictNext
<1>6. CASE Has(old, arg)
  <2>1. ret' = [found |-> TRUE, node |-> arg]
    <3>1. CASE InsertFound
      BY <3>1 DEF InsertFound, Return
    <3>2. CASE LookupReturn
      <4>1. ret' = [found |-> Has(old, arg), node |-> arg]
        BY <1>6, <3>2 DEF LookupReturn, Return
      <4>2. Has(old, arg) = TRUE
        BY <1>4, <1>6
      <4>. QED
        BY <4>1, <4>2
    <3>. QED
      BY <3>1, <3>2
  <2>2. Dict!ReturnNode
    BY <1>2, <1>3, <1>4, <1>6, <2>1 DEF Dict!ReturnNode, Dict!Return
  <2>. QED
    BY <1>3, <2>2 DEF Maps, Dict!DictNext
<1>. QED
  BY <1>5, <1>6 DEF InsertFound

\* An insertion returns the node that it has stored.
LEMMA StoreMaps ==
  ASSUME NEW o, Inv(o), Store
  PROVE  Maps
<1>1. Stored = KeysNow(o) /\ Stored' = KeysNow(o) \cup {arg} /\ arg \notin KeysNow(o)
  BY StoreKeeps, StoredAfter
<1>2. DictOp = "insert" /\ DictOp' = "none" /\ arg' = NoKey /\ ret' = [found |-> FALSE, node |-> arg]
  <2>1. op = "insert" /\ op' = "none" /\ arg' = NoKey /\ ret' = [found |-> FALSE, node |-> arg]
    BY DEF Inv, Called, Store, Return
  <2>. QED
    BY <2>1, OpIs, OpEnds
<1>3. Dict!ReturnNew
  BY <1>1, <1>2 DEF Dict!ReturnNew, Dict!Return
<1>. QED
  BY <1>3 DEF Maps, Dict!DictNext

\* A removal returns at once.
LEMMA RemovedMaps ==
  ASSUME op = "delete", pc = "find", arg \in Stored, Stored' = Stored \ {arg},
         op' = "none", arg' = NoKey, NEW k \in {arg, NoKey},
         ret' = [found |-> FALSE, node |-> k]
  PROVE  Maps
<1>1. DictOp = "delete" /\ DictOp' = "none"
  BY OpIs, OpEnds
<1>2. ret' \in [found : {FALSE}, node : {arg, NoKey}]
  OBVIOUS
<1>3. Dict!ReturnDeleted
  BY <1>1, <1>2 DEF Dict!ReturnDeleted, Dict!Return
<1>. QED
  BY <1>3 DEF Maps, Dict!DictNext

\* The deletion of what is not there.
LEMMA DeleteNoneMaps ==
  ASSUME NEW o, Inv(o), DeleteNone
  PROVE  Maps
<1>1. Stored = KeysNow(o) /\ Stored' = Stored
  BY DeleteNoneKeeps, StoredAfter
<1>2. /\ pc \in Still /\ arg \in Keys /\ op = "delete" /\ pc = "find" /\ ~Has(old, arg)
      /\ op' = "none" /\ arg' = NoKey /\ ret' = [found |-> FALSE, node |-> NoKey]
  BY DEF Inv, Called, DeleteNone, Return, Still
<1>3. arg \notin Stored
  BY <1>1, <1>2, HasNow
<1>4. DictOp = "delete" /\ DictOp' = "none"
  BY <1>2, OpIs, OpEnds
<1>5. Dict!ReturnAbsent
  BY <1>1, <1>2, <1>3, <1>4 DEF Dict!ReturnAbsent, Dict!Return, Dict!NoResult
<1>. QED
  BY <1>5 DEF Maps, Dict!DictNext

\* A deletion that needs not shrink the table returns at once.
LEMMA DeleteMaps ==
  ASSUME NEW o, Inv(o), DeleteAlone \/ DeleteHead \/ DeleteOverflow
  PROVE  Maps
<1>1. arg \in Stored /\ Stored' = Stored \ {arg}
  <2>1. Reaches(KeysNow(o) \ {arg}) /\ arg \in KeysNow(o)
    BY DeleteAloneKeeps, DeleteHeadKeeps, DeleteOverflowKeeps
  <2>. QED
    BY <2>1, StoredAfter
<1>2. op = "delete" /\ pc = "find"
  BY DEF DeleteAlone, DeleteHead, DeleteOverflow
<1>3. ASSUME UNCHANGED <<op, arg, ret>>, pc' # "find"
      PROVE  Maps
  <2>1. DictOp = "delete" /\ DictOp' = "deleted"
    BY <1>2, <1>3 DEF DictOp
  <2>2. Dict!Drop
    BY <1>1, <1>3, <2>1 DEF Dict!Drop
  <2>. QED
    BY <2>2 DEF Maps, Dict!DictNext
<1>4. ASSUME NEW k \in {arg, NoKey}, Return(FALSE, k)
      PROVE  Maps
  BY <1>1, <1>2, <1>4, RemovedMaps DEF Return
<1>5. CASE DeleteAlone
  <2>1. \/ pc' # "find" /\ UNCHANGED <<op, arg, ret>>
        \/ Return(FALSE, arg)
    BY <1>5 DEF DeleteAlone, StartRehash
  <2>. QED
    BY <2>1, <1>3, <1>4
<1>. QED
  BY <1>4, <1>5 DEF DeleteHead, DeleteOverflow

\* A deletion returns after its rehash: the key has gone before.
LEMMA DeleteReturnMaps ==
  ASSUME NEW o, Inv(o), DeleteReturn
  PROVE  Maps
<1>1. Stored' = Stored
  BY DeleteReturnKeeps, StoredAfter
<1>2. /\ op = "delete" /\ pc # "find"
      /\ op' = "none" /\ arg' = NoKey /\ ret' = [found |-> FALSE, node |-> arg]
  BY DEF DeleteReturn, Return
<1>3. DictOp = "deleted" /\ DictOp' = "none"
  BY <1>2 DEF DictOp
<1>4. Dict!ReturnDropped
  BY <1>1, <1>2, <1>3 DEF Dict!ReturnDropped, Dict!Return
<1>. QED
  BY <1>4 DEF Maps, Dict!DictNext

\* A step of hash_clear takes a key out.
LEMMA ClearMaps ==
  ASSUME NEW o, Inv(o), ClearOverflow \/ ClearHead
  PROVE  Maps
<1>1. PICK k \in KeysNow(o) : Reaches(KeysNow(o) \ {k})
  BY ClearOverflowKeeps, ClearHeadKeeps
<1>2. Stored' \in SUBSET Stored
  BY <1>1, StoredAfter
<1>3. DictOp = "clear" /\ UNCHANGED <<DictOp, arg, ret>>
  <2>1. op = "clear" /\ UNCHANGED <<op, arg, ret>>
    BY DEF Inv, Called, ClearOverflow, ClearHead
  <2>. QED
    BY <2>1, OpIs, OpStays
<1>4. Dict!Drop
  BY <1>2, <1>3 DEF Dict!Drop
<1>. QED
  BY <1>4 DEF Maps, Dict!DictNext

\* hash_clear returns with nothing left.
LEMMA ClearDoneMaps ==
  ASSUME NEW o, Inv(o), ClearDone
  PROVE  Maps
<1>1. Stored' = {}
  BY ClearDoneKeeps, StoredAfter
<1>2. /\ DictOp = "clear" /\ DictOp' = "none" /\ arg' = NoKey
      /\ ret' = [found |-> FALSE, node |-> NoKey]
  <2>1. /\ op = "clear" /\ op' = "none" /\ arg' = NoKey
        /\ ret' = [found |-> FALSE, node |-> NoKey]
    BY DEF Inv, Called, ClearDone, Return
  <2>. QED
    BY <2>1, OpIs, OpEnds
<1>3. Dict!ReturnCleared
  BY <1>1, <1>2 DEF Dict!ReturnCleared, Dict!Return, Dict!NoResult
<1>. QED
  BY <1>3 DEF Maps, Dict!DictNext

\* hash_rehash returns.
LEMMA RehashMaps ==
  ASSUME NEW o, Inv(o), RehashReturn
  PROVE  Maps
<1>1. Stored' = Stored
  BY RehashReturnKeeps, StoredAfter
<1>2. /\ DictOp = "rehash" /\ DictOp' = "none" /\ arg' = NoKey
      /\ ret' = [found |-> pc = "rehashed", node |-> NoKey]
  <2>1. /\ op = "rehash" /\ op' = "none" /\ arg' = NoKey
        /\ ret' = [found |-> pc = "rehashed", node |-> NoKey]
    BY DEF RehashReturn, Return
  <2>. QED
    BY <2>1, OpIs, OpEnds
<1>3. (pc = "rehashed") = TRUE \/ (pc = "rehashed") = FALSE
  OBVIOUS
<1>4. ret' \in [found : BOOLEAN, node : {NoKey}]
  BY <1>2, <1>3
<1>5. Dict!ReturnRehashed
  BY <1>1, <1>2, <1>4 DEF Dict!ReturnRehashed, Dict!Return
<1>. QED
  BY <1>5 DEF Maps, Dict!DictNext

\* Every step maps to one of the dictionary, or to none.
LEMMA StepMaps ==
  ASSUME NEW o, Inv(o), [Next]_vars
  PROVE  Maps
<1>1. CASE \E c \in Candidates : Initialize(c)
  <2>1. UNCHANGED <<op, arg, ret>> /\ op # "delete" /\ Reaches(KeysNow(o))
    BY <1>1, InitializeKeeps DEF Initialize, Inv, Called
  <2>. QED
    BY <2>1, Unseen
<1>2. CASE \E c \in Candidates : CallRehash(c)
  <2>1. /\ pc = "idle" /\ op' = "rehash" /\ arg' = NoKey /\ ret' = NoResult
        /\ Reaches(KeysNow(o))
    BY <1>2, CallRehashKeeps DEF CallRehash
  <2>. QED
    BY <2>1, CallMaps
<1>3. CASE \E f \in {"insert", "lookup", "delete"}, k \in Keys : CallFind(f, k)
  <2>1. PICK f \in {"insert", "lookup", "delete"}, k \in Keys : CallFind(f, k)
    BY <1>3
  <2>2. /\ pc = "idle" /\ op' = f /\ arg' = k /\ ret' = NoResult /\ pc' = "find"
        /\ Reaches(KeysNow(o))
    BY <2>1, CallFindKeeps DEF CallFind, Call
  <2>. QED
    BY <2>1, <2>2, CallMaps
<1>4. CASE CallClear
  <2>1. /\ pc = "idle" /\ op' = "clear" /\ arg' = NoKey /\ ret' = NoResult
        /\ Reaches(KeysNow(o))
    BY <1>4, CallClearKeeps DEF CallClear, Call
  <2>. QED
    BY <2>1, CallMaps
<1>5. CASE Transfer
  <2>1. UNCHANGED <<op, arg, ret>> /\ pc # "find" /\ pc' # "find"
    BY <1>5 DEF Transfer, MoveOverflow, KeepHead, MoveHead, HeadFails, TransferDone,
       HeadsOnly, Transferring
  <2>. QED
    BY <1>5, <2>1, TransferKeeps, Unseen
<1>6. CASE InsertRoom \/ InsertFull \/ Refind \/ Link \/ LinkFails \/ NodeFails
  <2>1. UNCHANGED <<op, arg, ret>> /\ op # "delete"
    BY <1>6 DEF InsertRoom, InsertFull, Refind, Link, LinkFails, NodeFails, Inv, Called
  <2>. QED
    BY <1>6, <2>1, RoomKeeps, FullKeeps, RefindKeeps, LinkKeeps, LinkFailsKeeps,
       NodeFailsKeeps, Unseen
<1>7. CASE InsertFound \/ LookupReturn
  BY <1>7, SearchMaps
<1>8. CASE Store
  BY <1>8, StoreMaps
<1>9. CASE Delete
  BY <1>9, DeleteNoneMaps, DeleteMaps, DeleteReturnMaps DEF Delete
<1>10. CASE Clear
  BY <1>10, ClearMaps, ClearDoneMaps DEF Clear
<1>11. CASE RehashReturn
  BY <1>11, RehashMaps
<1>12. CASE Free
  <2>1. UNCHANGED <<op, arg, ret>> /\ op # "delete"
    BY <1>12 DEF Free, Inv, Called
  <2>. QED
    BY <1>12, <2>1, FreeKeeps, Unseen
<1>13. CASE UNCHANGED vars
  <2>1. Inv(o)' /\ KeysNow(o)' = KeysNow(o)
    BY <1>13, StutterKeeps DEF vars, memory, local, KeysNow
  <2>2. Stored' = Stored /\ UNCHANGED <<pc, op, arg, ret>>
    <3>1. Reaches(KeysNow(o))
      BY <2>1 DEF Reaches
    <3>. QED
      BY <1>13, <3>1, StoredAfter DEF vars
  <2>3. UNCHANGED DictOp
    BY <2>2 DEF DictOp
  <2>. QED
    BY <2>2, <2>3 DEF Maps, Dict!vars
<1>14. CASE Stopped
  BY <1>13, <1>14 DEF Stopped
<1>. QED
  BY <1>1, <1>2, <1>3, <1>4, <1>5, <1>6, <1>7, <1>8, <1>9, <1>10, <1>11, <1>12, <1>13, <1>14
  DEF Next, Step, Insert

\* The table implements the dictionary: across rehashes, failed ones and their
\* undoing, recycled entries and clears, an insertion adds its node alone, a
\* deletion takes its own node out alone, and a search finds what is there.
THEOREM GHashImplementation == Spec => ImplementsDictionary
<1>1. Init => Dict!Init
  <2> SUFFICES ASSUME Init PROVE Dict!Init
    OBVIOUS
  <2>1. PICK o : Inv(o) /\ KeysNow(o) = {}
    BY InitHolds
  <2>2. Stored = {}
    BY <2>1, StoredNow
  <2>. QED
    BY <2>2 DEF Init, Dict!Init, DictOp, NoResult, Dict!NoResult
<1>2. GHashInv /\ [Next]_vars => [Dict!DictNext]_(Dict!vars)
  BY StepMaps DEF GHashInv, Maps
<1>. QED
  BY <1>1, <1>2, GHashInvariance, PTL DEF Spec, ImplementsDictionary, Dict!DictSpec
=============================================================================
