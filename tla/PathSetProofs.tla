--------------------------- MODULE PathSetProofs ----------------------------
(***************************************************************************)
(* What the program makes of its command line and of its input and what it *)
(* prints, for every command line and every input.                         *)
(***************************************************************************)
EXTENDS PathSet, FiniteSetTheorems, SequenceTheorems, NumberLemmas, TLAPS

(***************************************************************************)
(* The load of a set: what SetLoad counts and remembers, for every input,  *)
(* when the value type is wide enough for the line numbers.                *)
(***************************************************************************)
\* WarningRight, with the value of the key in place of its first line.
WarnInv == warned # NoWarning => /\ warned[2] \in DOMAIN input
                                 /\ warned[1] = val[input[warned[2]].text]
                                 /\ warned[1] < warned[2]

\* Inductive: each key has the number of its first line, and it is one that
\* the value type holds and that is not 0.
LoadInv == /\ input \in Seq(Line)
           /\ k = Len(input) + 1 /\ k <= MaxLines + 1
           /\ DOMAIN val = Keys
           /\ \A x \in Keys : IsFirst(input, x, val[x])
           /\ IsFiniteSet(Keys)
           /\ uniq_line = Cardinality(Keys)
           /\ dups_line \in Nat
           /\ uniq_line + dups_line = Len(input)
           /\ WarnInv

\* A key has no two first lines.
LEMMA OneFirst ==
  ASSUME NEW in \in Seq(Line), NEW x, NEW i, NEW j,
         IsFirst(in, x, i), IsFirst(in, x, j)
  PROVE  i = j
<1>1. i \in Nat /\ j \in Nat /\ i >= 1 /\ j >= 1
  BY DEF IsFirst
<1>2. (i < j => i \in 1..(j - 1)) /\ (j < i => j \in 1..(i - 1))
  BY <1>1
<1>. QED
  BY <1>1, <1>2 DEF IsFirst

LEMMA InitLoadInv == Init => LoadInv
<1> SUFFICES ASSUME Init PROVE LoadInv
  OBVIOUS
<1>1. input = <<>> /\ k = 1 /\ dups_line = 0 /\ uniq_line = 0 /\ warned = NoWarning
  BY DEF Init, FirstNumber
<1>2. Keys = {} /\ DOMAIN val = {} /\ Len(input) = 0 /\ input \in Seq(Line)
  BY DEF Init, Keys
<1>3. IsFiniteSet(Keys) /\ Cardinality(Keys) = 0
  BY <1>2, FS_EmptySet
<1>. QED
  BY <1>1, <1>2, <1>3, TextsAssumption DEF LoadInv, WarnInv

(***************************************************************************)
(* One line is read.  The keys of the input grow by its text, if at all;   *)
(* the first lines of the others stay what they were.                      *)
(***************************************************************************)
LEMMA ReadKeepsLoadInv ==
  ASSUME LoadInv, MaxLines < ValueLimit, NEW l \in Line, ReadLine(l)
  PROVE  LoadInv'
<1> DEFINE n == Len(input)
<1>1. /\ n \in Nat /\ k = n + 1 /\ n < MaxLines /\ k \in Nat
      /\ input' = Append(input, l) /\ k' = k + 1
      /\ val' = PutValue(l.text, k)
  BY DEF LoadInv, ReadLine
<1>2. /\ input' \in Seq(Line) /\ Len(input') = n + 1
      /\ DOMAIN input' = 1..(n + 1)
      /\ \A i \in 1..n : input'[i] = input[i]
      /\ input'[n + 1] = l
  BY <1>1 DEF LoadInv
<1>3. DOMAIN input = 1..n
  BY DEF LoadInv
<1>4. Keys' = Keys \cup {l.text}
  BY <1>1, <1>2, <1>3 DEF Keys
<1>5. k' = Len(input') + 1 /\ k' <= MaxLines + 1
  BY <1>1, <1>2, TextsAssumption
<1>6. DOMAIN val' = Keys'
  BY <1>1, <1>4 DEF LoadInv, PutValue
<1>7. k % ValueLimit = k
  BY <1>1, TextsAssumption
<1>8. ASSUME NEW x \in Keys', x \in Keys
      PROVE  val'[x] = val[x] /\ val[x] \in 1..n
  BY <1>1, <1>3, <1>4, <1>8 DEF LoadInv, PutValue, IsFirst
<1>9. ASSUME NEW x \in Keys', x \notin Keys
      PROVE  val'[x] = k /\ x = l.text
  BY <1>1, <1>4, <1>7, <1>9 DEF LoadInv, PutValue
<1>10. ASSUME NEW x \in Keys'
       PROVE  IsFirst(input', x, val'[x])
  <2>1. CASE x \in Keys
    <3>1. IsFirst(input, x, val[x]) /\ val[x] \in 1..n /\ val'[x] = val[x]
      BY <1>8, <2>1 DEF LoadInv
    <3>2. \A j \in 1..(val[x] - 1) : j \in 1..n
      BY <3>1, <1>1
    <3>3. val[x] \in 1..(n + 1)
      BY <3>1, <1>1
    <3>. QED
      BY <1>2, <3>1, <3>2, <3>3 DEF IsFirst
  <2>2. CASE x \notin Keys
    <3>1. val'[x] = n + 1 /\ x = l.text
      BY <1>1, <1>9, <2>2
    <3>2. \A j \in 1..n : input[j].text # x
      BY <1>3, <2>2 DEF Keys
    <3>3. n + 1 \in 1..(n + 1) /\ (n + 1) - 1 = n
      BY <1>1
    <3>. QED
      BY <1>2, <3>1, <3>2, <3>3 DEF IsFirst
  <2>. QED
    BY <2>1, <2>2
<1>11. PutResult(l.text) = IF l.text \in Keys THEN val[l.text] ELSE 0
  BY DEF PutResult, LoadInv
<1>13. /\ IsFiniteSet(Keys')
       /\ Cardinality(Keys') = IF l.text \in Keys THEN Cardinality(Keys)
                                                  ELSE Cardinality(Keys) + 1
  BY <1>4, FS_AddElement DEF LoadInv
<1>14. CASE l.text \in Keys
  <2>1. val[l.text] \in 1..n /\ val'[l.text] = val[l.text] /\ l.text \in Keys'
    BY <1>4, <1>8, <1>14
  <2>2. /\ uniq_line' = uniq_line /\ dups_line' = dups_line + 1
        /\ warned' = <<val[l.text], k>>
    BY <1>1, <1>11, <1>14, <2>1 DEF ReadLine, Counted
  <2>3. Cardinality(Keys') = Cardinality(Keys)
    BY <1>13, <1>14
  <2>4. /\ uniq_line' = Cardinality(Keys') /\ dups_line' \in Nat
        /\ uniq_line' + dups_line' = Len(input')
    BY <1>1, <1>2, <2>2, <2>3, FS_CardinalityType DEF LoadInv
  <2>5. warned'[1] = val[l.text] /\ warned'[2] = n + 1
    BY <1>1, <2>2
  <2>6. input'[warned'[2]].text = l.text /\ warned'[2] \in DOMAIN input'
    BY <1>1, <1>2, <2>5
  <2>7. warned'[1] < warned'[2]
    BY <1>1, <2>1, <2>5
  <2>8. WarnInv'
    BY <2>1, <2>5, <2>6, <2>7 DEF WarnInv
  <2>. QED
    BY <1>2, <1>5, <1>6, <1>10, <1>13, <2>4, <2>8 DEF LoadInv
<1>15. CASE l.text \notin Keys
  <2>1. /\ uniq_line' = uniq_line + 1 /\ dups_line' = dups_line
        /\ warned' = warned
    BY <1>11, <1>15 DEF ReadLine, Counted
  <2>2. Cardinality(Keys') = Cardinality(Keys) + 1 /\ Cardinality(Keys) \in Nat
    BY <1>13, <1>15, FS_CardinalityType DEF LoadInv
  <2>3. /\ uniq_line' = Cardinality(Keys') /\ dups_line' \in Nat
        /\ uniq_line' + dups_line' = Len(input')
    <3>1. /\ uniq_line = Cardinality(Keys) /\ dups_line \in Nat
          /\ uniq_line + dups_line = n
      BY DEF LoadInv
    <3>2. n \in Nat /\ Len(input') = n + 1
      BY <1>1, <1>2
    <3>. HIDE DEF n
    <3>3. uniq_line' = Cardinality(Keys') /\ dups_line' \in Nat
      BY <2>1, <2>2, <3>1
    <3>4. \A u, v \in Nat : u + v = n => (u + 1) + v = n + 1
      BY <3>2
    <3>5. uniq_line \in Nat
      BY <2>2, <3>1
    <3>. QED
      BY <2>1, <3>1, <3>2, <3>3, <3>4, <3>5
  <2>4. WarnInv'
    <3>1. CASE warned = NoWarning
      BY <2>1, <3>1 DEF WarnInv, NoWarning
    <3>2. CASE warned # NoWarning
      <4>1. /\ warned[2] \in 1..n /\ warned[1] < warned[2]
            /\ warned[1] = val[input[warned[2]].text]
        BY <1>3, <3>2 DEF LoadInv, WarnInv
      <4>2. PICK x \in Keys : x = input[warned[2]].text
        BY <1>3, <4>1 DEF Keys
      <4>3. x \in Keys' /\ input'[warned[2]].text = x /\ val'[x] = val[x]
        BY <1>2, <1>4, <1>8, <4>1, <4>2
      <4>4. warned[2] \in DOMAIN input'
        BY <1>1, <1>2, <4>1
      <4>. QED
        BY <2>1, <4>1, <4>2, <4>3, <4>4 DEF WarnInv
    <3>. QED
      BY <3>1, <3>2
  <2>. QED
    BY <1>2, <1>5, <1>6, <1>10, <1>13, <2>3, <2>4 DEF LoadInv
<1>. QED
  BY <1>14, <1>15

(***************************************************************************)
(* The program's numbers are right for every input shorter than the value  *)
(* type counts: LoadInv is an invariant.                                   *)
(***************************************************************************)
THEOREM LoadInvariance ==
  ASSUME MaxLines < ValueLimit
  PROVE  Spec => []LoadInv
<1>1. Init => LoadInv
  BY InitLoadInv
<1>2. LoadInv /\ [Next]_vars => LoadInv'
  <2>. SUFFICES ASSUME LoadInv, [Next]_vars PROVE LoadInv'
    OBVIOUS
  <2>1. CASE \E l \in Line : ReadLine(l)
    BY <2>1, ReadKeepsLoadInv
  <2>2. CASE EndOfInput \/ Loaded \/ UNCHANGED vars
    <3>1. /\ input' = input /\ k' = k /\ val' = val /\ warned' = warned
          /\ uniq_line' = uniq_line /\ dups_line' = dups_line
      BY <2>2 DEF EndOfInput, Loaded, vars
    <3>2. Keys' = Keys
      BY <3>1 DEF Keys
    <3>3. WarnInv'
      BY <3>1 DEF LoadInv, WarnInv, NoWarning
    <3>4. \A x \in Keys' : IsFirst(input', x, val'[x])
      BY <3>1, <3>2 DEF LoadInv
    <3>. QED
      BY <3>1, <3>2, <3>3, <3>4 DEF LoadInv
  <2>. QED
    BY <2>1, <2>2 DEF Next
<1>. QED
  BY <1>1, <1>2, PTL DEF Spec

\* The value of a key is the number of its first line.
LEMMA ValueIsFirst ==
  ASSUME LoadInv, NEW x \in Keys
  PROVE  FirstLine(x) = val[x]
<1>1. IsFirst(input, x, val[x]) /\ val[x] \in DOMAIN input
  BY DEF LoadInv, IsFirst
<1>2. IsFirst(input, x, FirstLine(x))
  BY <1>1 DEF FirstLine
<1>. QED
  BY <1>1, <1>2, OneFirst DEF LoadInv

\* The counters are the numbers of different and of repeated lines.
THEOREM CountsAlwaysRight ==
  ASSUME MaxLines < ValueLimit
  PROVE  Spec => []CountsRight
<1>1. LoadInv => CountsRight
  BY DEF LoadInv, CountsRight
<1>. QED
  BY <1>1, LoadInvariance, PTL

\* Each key keeps the number of the line that first held it.
THEOREM FirstLineAlwaysKept ==
  ASSUME MaxLines < ValueLimit
  PROVE  Spec => []FirstLineKept
<1>1. LoadInv => FirstLineKept
  BY ValueIsFirst DEF LoadInv, FirstLineKept
<1>. QED
  BY <1>1, LoadInvariance, PTL

\* A warning names the first line of the text and a later one that repeats it.
THEOREM WarningsAlwaysRight ==
  ASSUME MaxLines < ValueLimit
  PROVE  Spec => []WarningRight
<1>1. LoadInv => WarningRight
  <2>. SUFFICES ASSUME LoadInv, warned # NoWarning
       PROVE  /\ warned[2] \in DOMAIN input
              /\ warned[1] = FirstLine(input[warned[2]].text)
              /\ warned[1] < warned[2]
    BY DEF WarningRight
  <2>1. /\ warned[2] \in DOMAIN input /\ warned[1] < warned[2]
        /\ warned[1] = val[input[warned[2]].text]
    BY DEF LoadInv, WarnInv
  <2>2. input[warned[2]].text \in Keys
    BY <2>1 DEF Keys
  <2>. QED
    BY <2>1, <2>2, ValueIsFirst
<1>. QED
  BY <1>1, LoadInvariance, PTL
-----------------------------------------------------------------------------
(***************************************************************************)
(* Loading within the program is loading: each of its steps is a step of   *)
(* SetLoad or leaves it alone.  What is shown above of a load holds for it *)
(* of the program's.                                                       *)
(***************************************************************************)
THEOREM ProgramLoads == MainSpec => Spec
<1>1. MainInit => Init
  BY DEF MainInit
<1>2. ASSUME [MainNext]_allVars PROVE [Next]_vars
  <2>1. CASE MainNext
    <3>1. CASE ParseOptions \/ OptionsFail \/ OptionsDone \/ PrintOnly \/ CreateSet
      BY <3>1 DEF ParseOptions, OptionsFail, OptionsDone, PrintOnly, CreateSet
    <3>2. CASE \E l \in Line : LoadLine(l)
      BY <3>2 DEF LoadLine, Next
    <3>3. CASE LoadEnd \/ LoadFails
      BY <3>3 DEF LoadEnd, LoadFails, Next
    <3>4. CASE Act \/ Separate \/ PrintStats \/ Destroy \/ Exited
      BY <3>4 DEF Act, Nop, PrintLines, PrintStops, PrintWarns, PrintElems,
                  Separate, PrintStats, Destroy, Exited, allVars
    <3>. QED
      BY <2>1, <3>1, <3>2, <3>3, <3>4 DEF MainNext, Load
  <2>2. CASE UNCHANGED allVars
    BY <2>2 DEF allVars
  <2>. QED
    BY <1>2, <2>1, <2>2
<1>. QED
  BY <1>1, <1>2, PTL DEF MainSpec, Spec
-----------------------------------------------------------------------------
(***************************************************************************)
(* The load of a hash table                                                *)
(***************************************************************************)
\* The number that is rounded, and what rounding makes of it.
LEMMA RoundedIs ==
  ASSUME NEW m \in Nat \ {0}, NEW n \in Nat
  PROVE  LET q == Rounded(n, m)
             a == 2 * (n * Precision) + m
         IN q \in Nat /\ 2 * (m * q) <= a /\ a < 2 * (m * q) + 2 * m
<1>1. Precision \in Nat /\ n * Precision \in Nat
  BY SizesAssumption
<1> DEFINE a == 2 * n * Precision + m
           b == 2 * m
           q == a \div b
<1>2. a = 2 * (n * Precision) + m /\ a \in Nat /\ b \in Nat \ {0}
  BY <1>1
<1>3. q \in Nat /\ a % b \in 0..(b - 1) /\ a = b * q + (a % b)
  <2> HIDE DEF a, b
  <2>. QED
    BY <1>2, DivModOf
<1>4. b * q = 2 * (m * q)
  BY <1>3
<1>5. Rounded(n, m) = q
  BY DEF Rounded
<1> HIDE DEF q
<1>. QED
  BY <1>2, <1>3, <1>4, <1>5

\* The digits do not fit only in a table that is as good as full, and are one
\* and zeros then.  A linear table is never that full.
LEMMA FracFails ==
  ASSUME NEW m \in Nat \ {0}, NEW n \in 0..m, ~FracHolds(n, m)
  PROVE  /\ AsGoodAsFull([used |-> n, size |-> m])
         /\ compute_size_frac(n, m) = [num |-> 0, denom |-> Precision]
         /\ ~(100 * n < 89 * m)
<1>1. Precision \in Nat /\ Precision >= 5
  BY SizesAssumption
<1> DEFINE q == Rounded(n, m)
<1>2. n * Precision \in Nat /\ m * Precision \in Nat
  BY <1>1
<1>3. q \in Nat /\ 2 * (m * q) <= 2 * (n * Precision) + m
      /\ 2 * (n * Precision) + m < 2 * (m * q) + 2 * m
  BY RoundedIs
<1>4. ~(q - (n \div m) * Precision < Precision)
  BY DEF FracHolds, compute_size_frac
<1> HIDE DEF q
<1>5. n < m
  <2> SUFFICES ASSUME n = m PROVE FALSE
    OBVIOUS
  <2>1. n \div m = 1
    BY DivModIs, n = m * 1 + 0
  <2>2. q >= Precision + Precision
    BY <1>1, <1>3, <1>4, <2>1
  <2>3. PICK d \in Nat : q = Precision + 1 + d
    BY <1>1, <1>3, <2>2, q - Precision - 1 \in Nat
  <2>4. m * q = m * Precision + m + m * d /\ m * d \in Nat
    BY <1>1, <2>3
  <2>. QED
    BY <1>2, <1>3, <2>4
<1>6. n \div m = 0
  BY <1>5, DivModIs, n = m * 0 + n
<1>7. q >= Precision
  BY <1>1, <1>3, <1>4, <1>6
<1>8. q = Precision
  <2> SUFFICES ASSUME q # Precision PROVE FALSE
    OBVIOUS
  <2>1. PICK d \in Nat : q = Precision + 1 + d
    BY <1>1, <1>3, <1>7, q - Precision - 1 \in Nat
  <2>2. m * q = m * Precision + m + m * d /\ m * d \in Nat
    BY <1>1, <2>1
  <2>3. n * Precision <= m * Precision
    BY <1>1, <1>5, TimesGrows
  <2>. QED
    BY <1>2, <1>3, <2>2, <2>3
<1>9. 2 * (m * Precision) <= 2 * (n * Precision) + m
  BY <1>3, <1>8
<1>10. 2 * Precision * (m - n) = 2 * (m * Precision) - 2 * (n * Precision)
  BY <1>1
<1>11. AsGoodAsFull([used |-> n, size |-> m])
  BY <1>2, <1>5, <1>9, <1>10 DEF AsGoodAsFull
<1>12. compute_size_frac(n, m) = [num |-> 0, denom |-> Precision]
  BY <1>1, <1>6, <1>8 DEF compute_size_frac, q
<1>13. ~(100 * n < 89 * m)
  <2>1. PICK d \in Nat \ {0} : m = n + d
    BY <1>5, m - n \in Nat \ {0}
  <2>2. 5 * d <= Precision * d /\ Precision * d \in Nat
    BY <1>1, TimesGrows
  <2>3. m * Precision = n * Precision + Precision * d
    BY <1>1, <2>1
  <2>4. 10 * d <= m
    BY <1>2, <1>9, <2>2, <2>3
  <2>. QED
    BY <2>1, <2>4
<1>. QED
  BY <1>11, <1>12, <1>13

\* When they fit, the number shown is the nearest to n / m.
LEMMA FracNearest ==
  ASSUME NEW m \in Nat \ {0}, NEW n \in Nat, FracHolds(n, m)
  PROVE  LoadRight(compute_size_frac(n, m), [used |-> n, size |-> m])
<1>1. Precision \in Nat /\ Precision >= 5
  BY SizesAssumption
<1> DEFINE q == Rounded(n, m)
           d == n \div m
           e == d * Precision
<1>2. q \in Nat /\ 2 * (m * q) <= 2 * (n * Precision) + m
      /\ 2 * (n * Precision) + m < 2 * (m * q) + 2 * m
  BY RoundedIs
<1>3. d \in Nat /\ n % m \in 0..(m - 1) /\ n = m * d + (n % m)
  BY DivModOf
<1>4. e \in Nat /\ n * Precision \in Nat
  BY <1>1, <1>3
<1>5. compute_size_frac(n, m) = [num |-> d, denom |-> q - e]
  BY DEF compute_size_frac
<1>6. q - e < Precision
  BY DEF FracHolds, compute_size_frac
<1> HIDE DEF q, d
<1>7. m * d <= n /\ m * d \in Nat
  BY <1>3
<1>8. (m * d) * Precision <= n * Precision
  BY <1>1, <1>7, TimesGrows
<1>9. (m * d) * Precision = m * e
  BY <1>1, <1>3
<1> HIDE DEF e
<1>10. e <= q
  <2> SUFFICES ASSUME q < e PROVE FALSE
    BY <1>2, <1>4
  <2>1. PICK c \in Nat : e = q + 1 + c
    BY <1>2, <1>4, e - q - 1 \in Nat
  <2>2. m * e = m * q + m + m * c /\ m * c \in Nat
    BY <1>2, <2>1
  <2>3. m * q \in Nat
    BY <1>2
  <2>. QED
    BY <1>2, <1>4, <1>8, <1>9, <2>2, <2>3
<1>11. q - e \in 0..(Precision - 1)
  BY <1>1, <1>2, <1>4, <1>6, <1>10
<1>12. d * Precision + (q - e) = q
  BY <1>2, <1>4 DEF e
<1>13. m * q \in Nat /\ q * m = m * q
  BY <1>2
<1>14. 2 * (q * m - n * Precision) <= m /\ -(2 * (q * m - n * Precision)) <= m
  BY <1>2, <1>4, <1>13
<1>. QED
  BY <1>5, <1>11, <1>12, <1>14 DEF LoadRight

\* Inductive: nothing comes after the statistics but the end, and the program
\* has no status before it.
ShownInv ==
  /\ LoadShown
  /\ shown # Nothing /\ IsHash(shown.type) =>
       shown.table.size \in Sizes /\ shown.table.used \in Nat
  /\ shown # Nothing => stage \in {"end", "exit"}
  /\ stage # "exit" => status = -1

LEMMA ShownInvariance == MainSpec => []ShownInv
<1>1. MainInit => ShownInv
  BY DEF MainInit, ShownInv, LoadShown
<1>2. ASSUME ShownInv, [MainNext]_allVars PROVE ShownInv'
  <2>1. CASE PrintStats
    <3>1. PICK t \in IF IsHash(set.type) THEN TablesOf(set.type) ELSE {NoInfo} :
            LET h == IF set.type[2] = "ghash" THEN info' ELSE t
                load == IF IsHash(set.type) THEN compute_size_frac(h.used, h.size)
                                            ELSE Nothing
            IN /\ info' = IF set.type[2] = "ghash" THEN Refreshed(t) ELSE info
               /\ shown' = [type |-> set.type, table |-> t, load |-> load,
                            uniq_line |-> uniq_line, dups_line |-> dups_line,
                            line_mem |-> line_mem]
               /\ \/ stage' = "end" /\ UNCHANGED status
                  \/ /\ IsHash(set.type) /\ ~FracHolds(h.used, h.size)
                     /\ stage' = "exit" /\ status' = 127
      BY <2>1 DEF PrintStats, Exit
    <3>2. status = -1
      BY <2>1, <1>2 DEF PrintStats, ShownInv
    <3>3. CASE ~IsHash(set.type)
      <4>1. shown'.type = set.type /\ status' = -1 /\ stage' = "end"
        BY <3>1, <3>2, <3>3
      <4>. QED
        BY <4>1, <3>3 DEF ShownInv, LoadShown, IsHash
    <3>4. CASE IsHash(set.type)
      <4>1. t \in TablesOf(set.type)
        BY <3>1, <3>4
      <4>2. /\ t.size \in Sizes /\ t.used \in 0..t.size
            /\ t = [used |-> t.used, size |-> t.size]
            /\ set.type[2] = "lhash" => 100 * t.used < 89 * t.size
        BY <4>1 DEF TablesOf
      <4>3. t.size \in Nat \ {0} /\ t.used \in Nat
        BY <4>2, SizesAssumption
      <4>4. (IF set.type[2] = "ghash" THEN info' ELSE t) = t
        BY <3>1 DEF Refreshed
      <4>5. /\ shown'.type = set.type /\ shown'.table = t
            /\ shown'.load = compute_size_frac(t.used, t.size)
            /\ \/ stage' = "end" /\ status' = -1
               \/ stage' = "exit" /\ ~FracHolds(t.used, t.size)
        BY <3>1, <3>2, <3>4, <4>4
      <4>6. CASE FracHolds(t.used, t.size)
        <5>1. LoadRight(shown'.load, shown'.table)
          BY <4>2, <4>3, <4>5, <4>6, FracNearest
        <5>. QED
          BY <4>2, <4>3, <4>5, <4>6, <5>1 DEF ShownInv, LoadShown, LoadRight
      <4>7. CASE ~FracHolds(t.used, t.size)
        <5>1. /\ AsGoodAsFull(shown'.table)
              /\ shown'.load = [num |-> 0, denom |-> Precision]
              /\ ~(100 * t.used < 89 * t.size)
          BY <4>2, <4>3, <4>5, <4>7, FracFails
        <5>2. shown'.type[2] = "ghash"
          BY <3>4, <4>2, <4>5, <5>1 DEF IsHash
        <5>. QED
          BY <4>2, <4>3, <4>5, <5>1, <5>2 DEF ShownInv, LoadShown, AsGoodAsFull
      <4>. QED
        BY <4>6, <4>7
    <3>. QED
      BY <3>3, <3>4
  <2>2. ASSUME shown' = shown, shown = Nothing, stage' # "exit" => status' = -1
        PROVE  ShownInv'
    BY <2>2 DEF ShownInv, LoadShown
  <2>3. ASSUME shown' = shown, stage = "end", stage' = "exit", status' = 0
        PROVE  ShownInv'
    BY <2>3, <1>2 DEF ShownInv, LoadShown, LoadRight, AsGoodAsFull, IsHash
  <2>4. CASE UNCHANGED <<shown, stage, status>>
    BY <2>4, <1>2 DEF ShownInv, LoadShown, LoadRight, AsGoodAsFull, IsHash
  <2>5. stage \notin {"end", "exit"} => shown = Nothing /\ status = -1
    BY <1>2 DEF ShownInv
  <2>6. CASE ParseOptions \/ OptionsFail \/ OptionsDone \/ PrintOnly \/ CreateSet
    <3>1. /\ shown' = shown /\ stage \in {"options", "main"}
          /\ stage' # "exit" => status' = status
      BY <2>6 DEF ParseOptions, OptionsFail, OptionsDone, PrintOnly, CreateSet, Exit, mainVars
    <3>. QED
      BY <3>1, <2>2, <2>5
  <2>7. CASE Load
    <3>1. /\ shown' = shown /\ stage = "load" /\ stage' # "exit" => status' = status
      BY <2>7 DEF Load, LoadLine, LoadFails, LoadEnd, Exit, mainVars
    <3>2. shown' = shown /\ stage = "load"
      BY <2>7 DEF Load, LoadLine, LoadFails, LoadEnd, Exit, mainVars
    <3>. QED
      BY <3>1, <3>2, <2>2, <2>5
  <2>8. CASE Act \/ Separate
    <3>1. /\ shown' = shown /\ stage \in {"act", "acted"}
          /\ stage' # "exit" => status' = status
      BY <2>8 DEF Act, Nop, PrintLines, PrintStops, PrintWarns, PrintElems, PrintsLines,
                  AfterAct, Separate, Exit
    <3>. QED
      BY <3>1, <2>2, <2>5
  <2>9. CASE Destroy
    BY <2>9, <2>3 DEF Destroy, Exit
  <2>10. CASE Exited \/ UNCHANGED allVars
    BY <2>10, <2>4 DEF Exited, allVars, mainVars
  <2>. QED
    BY <1>2, <2>1, <2>6, <2>7, <2>8, <2>9, <2>10 DEF MainNext
<1>. QED
  BY <1>1, <1>2, PTL DEF MainSpec

(***************************************************************************)
(* While tables have fewer than 2 * Precision buckets, 200000 in the code, *)
(* the load is always the nearest fraction, and no table makes the program *)
(* stop at the assertion of compute_size_frac.                             *)
(***************************************************************************)
LoadsFit == shown # Nothing => /\ status # 127
                               /\ IsHash(shown.type) => LoadRight(shown.load, shown.table)

THEOREM LoadsAlwaysFit ==
  ASSUME \A n \in Sizes : n < 2 * Precision
  PROVE  MainSpec => []LoadsFit
<1>1. ShownInv => LoadsFit
  <2> SUFFICES ASSUME ShownInv, shown # Nothing
               PROVE  ~(IsHash(shown.type) /\ AsGoodAsFull(shown.table))
    BY DEF ShownInv, LoadShown, LoadsFit, IsHash
  <2> SUFFICES ASSUME IsHash(shown.type), AsGoodAsFull(shown.table) PROVE FALSE
    OBVIOUS
  <2> DEFINE n == shown.table.used
             m == shown.table.size
  <2>1. m \in Sizes /\ n \in Nat /\ n < m /\ 2 * Precision * (m - n) <= m
    BY DEF ShownInv, AsGoodAsFull
  <2>2. m \in Nat /\ Precision \in Nat /\ m < 2 * Precision
    BY <2>1, SizesAssumption
  <2> HIDE DEF n, m
  <2>3. PICK d \in Nat : m - n = 1 + d
    BY <2>1, <2>2, m - n - 1 \in Nat
  <2>4. 2 * Precision * (1 + d) = 2 * Precision + 2 * (Precision * d) /\ Precision * d \in Nat
    BY <2>2, <2>3
  <2>. QED
    BY <2>1, <2>2, <2>3, <2>4
<1>. QED
  BY <1>1, ShownInvariance, PTL
-----------------------------------------------------------------------------
(***************************************************************************)
(* The error messages                                                      *)
(***************************************************************************)
\* Inductive: a long option is alone in its element, and as long as anything is
\* left in the element, it is that.
ScanInv ==
  /\ rest \in Seq(STRING)
  /\ parsing = "scan" /\ cur.long /\ rest # << >> =>
       rest = cur.options /\ Len(cur.options) = 1
  /\ ErrorNamesOption

LEMMA KindsApart ==
  /\ \A o \in FlagNames \cup BitNames : o \in Known /\ o \notin ArgNames
  /\ ArgNames \subseteq Known
BY DEF FlagNames, Flags, BitNames, Bits, ArgNames, FieldOf, Known

LEMMA ParseErrors ==
  ASSUME NEW o \in ArgNames, NEW text
  PROVE  Parse(o, text).error \in {"none", "invalid", "illegal"}
<1>1. \A max : parse_su_size_optarg(text, max).error \in {"none", "invalid", "illegal"}
  BY DEF parse_su_size_optarg, Taken, Invalid, Illegal
<1>2. \A l, u : parse_float_optarg(text, l, u).error \in {"none", "invalid", "illegal"}
  BY DEF parse_float_optarg, Taken, Invalid, Illegal
<1>3. parse_sep_set_optarg(text).error \in {"none", "invalid", "illegal"}
  BY DEF parse_sep_set_optarg, Taken, Invalid, Illegal
<1>4. \A names : Lookup(names, text).error \in {"none", "invalid", "illegal"}
  BY DEF Lookup, Taken, Invalid
<1>5. o \in {"p", "h", "n", "r", "s", "z", "l", "t"}
  BY DEF ArgNames, FieldOf
<1>. QED
  BY <1>1, <1>2, <1>3, <1>4, <1>5 DEF Parse

LEMMA ScanKeepsInv ==
  ASSUME ScanInv, Scan
  PROVE  ScanInv'
<1>1. ASSUME NEW a \in Argv, NextElement(a) PROVE ScanInv'
  BY <1>1, ArgvAssumption DEF ScanInv, NextElement, ErrorNamesOption
<1>2. ASSUME NEW o, At(o)
      PROVE  /\ o = Head(rest) /\ parsing = "scan"
             /\ rest \in Seq(STRING) /\ Len(rest) >= 1
             /\ Tail(rest) \in Seq(STRING) /\ Len(Tail(rest)) = Len(rest) - 1
             /\ cur.long => Len(rest) = 1 /\ o = Head(cur.options)
             /\ Len(rest) > 1 => ~cur.long
  <2>1. /\ o = Head(rest) /\ parsing = "scan" /\ rest # << >> /\ rest \in Seq(STRING)
    BY <1>2 DEF At, ScanInv
  <2>2. Len(rest) >= 1
    BY <2>1, EmptySeq
  <2>3. Tail(rest) \in Seq(STRING) /\ Len(Tail(rest)) = Len(rest) - 1
    BY <2>1, <2>2
  <2>4. cur.long => rest = cur.options /\ Len(rest) = 1
    BY <2>1 DEF ScanInv
  <2>5. ~(1 > 1)
    OBVIOUS
  <2>6. cur.long => ~(Len(rest) > 1)
    BY <2>4, <2>5, Zenon
  <2>. QED
    BY <2>1, <2>2, <2>3, <2>4, <2>6
<1>3. ASSUME NEW o, TakeFlag(o) \/ TakeBit(o) \/ AskUsage(o) PROVE ScanInv'
  <2>1. /\ At(o) /\ rest' = Tail(rest) /\ UNCHANGED <<cur, parsing>>
    BY <1>3 DEF TakeFlag, TakeBit, AskUsage
  <2>. QED
    BY <2>1, <1>2 DEF ScanInv, ErrorNamesOption
<1>4. ASSUME NEW o, NEW text, At(o), o \in ArgNames, Argument(o, text)
      PROVE  \/ rest' = << >> /\ parsing' = "scan"
             \/ /\ parsing' = "error" /\ rest' = rest /\ said'.option = o
                /\ said'.kind \in {"invalid", "illegal"}
  BY <1>2, <1>4, ParseErrors DEF Argument
<1>5. ASSUME NEW o, TakeArgHere(o) PROVE ScanInv'
  <2>1. At(o) /\ o \in ArgNames /\ Argument(o, cur.text) /\ UNCHANGED cur
    BY <1>5 DEF TakeArgHere
  <2>2. o \in Known /\ FaultAt(o) = "argument"
    BY <2>1, KindsApart DEF FaultAt
  <2>3. \/ rest' = << >> /\ parsing' = "scan"
        \/ /\ parsing' = "error" /\ rest' = rest /\ said'.option = o
           /\ said'.kind \in {"invalid", "illegal"}
    BY <2>1, <1>4
  <2>4. ErrorNamesOption'
    BY <2>1, <2>2, <2>3, <1>2 DEF ErrorNamesOption, FaultAt
  <2>5. rest' \in Seq(STRING)
    BY <2>3, EmptySeq DEF ScanInv
  <2>6. parsing' = "scan" => rest' = << >>
    BY <2>3
  <2>. QED
    BY <2>4, <2>5, <2>6 DEF ScanInv
<1>6. ASSUME NEW o, NEW a \in Argv, TakeArgNext(o, a) PROVE ScanInv'
  <2>1. /\ At(o) /\ o \in ArgNames /\ cur' = a
        /\ Argument(o, IF a.options = << >> THEN a.text ELSE Other)
    BY <1>6 DEF TakeArgNext
  <2>2. o \in Known /\ FaultAt(o) = "argument"
    BY <2>1, KindsApart DEF FaultAt
  <2>3. \/ rest' = << >> /\ parsing' = "scan"
        \/ /\ parsing' = "error" /\ rest' = rest /\ said'.option = o
           /\ said'.kind \in {"invalid", "illegal"}
    BY <2>1, <1>4
  <2>4. ErrorNamesOption'
    BY <2>1, <2>2, <2>3, <1>2 DEF ErrorNamesOption, FaultAt
  <2>5. rest' \in Seq(STRING)
    BY <2>3, EmptySeq DEF ScanInv
  <2>6. parsing' = "scan" => rest' = << >>
    BY <2>3
  <2>. QED
    BY <2>4, <2>5, <2>6 DEF ScanInv
<1>7. ASSUME NEW o, MissingArg(o) PROVE ScanInv'
  <2>1. /\ At(o) /\ o \in ArgNames /\ UNCHANGED <<cur, rest, prev>>
        /\ said' = [kind |-> "missing", option |-> o]
    BY <1>7 DEF MissingArg, Fail
  <2>2. o \in Known /\ FaultAt(o) = "argument"
    BY <2>1, KindsApart DEF FaultAt
  <2>. QED
    BY <2>1, <2>2, <1>2 DEF ScanInv, ErrorNamesOption
<1>8. ASSUME NEW o, UnknownLong(o) PROVE ScanInv'
  <2>1. /\ At(o) /\ o \notin Known /\ cur.long /\ UNCHANGED <<cur, rest, prev>>
        /\ said' = [kind |-> "unknown", option |-> Head(ArgvOptind.options)]
    BY <1>8 DEF UnknownLong, Fail
  <2>2. ArgvOptind = cur
    BY <2>1, <1>2 DEF ArgvOptind
  <2>. QED
    BY <2>1, <2>2, <1>2 DEF ScanInv, ErrorNamesOption, FaultAt
<1>9. ASSUME NEW o, Refuse(o) PROVE ScanInv'
  <2>1. /\ At(o) /\ UNCHANGED <<cur, rest, prev>>
        /\ \/ ~cur.long /\ o \notin Known
           \/ o \in FlagNames \cup BitNames /\ cur.long
        /\ said' = IF ArgvOptind.long
                   THEN [kind |-> "not_allowed", option |-> Head(ArgvOptind.options)]
                   ELSE [kind |-> "unknown", option |-> o]
    BY <1>9 DEF Refuse, Fail, Surplus
  <2>2. CASE cur.long
    <3>1. ArgvOptind = cur /\ FaultAt(o) = "not_allowed"
      BY <2>1, <2>2, <1>2, KindsApart DEF ArgvOptind, FaultAt
    <3>. QED
      BY <2>1, <2>2, <3>1, <1>2 DEF ScanInv, ErrorNamesOption
  <2>3. CASE ~cur.long
    <3>1. o \notin Known /\ FaultAt(o) = "unknown"
      BY <2>1, <2>3 DEF FaultAt
    <3>2. ArgvOptind.long => Len(rest) > 1 /\ ArgvOptind = prev
      BY <2>3 DEF ArgvOptind
    <3>. QED
      BY <2>1, <2>3, <3>1, <3>2, <1>2 DEF ScanInv, ErrorNamesOption
  <2>. QED
    BY <2>2, <2>3
<1>. QED
  BY <1>1, <1>3, <1>5, <1>6, <1>7, <1>8, <1>9 DEF Scan

(***************************************************************************)
(* ErrorNamesOption, for every command line however long.                  *)
(***************************************************************************)
THEOREM ErrorsNameTheOption == MainSpec => []ErrorNamesOption
<1>1. MainInit => ScanInv
  BY DEF MainInit, OptionsInit, ScanInv, ErrorNamesOption, ProgramName
<1>2. ASSUME ScanInv, [MainNext]_allVars PROVE ScanInv'
  <2>1. CASE ParseOptions
    BY <2>1, <1>2, ScanKeepsInv DEF ParseOptions
  <2>2. CASE OptionsDone
    BY <2>2, <1>2 DEF OptionsDone, EndOfOptions, ScanInv, ErrorNamesOption,
                      NoElement, ProgramName
  <2>3. CASE CreateSet
    BY <2>3, <1>2 DEF CreateSet, ScanInv, ErrorNamesOption
  <2>4. CASE UNCHANGED optionsVars
    BY <2>4, <1>2 DEF optionsVars, scanning, ScanInv, ErrorNamesOption
  <2>5. CASE OptionsFail \/ PrintOnly \/ Load \/ Act
    BY <2>4, <2>5 DEF OptionsFail, PrintOnly, Load, LoadLine, LoadEnd, LoadFails,
                      Act, Nop, PrintLines, PrintStops, PrintWarns, PrintElems
  <2>6. CASE Separate \/ PrintStats \/ Destroy \/ Exited \/ UNCHANGED allVars
    BY <2>4, <2>6 DEF Separate, PrintStats, Destroy, Exited, allVars
  <2>. QED
    BY <1>2, <2>1, <2>2, <2>3, <2>5, <2>6 DEF MainNext
<1>3. ScanInv => ErrorNamesOption
  BY DEF ScanInv
<1>. QED
  BY <1>1, <1>2, <1>3, PTL DEF MainSpec

(***************************************************************************)
(* The output                                                              *)
(***************************************************************************)
\* The place of a block among those it can be printed with.
Rank == [lines |-> 1, elems |-> 1, blank |-> 2, stats |-> 3,
         print_config |-> 1, print_sizes |-> 1, print_names |-> 1,
         version |-> 1, dump |-> 2, usage_stats |-> 3, usage |-> 4]
Blocks == DOMAIN Rank
BitWords == {"version", "dump", "usage_stats", "usage"}

Ranked(s) == /\ s \in Seq(Blocks)
             /\ \A i, j \in DOMAIN s : i < j => Rank[s[i]] < Rank[s[j]]

Words(s) == {s[i] : i \in DOMAIN s}

Among(s, words) == \A i \in DOMAIN s : s[i] \in words

\* Nothing was to be printed but statistics.
Bare == opts.action = "load_only" \/ Keys = {}

\* What the stages but the first, the second and the last have.
SetMade == stage \notin {"options", "main", "exit"} => set.type = TypeOf(opts)

\* Inductive: what has been printed at each stage, always in the order of the
\* ranks, and when nothing has, why that is so.
OutInv ==
  /\ DOMAIN val = Keys /\ input \in Seq(Line)
  /\ bits \subseteq BitWords
  /\ SetMade
  /\ stage = "options" => parsing \in {"scan", "error"}
  /\ stage \notin {"options", "exit"} => parsing \in {"set", "done"}
  /\ Ranked(out)
  /\ stage \in {"options", "main", "load", "act"} \/ parsing = "error" => out = << >>
  /\ stage = "acted" => /\ Among(out, {"lines", "elems"})
                        /\ IF out = << >> THEN Bare \/ NothingAbove ELSE ~Bare
  /\ stage = "stats" => /\ Among(out, {"lines", "elems", "blank"})
                        /\ IF out = << >> THEN Bare ELSE out[Len(out)] = "blank"
  /\ parsing = "told" => /\ stage = "exit"
                         /\ Words(out) = bits
  /\ parsing # "told" => Among(out, Blocks \ {"version", "dump", "usage_stats", "usage"})
  /\ \A i \in DOMAIN out :
       /\ out[i] = "stats" => IF i = 1 THEN Bare ELSE out[i - 1] = "blank"
       /\ out[i] = "blank" => IF i = 1 THEN NothingAbove
                                       ELSE out[i - 1] \in {"lines", "elems"}

\* The ranks of the blocks.
LEMMA RankIs ==
  /\ Blocks = BitWords \cup {"lines", "elems", "blank", "stats",
                             "print_config", "print_sizes", "print_names"}
  /\ \A w \in Blocks : Rank[w] \in 1..4
  /\ Rank["lines"] = 1 /\ Rank["elems"] = 1 /\ Rank["blank"] = 2 /\ Rank["stats"] = 3
  /\ Rank["version"] = 1 /\ Rank["dump"] = 2 /\ Rank["usage_stats"] = 3
  /\ Rank["usage"] = 4
BY DEF Rank, Blocks, BitWords

LEMMA OutShape ==
  ASSUME OutInv PROVE OutputShape
<1>1. out \in Seq(Blocks) /\ Len(out) \in Nat /\ DOMAIN out = 1..Len(out)
  BY DEF OutInv, Ranked
<1>2. \A i \in DOMAIN out : out[i] \in Blocks /\ Rank[out[i]] \in 1..4
  BY <1>1, RankIs
<1>3. ASSUME NEW i \in DOMAIN out, NEW j \in DOMAIN out, out[i] = out[j]
      PROVE  i = j
  <2>1. ~(i < j) /\ ~(j < i)
    BY <1>2, <1>3 DEF OutInv, Ranked
  <2>. QED
    BY <1>1, <2>1
<1>4. ASSUME NEW i \in DOMAIN out, out[i] = "stats" PROVE i = Len(out)
  <2>1. parsing # "told"
    BY <1>4 DEF OutInv, BitWords, Words
  <2>2. Rank[out[Len(out)]] \in 1..3
    <3>1. out[Len(out)] \in Blocks \ {"usage"}
      BY <1>1, <1>2, <2>1 DEF OutInv, Among
    <3>2. \A w \in Blocks \ {"usage"} : Rank[w] \in 1..3
      BY DEF Rank, Blocks
    <3>. QED
      BY <3>1, <3>2
  <2>3. ~(i < Len(out))
    <3>1. Len(out) \in DOMAIN out
      BY <1>1
    <3>. QED
      BY <1>2, <1>4, <2>2, <3>1, RankIs DEF OutInv, Ranked
  <2>. QED
    BY <1>1, <2>3
<1>5. ASSUME NEW i \in DOMAIN out, NEW j \in DOMAIN out, i < j,
             NEW m \in DOMAIN Asked, NEW n \in DOMAIN Asked,
             out[i] = Asked[m], out[j] = Asked[n]
      PROVE  m < n
  <2>1. DOMAIN Asked = 1..4 /\ \A x \in 1..4 : Rank[Asked[x]] = x
    BY RankIs DEF Asked
  <2>2. Rank[out[i]] < Rank[out[j]]
    BY <1>5 DEF OutInv, Ranked
  <2>. QED
    BY <1>5, <2>1, <2>2
<1>. QED
  BY <1>3, <1>4, <1>5 DEF OutInv, OutputShape, Words, Bare

LEMMA AppendRanked ==
  ASSUME NEW s, Ranked(s), NEW w \in Blocks, \A i \in DOMAIN s : Rank[s[i]] < Rank[w]
  PROVE  /\ Ranked(Append(s, w))
         /\ Len(Append(s, w)) = Len(s) + 1
         /\ DOMAIN Append(s, w) = 1..(Len(s) + 1)
         /\ Append(s, w)[Len(s) + 1] = w
         /\ \A i \in DOMAIN s : Append(s, w)[i] = s[i]
         /\ DOMAIN s = 1..Len(s) /\ Len(s) \in Nat
<1>1. s \in Seq(Blocks) /\ DOMAIN s = 1..Len(s) /\ Len(s) \in Nat
  BY DEF Ranked
<1> DEFINE t == Append(s, w)
<1>2. /\ t \in Seq(Blocks) /\ Len(t) = Len(s) + 1 /\ DOMAIN t = 1..(Len(s) + 1)
      /\ t[Len(s) + 1] = w /\ \A i \in DOMAIN s : t[i] = s[i]
  BY <1>1
<1> HIDE DEF t
<1>3. ASSUME NEW i \in DOMAIN t, NEW j \in DOMAIN t, i < j PROVE Rank[t[i]] < Rank[t[j]]
  <2>1. i \in DOMAIN s
    BY <1>1, <1>2, <1>3
  <2>2. CASE j \in DOMAIN s
    BY <1>2, <1>3, <2>1, <2>2 DEF Ranked
  <2>3. CASE j \notin DOMAIN s
    <3>1. j = Len(s) + 1
      BY <1>1, <1>2, <2>3
    <3>. QED
      BY <1>2, <2>1, <3>1
  <2>. QED
    BY <2>2, <2>3
<1>4. Ranked(t)
  BY <1>2, <1>3 DEF Ranked
<1>. QED
  BY <1>1, <1>2, <1>4 DEF t

\* Two sequences of which the first has lower ranks than the second.
LEMMA ConcatRanked ==
  ASSUME NEW s, NEW t, Ranked(s), Ranked(t),
         \A v \in Words(s), w \in Words(t) : Rank[v] < Rank[w]
  PROVE  Ranked(s \o t) /\ Words(s \o t) = Words(s) \cup Words(t)
<1>1. /\ s \in Seq(Blocks) /\ DOMAIN s = 1..Len(s) /\ Len(s) \in Nat
      /\ t \in Seq(Blocks) /\ DOMAIN t = 1..Len(t) /\ Len(t) \in Nat
  BY DEF Ranked
<1> DEFINE m == Len(s)
           n == Len(t)
           u == s \o t
           V == Words(s)
           W == Words(t)
<1>2. /\ u \in Seq(Blocks) /\ Len(u) = m + n /\ DOMAIN u = 1..(m + n)
      /\ \A i \in 1..(m + n) : u[i] = IF i <= m THEN s[i] ELSE t[i - m]
  <2>1. u \in Seq(Blocks) /\ Len(u) = m + n
    BY <1>1, ConcatProperties
  <2>2. DOMAIN u = 1..(m + n)
    BY <2>1
  <2>. QED
    BY <1>1, <2>1, <2>2, ConcatProperties
<1> HIDE DEF u
<1>3. ASSUME NEW i \in 1..(m + n), i <= m PROVE i \in DOMAIN s /\ u[i] = s[i] /\ u[i] \in V
  <2>1. i \in DOMAIN s /\ u[i] = s[i]
    BY <1>1, <1>2, <1>3
  <2>. QED
    BY <2>1 DEF Words
<1>4. ASSUME NEW i \in 1..(m + n), ~(i <= m)
      PROVE  i - m \in DOMAIN t /\ u[i] = t[i - m] /\ u[i] \in W
  <2>1. i - m \in DOMAIN t /\ u[i] = t[i - m]
    BY <1>1, <1>2, <1>4
  <2>. QED
    BY <2>1 DEF Words
<1>5. ASSUME NEW i \in 1..(m + n), NEW j \in 1..(m + n), i < j
      PROVE  Rank[u[i]] < Rank[u[j]]
  <2>1. CASE j <= m
    BY <1>1, <1>3, <1>5, <2>1 DEF Ranked
  <2>2. CASE ~(j <= m) /\ i <= m
    BY <1>3, <1>4, <2>2
  <2>3. CASE ~(j <= m) /\ ~(i <= m)
    <3>1. /\ i - m \in DOMAIN t /\ j - m \in DOMAIN t /\ i - m < j - m
          /\ u[i] = t[i - m] /\ u[j] = t[j - m]
      BY <1>1, <1>4, <1>5, <2>3
    <3>. QED
      BY <3>1 DEF Ranked
  <2>. QED
    BY <1>1, <1>5, <2>1, <2>2, <2>3
<1>6. Ranked(u)
  BY <1>2, <1>5 DEF Ranked
<1>7. Words(u) = V \cup W
  <2>1. \A i \in DOMAIN u : u[i] \in V \cup W
    BY <1>2, <1>3, <1>4
  <2>2. ASSUME NEW i \in DOMAIN s PROVE \E j \in DOMAIN u : u[j] = s[i]
    <3>1. i \in 1..(m + n) /\ i <= m
      BY <1>1
    <3>. QED
      BY <1>2, <1>3, <3>1
  <2>3. ASSUME NEW i \in DOMAIN t PROVE \E j \in DOMAIN u : u[j] = t[i]
    <3>1. m + i \in 1..(m + n) /\ ~(m + i <= m) /\ (m + i) - m = i
      BY <1>1
    <3>. QED
      BY <1>2, <1>4, <3>1
  <2>. QED
    BY <2>1, <2>2, <2>3 DEF Words
<1>. QED
  BY <1>6, <1>7 DEF u

\* What is told: the words asked for, in the order of the code.
AllTold == Told("version") \o Told("dump") \o Told("usage_stats") \o Told("usage")

LEMMA ToldRanked ==
  ASSUME bits \subseteq BitWords
  PROVE  Ranked(AllTold) /\ Words(AllTold) = bits
<1>1. ASSUME NEW w \in BitWords
      PROVE  Ranked(Told(w)) /\ Words(Told(w)) = bits \cap {w}
  <2>1. w \in Blocks
    BY RankIs
  <2>2. CASE w \in bits
    <3>1. Told(w) = <<w>>
      BY <2>2 DEF Told
    <3>2. <<w>> \in Seq(Blocks) /\ DOMAIN <<w>> = {1} /\ <<w>>[1] = w
      BY <2>1
    <3>3. bits \cap {w} = {w}
      BY <2>2
    <3>. QED
      BY <3>1, <3>2, <3>3 DEF Ranked, Words
  <2>3. CASE w \notin bits
    <3>1. Told(w) = << >>
      BY <2>3 DEF Told
    <3>2. << >> \in Seq(Blocks) /\ DOMAIN << >> = {}
      OBVIOUS
    <3>3. bits \cap {w} = {}
      BY <2>3
    <3>. QED
      BY <3>1, <3>2, <3>3 DEF Ranked, Words
  <2>. QED
    BY <2>2, <2>3
<1> DEFINE a == Told("version") \o Told("dump")
           b == a \o Told("usage_stats")
<1>2. /\ Ranked(Told("version")) /\ Words(Told("version")) = bits \cap {"version"}
      /\ Ranked(Told("dump")) /\ Words(Told("dump")) = bits \cap {"dump"}
      /\ Ranked(Told("usage_stats"))
      /\ Words(Told("usage_stats")) = bits \cap {"usage_stats"}
      /\ Ranked(Told("usage")) /\ Words(Told("usage")) = bits \cap {"usage"}
  BY <1>1 DEF BitWords
<1>3. Ranked(a) /\ Words(a) = bits \cap {"version", "dump"}
  <2>1. \A v \in Words(Told("version")), w \in Words(Told("dump")) : Rank[v] < Rank[w]
    BY <1>2, RankIs
  <2>2. Ranked(a) /\ Words(a) = Words(Told("version")) \cup Words(Told("dump"))
    BY <1>2, <2>1, ConcatRanked
  <2>. HIDE DEF a
  <2>. QED
    BY <1>2, <2>2
<1>4. Ranked(b) /\ Words(b) = bits \cap {"version", "dump", "usage_stats"}
  <2>1. \A v \in Words(a), w \in Words(Told("usage_stats")) : Rank[v] < Rank[w]
    <3>. HIDE DEF a
    <3>. QED
      BY <1>2, <1>3, RankIs
  <2>2. Ranked(b) /\ Words(b) = Words(a) \cup Words(Told("usage_stats"))
    BY <1>2, <1>3, <2>1, ConcatRanked
  <2>. HIDE DEF a, b
  <2>. QED
    BY <1>2, <1>3, <2>2
<1>5. Ranked(AllTold) /\ Words(AllTold) = bits
  <2>1. \A v \in Words(b), w \in Words(Told("usage")) : Rank[v] < Rank[w]
    <3>. HIDE DEF a, b
    <3>. QED
      BY <1>2, <1>4, RankIs
  <2>2. Ranked(AllTold) /\ Words(AllTold) = Words(b) \cup Words(Told("usage"))
    BY <1>2, <1>4, <2>1, ConcatRanked DEF AllTold
  <2>. HIDE DEF a, b
  <2>. QED
    BY <1>2, <1>4, <2>2 DEF BitWords
<1>. QED
  BY <1>5

LEMMA ScanBits ==
  ASSUME Scan, bits \subseteq BitWords
  PROVE  parsing = "scan" /\ parsing' \in {"scan", "error"} /\ bits' \subseteq BitWords
<1>1. ASSUME NEW a, NextElement(a)
      PROVE  parsing = "scan" /\ parsing' \in {"scan", "error"} /\ bits' \subseteq BitWords
  BY <1>1 DEF NextElement
<1>2. ASSUME NEW o, TakeFlag(o) \/ MissingArg(o) \/ UnknownLong(o) \/ AskUsage(o) \/ Refuse(o)
      PROVE  parsing = "scan" /\ parsing' \in {"scan", "error"} /\ bits' \subseteq BitWords
  BY <1>2 DEF TakeFlag, MissingArg, UnknownLong, AskUsage, Refuse, Fail, At, BitWords
<1>3. ASSUME NEW o, TakeBit(o)
      PROVE  parsing = "scan" /\ parsing' \in {"scan", "error"} /\ bits' \subseteq BitWords
  <2>1. o \in BitNames /\ bits' = bits \cup {Bit(o)} /\ parsing = "scan" /\ parsing' = parsing
    BY <1>3 DEF TakeBit, At
  <2>2. PICK b \in Bits : b[1] = o
    BY <2>1 DEF BitNames
  <2>3. (CHOOSE x \in Bits : x[1] = o) \in Bits
    BY <2>2
  <2>4. \A x \in Bits : x[2] \in BitWords
    BY DEF Bits, BitWords
  <2>5. Bit(o) \in BitWords
    BY <2>3, <2>4 DEF Bit
  <2>. QED
    BY <2>1, <2>5
<1>4. ASSUME NEW o, NEW text, At(o), Argument(o, text)
      PROVE  parsing = "scan" /\ parsing' \in {"scan", "error"} /\ bits' \subseteq BitWords
  BY <1>4 DEF Argument, At
<1>5. ASSUME NEW o, TakeArgHere(o) \/ \E a \in Argv : TakeArgNext(o, a)
      PROVE  parsing = "scan" /\ parsing' \in {"scan", "error"} /\ bits' \subseteq BitWords
  BY <1>4, <1>5 DEF TakeArgHere, TakeArgNext
<1>. QED
  BY <1>1, <1>2, <1>3, <1>5 DEF Scan

LEMMA OutInit == MainInit => OutInv
<1> SUFFICES ASSUME MainInit PROVE OutInv
  OBVIOUS
<1>1. /\ input = << >> /\ DOMAIN val = {} /\ out = << >> /\ bits = {}
      /\ stage = "options" /\ parsing = "scan"
  BY DEF MainInit, Init, OptionsInit
<1>2. << >> \in Seq(Line) /\ << >> \in Seq(Blocks) /\ DOMAIN << >> = {}
  OBVIOUS
<1>3. Keys = {}
  BY <1>1, <1>2 DEF Keys
<1>. QED
  BY <1>1, <1>2, <1>3 DEF OutInv, SetMade, Ranked, Among, Words

\* The input grows by a line, and the keys by its text.
LEMMA KeysOfRead ==
  ASSUME input \in Seq(Line), DOMAIN val = Keys, NEW l \in Line, ReadLine(l)
  PROVE  input' \in Seq(Line) /\ DOMAIN val' = Keys' /\ Keys' = Keys \cup {l.text}
<1>1. input' = Append(input, l) /\ DOMAIN val' = DOMAIN val \cup {l.text}
  BY DEF ReadLine, PutValue
<1>2. /\ Len(input) \in Nat /\ DOMAIN input = 1..Len(input)
      /\ input' \in Seq(Line) /\ DOMAIN input' = 1..(Len(input) + 1)
      /\ \A i \in 1..Len(input) : input'[i] = input[i]
      /\ input'[Len(input) + 1] = l
  BY <1>1
<1>3. Keys' = Keys \cup {l.text}
  BY <1>2 DEF Keys
<1>. QED
  BY <1>1, <1>2, <1>3

LEMMA NothingPrinted ==
  ASSUME OutInv, input' \in Seq(Line), DOMAIN val' = Keys', bits' \subseteq BitWords,
         out = << >>, out' = out,
         stage' = "options" => parsing' \in {"scan", "error"},
         stage' \notin {"options", "exit"} => parsing' \in {"set", "done"},
         parsing' # "told",
         stage' \in {"options", "main", "load", "act", "exit"}, SetMade'
  PROVE  OutInv'
<1>1. << >> \in Seq(Blocks) /\ DOMAIN << >> = {}
  OBVIOUS
<1>2. out' = << >>
  OBVIOUS
<1>3. Ranked(out')
  BY <1>1, <1>2 DEF Ranked
<1>. QED
  BY <1>1, <1>2, <1>3 DEF OutInv, Among

\* A block is printed after what goes before it.
LEMMA BlockPrinted ==
  ASSUME OutInv, UNCHANGED <<vars, optionsVars>>, parsing \notin {"told", "error"},
         NEW w \in Blocks \ BitWords, out' = Append(out, w),
         \A i \in DOMAIN out : Rank[out[i]] < Rank[w],
         w = "blank" => IF out = << >> THEN NothingAbove
                                       ELSE out[Len(out)] \in {"lines", "elems"},
         w = "stats" => IF out = << >> THEN Bare ELSE out[Len(out)] = "blank",
         \/ stage' = "acted" /\ w \in {"lines", "elems"} /\ out = << >> /\ ~Bare
         \/ stage' = "stats" /\ w = "blank" /\ Among(out, {"lines", "elems"})
         \/ stage' = "end"
         \/ stage' = "exit",
         stage # "options", stage' # "exit" => stage # "exit", SetMade'
  PROVE  OutInv'
<1>1. /\ Ranked(out') /\ Len(out') = Len(out) + 1 /\ DOMAIN out' = 1..(Len(out) + 1)
      /\ out'[Len(out) + 1] = w /\ \A i \in DOMAIN out : out'[i] = out[i]
      /\ DOMAIN out = 1..Len(out) /\ Len(out) \in Nat
  BY AppendRanked DEF OutInv
<1>2. ASSUME NEW i \in DOMAIN out'
      PROVE  \/ i \in DOMAIN out /\ out'[i] = out[i]
             \/ i = Len(out) + 1 /\ out'[i] = w
  BY <1>1
<1>3. /\ input' = input /\ val' = val /\ Keys' = Keys /\ bits' = bits /\ opts' = opts
      /\ parsing' = parsing /\ Bare' = Bare /\ NothingAbove' = NothingAbove
  BY DEF vars, optionsVars, Keys, Bare, NothingAbove
<1>4. stage # "options" => parsing' = parsing
  BY <1>3
<1>5. ASSUME NEW i \in DOMAIN out'
      PROVE  /\ out'[i] \in Blocks \ BitWords
             /\ out'[i] = "stats" => IF i = 1 THEN Bare ELSE out'[i - 1] = "blank"
             /\ out'[i] = "blank" => IF i = 1 THEN NothingAbove
                                              ELSE out'[i - 1] \in {"lines", "elems"}
  <2>1. CASE i \in DOMAIN out
    <3>1. out'[i] = out[i] /\ (i # 1 => i - 1 \in DOMAIN out /\ out'[i - 1] = out[i - 1])
      BY <1>1, <2>1
    <3>2. out[i] \in Blocks \ BitWords
      BY <2>1 DEF OutInv, Among, BitWords
    <3>. QED
      BY <2>1, <3>1, <3>2 DEF OutInv
  <2>2. CASE i = Len(out) + 1
    <3>1. out'[i] = w
      BY <1>1, <2>2
    <3>2. (i = 1 => out = << >>) /\ (i # 1 => out # << >> /\ out'[i - 1] = out[Len(out)])
      <4>1. out \in Seq(Blocks)
        BY DEF OutInv, Ranked
      <4>2. i = 1 => out = << >>
        <5>1. i = 1 => Len(out) = 0
          BY <1>1, <2>2
        <5>. QED
          BY <4>1, <5>1, EmptySeq
      <4>3. i # 1 => Len(out) \in DOMAIN out /\ i - 1 = Len(out) /\ Len(out) # 0
        BY <1>1, <2>2
      <4>4. i # 1 => out # << >>
        BY <4>3, EmptySeq
      <4>. QED
        BY <1>1, <4>2, <4>3, <4>4
    <3>3. CASE i = 1
      <4>1. (w = "blank" => NothingAbove) /\ (w = "stats" => Bare)
        BY <3>2, <3>3
      <4>. QED
        BY <3>1, <3>3, <4>1
    <3>4. CASE i # 1
      <4>1. /\ w = "blank" => out'[i - 1] \in {"lines", "elems"}
            /\ w = "stats" => out'[i - 1] = "blank"
        BY <3>2, <3>4
      <4>. QED
        BY <3>1, <3>4, <4>1
    <3>. QED
      BY <3>3, <3>4
  <2>. QED
    BY <1>1, <2>1, <2>2
<1>6. Among(out', Blocks \ BitWords)
  BY <1>5 DEF Among
<1>7. stage' = "acted" => Among(out', {"lines", "elems"})
  <2>1. stage' = "acted" => w \in {"lines", "elems"} /\ DOMAIN out = {}
    OBVIOUS
  <2>. QED
    BY <1>2, <2>1 DEF Among
<1>8. stage' = "stats" => Among(out', {"lines", "elems", "blank"}) /\ out'[Len(out')] = "blank"
  BY <1>1, <1>2 DEF Among
<1>11. out' # << >>
  BY <1>1
<1>9. stage' \notin {"options", "main", "load", "act"} /\ parsing' # "error" /\ parsing' # "told"
  BY <1>3
<1>10. stage' \notin {"options", "exit"} => parsing' \in {"set", "done"}
  BY <1>3 DEF OutInv
<1>. QED
  BY <1>1, <1>3, <1>5, <1>6, <1>7, <1>8, <1>9, <1>10, <1>11 DEF OutInv, BitWords

\* Nothing more is printed, and the program goes on or ends.
LEMMA NoBlockPrinted ==
  ASSUME OutInv, UNCHANGED <<vars, bits, opts, out>>, stage \notin {"options", "exit"},
         parsing' = parsing, SetMade',
         \/ stage' = "exit" \/ stage' = "end"
         \/ stage' = "acted" /\ out = << >> /\ (Bare \/ NothingAbove)
         \/ stage' = "stats" /\ out = << >> /\ Bare
  PROVE  OutInv'
<1>1. /\ input' = input /\ val' = val /\ Keys' = Keys /\ bits' = bits /\ opts' = opts
      /\ out' = out /\ Bare' = Bare /\ NothingAbove' = NothingAbove
  BY DEF vars, Keys, Bare, NothingAbove
<1>2. DOMAIN << >> = {}
  OBVIOUS
<1>3. out = << >> => Among(out, {"lines", "elems"}) /\ Among(out, {"lines", "elems", "blank"})
  BY <1>2 DEF Among
<1>. QED
  BY <1>1, <1>3 DEF OutInv, Ranked, Among, Words, BitWords

LEMMA OutStutter ==
  ASSUME OutInv, UNCHANGED allVars
  PROVE  OutInv'
<1>1. /\ input' = input /\ val' = val /\ bits' = bits /\ parsing' = parsing
      /\ opts' = opts /\ stage' = stage /\ set' = set /\ out' = out
  BY DEF allVars, vars, optionsVars, mainVars
<1>2. Keys' = Keys
  BY <1>1 DEF Keys
<1>3. Bare' = Bare /\ NothingAbove' = NothingAbove /\ SetMade' = SetMade
  BY <1>1, <1>2 DEF Bare, NothingAbove, SetMade, TypeOf
<1>. QED
  BY <1>1, <1>2, <1>3 DEF OutInv, Ranked, Among, Words

LEMMA OutStep ==
  ASSUME OutInv, MainNext
  PROVE  OutInv'
<1>14. UNCHANGED <<set, opts>> /\ (stage' \notin {"options", "main", "exit"} =>
                                    stage \notin {"options", "main", "exit"}) => SetMade'
  BY DEF OutInv, SetMade, TypeOf
<1>1. CASE ParseOptions
  <2>1. /\ Scan /\ stage = "options" /\ stage' = stage /\ out' = out
        /\ UNCHANGED vars
    BY <1>1 DEF ParseOptions, mainVars
  <2>2. /\ out = << >> /\ parsing' \in {"scan", "error"} /\ bits' \subseteq BitWords
    BY <2>1, ScanBits DEF OutInv
  <2>3. input' = input /\ val' = val /\ Keys' = Keys
    BY <2>1 DEF vars, Keys
  <2>4. input' \in Seq(Line) /\ DOMAIN val' = Keys'
    BY <2>3 DEF OutInv
  <2>5. parsing' # "told" /\ (stage' = "options" => parsing' \in {"scan", "error"})
    BY <2>2
  <2>6. stage' \notin {"options", "exit"} => parsing' \in {"set", "done"}
    BY <2>1
  <2>7. SetMade'
    BY <2>1 DEF SetMade
  <2>. QED
    BY <2>1, <2>2, <2>4, <2>5, <2>6, <2>7, NothingPrinted
<1>2. CASE OptionsFail \/ CreateSet
  <2>1. /\ out' = out /\ UNCHANGED vars /\ bits' = bits /\ out = << >>
        /\ stage' \in {"exit", "load"}
        /\ parsing' \in {"error", "done"} /\ (stage' = "load" => parsing' = "done")
        /\ opts' = opts /\ (stage' = "load" => set'.type = TypeOf(opts))
    BY <1>2 DEF OptionsFail, CreateSet, Exit, OutInv, optionsVars
  <2>2. SetMade'
    BY <2>1 DEF SetMade, TypeOf
  <2>3. input' = input /\ val' = val /\ Keys' = Keys
    BY <2>1 DEF vars, Keys
  <2>4. input' \in Seq(Line) /\ DOMAIN val' = Keys' /\ bits' \subseteq BitWords
    BY <2>1, <2>3 DEF OutInv
  <2>. QED
    BY <2>1, <2>2, <2>4, NothingPrinted
<1>3. CASE OptionsDone /\ bits # {}
  <2>1. /\ stage' = "exit" /\ out' = AllTold /\ parsing' = "told" /\ bits' = bits
        /\ opts' = opts /\ UNCHANGED vars
    BY <1>3 DEF OptionsDone, EndOfOptions, Exit, AllTold
  <2>2. input' = input /\ val' = val /\ Keys' = Keys
    BY <2>1 DEF vars, Keys
  <2>3. /\ Ranked(out') /\ Words(out') = bits'
    BY <2>1, ToldRanked DEF OutInv
  <2>4. \A i \in DOMAIN out' : out'[i] # "stats" /\ out'[i] # "blank"
    BY <2>1, <2>3 DEF OutInv, Words, BitWords
  <2>5. DOMAIN val' = Keys' /\ input' \in Seq(Line) /\ bits' \subseteq BitWords
    BY <2>1, <2>2 DEF OutInv
  <2>. QED
    BY <2>1, <2>3, <2>4, <2>5 DEF OutInv, SetMade
<1>4. CASE OptionsDone /\ bits = {}
  <2>1. /\ stage' = "main" /\ out' = out /\ parsing' = "set" /\ bits' = bits
        /\ UNCHANGED vars /\ out = << >>
    BY <1>4 DEF OptionsDone, EndOfOptions, OutInv
  <2>2. SetMade'
    BY <2>1 DEF SetMade
  <2>3. input' = input /\ val' = val /\ Keys' = Keys
    BY <2>1 DEF vars, Keys
  <2>4. input' \in Seq(Line) /\ DOMAIN val' = Keys' /\ bits' \subseteq BitWords
    BY <2>1, <2>3 DEF OutInv
  <2>. QED
    BY <2>1, <2>2, <2>4, NothingPrinted
<1>5. CASE PrintOnly
  <2>1. /\ UNCHANGED <<vars, optionsVars>> /\ out = << >> /\ stage = "main"
        /\ opts.action \in {"print_config", "print_sizes", "print_names"}
        /\ out' = Append(out, opts.action) /\ stage' = "exit"
        /\ parsing \notin {"told", "error"}
    BY <1>5 DEF PrintOnly, Block, Exit, OutInv
  <2>2. opts.action \in Blocks \ BitWords /\ opts.action # "blank" /\ opts.action # "stats"
    BY <2>1 DEF BitWords, Blocks, Rank
  <2>3. DOMAIN out = {} /\ SetMade'
    BY <2>1 DEF SetMade
  <2>. QED
    BY <2>1, <2>2, <2>3, BlockPrinted
<1>6. CASE \E l \in Line : LoadLine(l)
  <2>1. PICK l \in Line : LoadLine(l)
    BY <1>6
  <2>2. /\ ReadLine(l) /\ stage = "load" /\ stage' = stage /\ out' = out /\ out = << >>
        /\ bits' = bits /\ parsing' = parsing /\ SetMade'
    BY <1>14, <2>1 DEF LoadLine, optionsVars, mainVars, scanning, OutInv
  <2>3. input' \in Seq(Line) /\ DOMAIN val' = Keys' /\ bits' \subseteq BitWords
    BY <2>2, KeysOfRead DEF OutInv
  <2>4. parsing' # "told" /\ parsing' \in {"set", "done"}
    BY <2>2 DEF OutInv
  <2>. QED
    BY <2>2, <2>3, <2>4, NothingPrinted
<1>7. CASE LoadFails \/ LoadEnd
  <2>1. /\ input' = input /\ val' = val /\ stage = "load" /\ stage' \in {"exit", "act"}
        /\ out' = out /\ out = << >> /\ bits' = bits /\ parsing' = parsing
        /\ UNCHANGED <<set, opts>>
    BY <1>7 DEF LoadFails, LoadEnd, EndOfInput, Exit, vars, optionsVars, OutInv
  <2>2. input' \in Seq(Line) /\ DOMAIN val' = Keys' /\ bits' \subseteq BitWords
    BY <2>1 DEF OutInv, Keys
  <2>3. parsing' # "told" /\ parsing' \in {"set", "done"}
    BY <2>1 DEF OutInv
  <2>. QED
    BY <1>14, <2>1, <2>2, <2>3, NothingPrinted
<1>8. CASE Nop \/ PrintWarns
  <2>1. /\ UNCHANGED <<vars, bits, opts, set, out>> /\ parsing' = parsing
        /\ stage = "act" /\ stage' = "acted" /\ out = << >>
    BY <1>8 DEF Nop, PrintWarns, PrintsLines, AfterAct, optionsVars, OutInv
  <2>2. Bare \/ NothingAbove
    <3>1. CASE Nop
      BY <3>1 DEF Nop, Bare
    <3>2. CASE PrintWarns
      <4>1. set.type = <<"path", "trie">> /\ set.type = <<opts.struct_type, opts.set_type>>
        BY <2>1, <3>2 DEF PrintWarns, OutInv, SetMade, TypeOf
      <4>2. set.type[1] = "path" /\ opts.struct_type = "path" /\ opts.set_type = "trie"
        BY <4>1
      <4>3. opts.action = "print_set"
        BY <3>2, <4>2 DEF PrintWarns, PrintsLines
      <4>. QED
        BY <4>2, <4>3 DEF Bare, NothingAbove
    <3>. QED
      BY <1>8, <3>1, <3>2
  <2>. QED
    BY <1>14, <2>1, <2>2, NoBlockPrinted
<1>9. CASE PrintLines \/ PrintStops \/ PrintElems
  <2>1. /\ UNCHANGED <<vars, optionsVars, set>> /\ stage = "act" /\ out = << >>
        /\ parsing \notin {"told", "error"}
        /\ stage' \in {"acted", "exit"} /\ SetMade'
    BY <1>9, <1>14 DEF PrintLines, PrintStops, PrintElems, PrintsLines, AfterAct, Exit, OutInv,
                       optionsVars
  <2>2. \/ out' = out
        \/ ~Bare /\ \E w \in {"lines", "elems"} : out' = Append(out, w)
    <3>1. opts.action # "load_only" /\ (Elements # {} => Keys # {})
      BY <1>9 DEF PrintLines, PrintStops, PrintElems, PrintsLines, Elements, OutInv
    <3>. QED
      BY <1>9, <3>1 DEF PrintLines, PrintStops, PrintElems, Block, Bare, OutInv
  <2>3. ASSUME out' = out, stage' = "acted" PROVE Bare \/ NothingAbove
    <3>1. << >> # Append(<< >>, "lines") /\ << >> # Append(<< >>, "elems")
      OBVIOUS
    <3>2. CASE PrintLines
      <4>1. DOMAIN val = {}
        BY <2>1, <2>3, <3>1, <3>2 DEF PrintLines, Block
      <4>. QED
        BY <4>1 DEF Bare, OutInv
    <3>3. CASE PrintElems
      <4>1. Elements = {} /\ opts.action = "print_elems" /\ set.type[1] = "path"
        BY <2>1, <2>3, <3>1, <3>3 DEF PrintElems, Block
      <4>2. opts.struct_type = "path"
        BY <2>1, <4>1 DEF OutInv, SetMade, TypeOf
      <4>3. \A x \in Keys : TextLen[x] = 0
        <5>1. \A x \in Keys : TextLen[x] \in Nat
          <6>1. Keys \subseteq Texts
            BY ElementOfSeq DEF OutInv, Keys, Line
          <6>. QED
            BY <6>1, TextsAssumption
        <5>. QED
          BY <4>1, <5>1 DEF Elements, OutInv
      <4>. QED
        BY <4>1, <4>2, <4>3 DEF Bare, NothingAbove
    <3>4. ~PrintStops
      BY <2>3 DEF PrintStops, Exit
    <3>. QED
      BY <1>9, <3>2, <3>3, <3>4
  <2>4. CASE out' = out
    <3>1. UNCHANGED <<vars, bits, opts, out>> /\ parsing' = parsing
      BY <2>1, <2>4 DEF optionsVars
    <3>. QED
      BY <2>1, <2>3, <3>1, NoBlockPrinted
  <2>5. CASE ~Bare /\ \E w \in {"lines", "elems"} : out' = Append(out, w)
    <3>1. PICK w \in {"lines", "elems"} : out' = Append(out, w)
      BY <2>5
    <3>2. w \in Blocks \ BitWords /\ w # "blank" /\ w # "stats"
      BY <3>1 DEF BitWords, Blocks, Rank
    <3>3. DOMAIN out = {}
      BY <2>1
    <3>. QED
      BY <2>1, <2>5, <3>1, <3>2, <3>3, BlockPrinted
  <2>. QED
    BY <2>2, <2>4, <2>5
<1>10. CASE Separate
  <2>1. /\ UNCHANGED <<vars, optionsVars, set>> /\ stage = "acted"
        /\ parsing \notin {"told", "error"}
        /\ Among(out, {"lines", "elems"})
        /\ IF out = << >> THEN Bare \/ NothingAbove ELSE ~Bare
        /\ stage' \in {"stats", "end"} /\ SetMade'
    BY <1>10, <1>14 DEF Separate, OutInv, optionsVars
  <2>2. IsEmpty <=> Keys = {}
    BY DEF IsEmpty, OutInv
  <2>3. \/ /\ stage' = "stats" /\ ~Bare /\ out' = Append(out, "blank")
        \/ stage' = "stats" /\ out' = out /\ Bare
        \/ stage' = "end" /\ out' = out
    BY <1>10, <2>1, <2>2 DEF Separate, Block, Bare
  <2>4. Bare => out = << >>
    BY <2>1
  <2>5. CASE out' = out /\ ((stage' = "stats" /\ Bare) \/ stage' = "end")
    <3>1. UNCHANGED <<vars, bits, opts, out>> /\ parsing' = parsing
      BY <2>1, <2>5 DEF optionsVars
    <3>. QED
      BY <2>1, <2>4, <2>5, <3>1, NoBlockPrinted
  <2>6. CASE stage' = "stats" /\ ~Bare /\ out' = Append(out, "blank")
    <3>1. "blank" \in Blocks \ BitWords
      BY DEF BitWords, Blocks, Rank
    <3>2. \A i \in DOMAIN out : Rank[out[i]] < Rank["blank"]
      BY <2>1, RankIs DEF Among
    <3>3. out # << >> => out[Len(out)] \in {"lines", "elems"}
      <4>1. out \in Seq(Blocks)
        BY DEF OutInv, Ranked
      <4>2. out # << >> => Len(out) \in DOMAIN out
        BY <4>1, EmptySeq
      <4>. QED
        BY <2>1, <4>2 DEF Among
    <3>. QED
      BY <2>1, <2>6, <3>1, <3>2, <3>3, BlockPrinted
  <2>. QED
    BY <2>3, <2>5, <2>6
<1>11. CASE PrintStats
  <2>1. /\ UNCHANGED <<vars, optionsVars, set>> /\ stage = "stats"
        /\ parsing \notin {"told", "error"}
        /\ Among(out, {"lines", "elems", "blank"})
        /\ IF out = << >> THEN Bare ELSE out[Len(out)] = "blank"
        /\ stage' \in {"end", "exit"} /\ out' = Append(out, "stats") /\ SetMade'
    BY <1>11, <1>14 DEF PrintStats, Exit, Block, OutInv, optionsVars
  <2>2. "stats" \in Blocks \ BitWords
    BY DEF BitWords, Blocks, Rank
  <2>3. \A i \in DOMAIN out : Rank[out[i]] < Rank["stats"]
    BY <2>1, RankIs DEF Among
  <2>. QED
    BY <2>1, <2>2, <2>3, BlockPrinted
<1>12. CASE Destroy
  <2>1. /\ UNCHANGED <<vars, bits, opts, out>> /\ parsing' = parsing
        /\ stage = "end" /\ stage' = "exit" /\ SetMade'
    BY <1>12 DEF Destroy, Exit, optionsVars, SetMade
  <2>. QED
    BY <2>1, NoBlockPrinted
<1>13. CASE Exited
  BY <1>13, OutStutter DEF Exited
<1>. QED
  BY <1>1, <1>2, <1>3, <1>4, <1>5, <1>6, <1>7, <1>8, <1>9, <1>10, <1>11, <1>12, <1>13
     DEF MainNext, Load, Act

(***************************************************************************)
(* OutputShape, for every command line and every input.                    *)
(***************************************************************************)
THEOREM OutputWellFormed == MainSpec => []OutputShape
<1>1. OutInv /\ [MainNext]_allVars => OutInv'
  BY OutStep, OutStutter
<1>2. OutInv => OutputShape
  BY OutShape
<1>. QED
  BY OutInit, <1>1, <1>2, PTL DEF MainSpec

(***************************************************************************)
(* Types                                                                   *)
(***************************************************************************)
Actions == {f[3] : f \in {f \in Flags : f[2] = "action"}}

OptsTyped == /\ DOMAIN opts = DOMAIN Defaults
             /\ opts.action \in Actions
             /\ opts.struct_type \in {"plain", "path"}
             /\ opts.set_type \in {"trie", "lhash", "ghash"}
             /\ bits \subseteq {b[2] : b \in Bits}
             /\ nargs \in 0..MaxArgs

\* The types of the fields of what is set.
LEMMA FlagsTyped ==
  ASSUME NEW o \in FlagNames
  PROVE  LET f == Flag(o)
         IN  /\ f[2] \in DOMAIN Defaults \ {"rehash_load", "rehash_size"}
             /\ f[2] = "action" => f[3] \in Actions
             /\ f[2] = "struct_type" => f[3] \in {"plain", "path"}
             /\ f[2] = "set_type" => f[3] \in {"trie", "lhash", "ghash"}
<1>1. Flag(o) \in Flags
  BY DEF FlagNames, Flag
<1>2. \A f \in Flags : f[2] = "action" => f[3] \in Actions
  BY DEF Actions
<1>3. \A f \in Flags : /\ f[2] \in DOMAIN Defaults \ {"rehash_load", "rehash_size"}
                       /\ f[2] = "struct_type" => f[3] \in {"plain", "path"}
                       /\ f[2] = "set_type" => f[3] \in {"trie", "lhash", "ghash"}
  <2> TAKE f \in Flags
  <2>1. \/ f \in {<<"C", "action", "print_config">>, <<"I", "action", "print_sizes">>,
                  <<"N", "action", "print_names">>, <<"L", "action", "load_only">>,
                  <<"P", "action", "print_set">>, <<"E", "action", "print_elems">>}
        \/ f \in {<<"plain_set", "struct_type", "plain">>,
                  <<"path_trie", "struct_type", "path">>}
        \/ f \in {<<"ternary_tree", "set_type", "trie">>,
                  <<"linear_hash", "set_type", "lhash">>,
                  <<"gnulib_hash", "set_type", "ghash">>}
        \/ f = <<"S", "print_stats", TRUE>> \/ f = <<"no_print_stats", "print_stats", FALSE>>
        \/ f = <<"V", "verbose", TRUE>> \/ f = <<"no_verbose", "verbose", FALSE>>
    BY Zenon DEF Flags
  <2> DEFINE Right == \/ f[2] = "action"
                      \/ f[2] = "struct_type" /\ f[3] \in {"plain", "path"}
                      \/ f[2] = "set_type" /\ f[3] \in {"trie", "lhash", "ghash"}
                      \/ f[2] = "print_stats"
                      \/ f[2] = "verbose"
  <2>a. ASSUME f \in {<<"C", "action", "print_config">>, <<"I", "action", "print_sizes">>,
                    <<"N", "action", "print_names">>, <<"L", "action", "load_only">>,
                    <<"P", "action", "print_set">>, <<"E", "action", "print_elems">>}
        PROVE  Right
    BY <2>a
  <2>b. ASSUME f \in {<<"plain_set", "struct_type", "plain">>,
                    <<"path_trie", "struct_type", "path">>}
        PROVE  Right
    BY <2>b
  <2>c. ASSUME f \in {<<"ternary_tree", "set_type", "trie">>,
                    <<"linear_hash", "set_type", "lhash">>,
                    <<"gnulib_hash", "set_type", "ghash">>}
        PROVE  Right
    BY <2>c
  <2>d. ASSUME NEW c, NEW x, NEW d, f = <<c, d, x>>, d \in {"print_stats", "verbose"}
        PROVE  Right
    BY <2>d
  <2>e. ASSUME \/ f = <<"S", "print_stats", TRUE>>
             \/ f = <<"no_print_stats", "print_stats", FALSE>>
             \/ f = <<"V", "verbose", TRUE>> \/ f = <<"no_verbose", "verbose", FALSE>>
        PROVE  Right
    <3>. HIDE DEF Right
    <3>1. "print_stats" \in {"print_stats", "verbose"} /\ "verbose" \in {"print_stats", "verbose"}
      OBVIOUS
    <3>. QED
      BY <2>d, <2>e, <3>1, Zenon
  <2>2. Right
    BY <2>1, <2>a, <2>b, <2>c, <2>e
  <2>3. {"action", "struct_type", "set_type", "print_stats", "verbose"}
          \subseteq DOMAIN Defaults \ {"rehash_load", "rehash_size"}
    BY DEF Defaults
  <2>4. f[2] \in DOMAIN Defaults \ {"rehash_load", "rehash_size"}
    BY <2>2, <2>3
  <2>. QED
    BY <2>2, <2>4
<1>. QED
  BY <1>1, <1>2, <1>3

LEMMA LookupNames ==
  ASSUME NEW names, NEW text, Lookup(names, text).error = "none"
  PROVE  Lookup(names, text).value \in {n[2] : n \in names}
<1>1. PICK n \in names : Is("name", text) /\ n[1] = text.name
  BY DEF Lookup, Invalid
<1>2. (CHOOSE x \in names : x[1] = text.name) \in names
  BY <1>1
<1>3. Lookup(names, text).value = (CHOOSE x \in names : x[1] = text.name)[2]
  BY <1>1 DEF Lookup, Taken
<1>. QED
  BY <1>2, <1>3

\* An argument sets its own field, and the two types to types there are.
LEMMA ArgumentsTyped ==
  ASSUME NEW o \in ArgNames, NEW text, Parse(o, text).error = "none"
  PROVE  /\ FieldOf[o] \in DOMAIN Defaults /\ FieldOf[o] # "action"
         /\ FieldOf[o] = "struct_type" => Parse(o, text).value \in {"plain", "path"}
         /\ FieldOf[o] = "set_type" => Parse(o, text).value \in {"trie", "lhash", "ghash"}
<1>1. o \in {"p", "h", "n", "r", "s", "z", "l", "t"}
  BY DEF ArgNames, FieldOf
<1>2. CASE o = "r"
  <2>1. Parse(o, text) = Lookup(StructNames, text) /\ FieldOf[o] = "struct_type"
    BY <1>2 DEF Parse, FieldOf
  <2>2. \A n \in StructNames : n[2] \in {"plain", "path"}
    BY DEF StructNames
  <2>. QED
    BY <2>1, <2>2, LookupNames DEF Defaults
<1>3. CASE o = "s"
  <2>1. Parse(o, text) = Lookup(SetNames, text) /\ FieldOf[o] = "set_type"
    BY <1>3 DEF Parse, FieldOf
  <2>2. \A n \in SetNames : n[2] \in {"trie", "lhash", "ghash"}
    BY DEF SetNames
  <2>. QED
    BY <2>1, <2>2, LookupNames DEF Defaults
<1>4. CASE o \notin {"r", "s"}
  BY <1>1, <1>4 DEF FieldOf, Defaults
<1>. QED
  BY <1>2, <1>3, <1>4

LEMMA ScanTyped ==
  ASSUME OptsTyped, Scan
  PROVE  OptsTyped' /\ parsing' \in {"scan", "error"}
<1>1. ASSUME NEW f \in DOMAIN Defaults, NEW v, opts' = [opts EXCEPT ![f] = v],
             UNCHANGED <<bits>>, nargs' \in 0..MaxArgs,
             f = "action" => v \in Actions,
             f = "struct_type" => v \in {"plain", "path"},
             f = "set_type" => v \in {"trie", "lhash", "ghash"}
      PROVE  OptsTyped'
  BY <1>1 DEF OptsTyped, Defaults
<1>2. ASSUME NEW a, NextElement(a) PROVE OptsTyped' /\ parsing' = "scan"
  <2>1. nargs' \in 0..MaxArgs
    BY <1>2, ArgvAssumption DEF OptsTyped, NextElement
  <2>. QED
    BY <1>2, <2>1 DEF OptsTyped, NextElement
<1>3. ASSUME NEW o, TakeFlag(o) PROVE OptsTyped' /\ parsing' = "scan"
  <2>1. /\ o \in FlagNames /\ opts' = [opts EXCEPT ![Flag(o)[2]] = Flag(o)[3]]
        /\ bits' = bits /\ nargs' = nargs /\ parsing' = "scan"
    BY <1>3 DEF TakeFlag, At
  <2>2. nargs' \in 0..MaxArgs
    BY <2>1 DEF OptsTyped
  <2>. QED
    BY <2>1, <2>2, <1>1, FlagsTyped
<1>4. ASSUME NEW o, TakeBit(o) PROVE OptsTyped' /\ parsing' = "scan"
  <2>1. /\ o \in BitNames /\ bits' = bits \cup {Bit(o)} /\ parsing' = "scan"
        /\ opts' = opts /\ nargs' = nargs
    BY <1>4 DEF TakeBit, At
  <2>2. (CHOOSE b \in Bits : b[1] = o) \in Bits
    BY <2>1 DEF BitNames
  <2>. QED
    BY <2>1, <2>2 DEF OptsTyped, Bit
<1>5. ASSUME NEW o, AskUsage(o) PROVE OptsTyped' /\ parsing' = "scan"
  <2>1. /\ bits' = bits \cup {"usage"} /\ opts' = opts /\ nargs' = nargs
        /\ parsing' = "scan"
    BY <1>5 DEF AskUsage, At
  <2>2. "usage" \in {b[2] : b \in Bits}
    BY DEF Bits
  <2>. QED
    BY <2>1, <2>2 DEF OptsTyped
<1>6. ASSUME NEW o, MissingArg(o) \/ UnknownLong(o) \/ Refuse(o)
      PROVE OptsTyped' /\ parsing' = "error"
  BY <1>6 DEF OptsTyped, MissingArg, UnknownLong, Refuse, Fail
<1>7. ASSUME NEW o \in ArgNames, NEW text, Argument(o, text), nargs' \in 0..MaxArgs, At(o)
      PROVE OptsTyped' /\ parsing' \in {"scan", "error"}
  <2>1. CASE Parse(o, text).error = "none"
    <3>1. /\ opts' = [opts EXCEPT ![FieldOf[o]] = Parse(o, text).value]
          /\ bits' = bits /\ parsing' = "scan"
      BY <1>7, <2>1 DEF Argument, At
    <3>. QED
      BY <1>1, <1>7, <2>1, <3>1, ArgumentsTyped
  <2>2. CASE Parse(o, text).error # "none"
    BY <1>7, <2>2 DEF Argument, OptsTyped
  <2>. QED
    BY <2>1, <2>2
<1>8. ASSUME NEW o, TakeArgHere(o) PROVE OptsTyped' /\ parsing' \in {"scan", "error"}
  BY <1>7, <1>8 DEF TakeArgHere, OptsTyped
<1>9. ASSUME NEW o, NEW a \in Argv, TakeArgNext(o, a)
      PROVE  OptsTyped' /\ parsing' \in {"scan", "error"}
  <2>1. nargs' \in 0..MaxArgs
    BY <1>9, ArgvAssumption DEF OptsTyped, TakeArgNext
  <2>. QED
    BY <1>7, <1>9, <2>1 DEF TakeArgNext
<1>. QED
  BY <1>2, <1>3, <1>4, <1>5, <1>6, <1>8, <1>9 DEF Scan

(***************************************************************************)
(* The types of a load: those of SetLoad, whatever the value type holds.   *)
(***************************************************************************)
LEMMA ReadTyped ==
  ASSUME TypeOK, NEW l \in Line, ReadLine(l)
  PROVE  TypeOK'
<1>1. /\ l.text \in Texts /\ l.tail \in Nat /\ TextLen[l.text] \in Nat
      /\ l.nul \in BOOLEAN /\ l.eol \in BOOLEAN
  BY TextsAssumption DEF Line
<1>2. KeyLen(l) \in Nat
  BY <1>1 DEF KeyLen, RawLen
<1>3. /\ input' = Append(input, l) /\ k' = k + 1 /\ k = Len(input) + 1
      /\ val' = PutValue(l.text, k) /\ line_mem' = line_mem + KeyLen(l)
      /\ pc' \in {"load", "loaded"} /\ Len(input) \in Nat
  BY DEF ReadLine, TypeOK
<1>4. /\ input' \in Seq(Line) /\ Len(input') = Len(input) + 1
      /\ k' = Len(input') + 1 /\ k \in Nat
  BY <1>3 DEF TypeOK
<1>5. k % ValueLimit \in 0..(ValueLimit - 1)
  BY <1>4, TextsAssumption
<1>6. /\ DOMAIN val' \subseteq Texts
      /\ \A x \in DOMAIN val' : val'[x] \in 0..(ValueLimit - 1)
  BY <1>1, <1>3, <1>5 DEF TypeOK, PutValue
<1>7. PutResult(l.text) \in 0..ValueLimit
  BY TextsAssumption DEF TypeOK, PutResult
<1>8. uniq_line' \in Nat /\ dups_line' \in Nat /\ warned' \in (0..ValueLimit) \X Nat
  BY <1>4, <1>7 DEF ReadLine, TypeOK
<1>9. line_mem' \in Nat
  BY <1>2, <1>3 DEF TypeOK
<1>. QED
  BY <1>3, <1>4, <1>6, <1>8, <1>9 DEF TypeOK

\* MainTypeOK, and that there is no set before it is made, so that the options
\* do not change under it.
MainTypeInv == MainTypeOK /\ OptsTyped /\ (stage \in {"options", "main"} => set = NoSet)

LEMMA MainTypeInit == MainInit => MainTypeInv
<1> SUFFICES ASSUME MainInit PROVE MainTypeInv
  OBVIOUS
<1>1. TypeOK
  <2>1. /\ input = << >> /\ k = 1 /\ DOMAIN val = {} /\ uniq_line = 0 /\ dups_line = 0
        /\ line_mem = 0 /\ warned = <<0, 0>> /\ pc = "load"
    BY DEF MainInit, Init, FirstNumber, NoWarning
  <2>2. << >> \in Seq(Line) /\ Len(<< >>) = 0
    OBVIOUS
  <2>3. <<0, 0>> \in (0..ValueLimit) \X Nat
    BY TextsAssumption
  <2>. QED
    BY <2>1, <2>2, <2>3 DEF TypeOK
<1>2. /\ opts = Defaults /\ bits = {} /\ nargs = 0 /\ parsing = "scan"
      /\ stage = "options" /\ set = NoSet /\ info = NoInfo /\ status = -1
  BY DEF MainInit, OptionsInit
<1>3. "load_only" \in Actions
  <2>1. <<"L", "action", "load_only">> \in Flags
    BY DEF Flags
  <2>. QED
    BY <2>1 DEF Actions
<1>4. OptsTyped
  BY <1>2, <1>3, ArgvAssumption DEF OptsTyped, Defaults
<1>. QED
  BY <1>1, <1>2, <1>4 DEF MainTypeInv, MainTypeOK, OptsTyped, Actions, NoInfo

LEMMA MainTypeStep ==
  ASSUME MainTypeInv, MainNext
  PROVE  MainTypeInv'
<1>1. ASSUME OptsTyped', TypeOK', parsing' \in {"scan", "error", "told", "set", "done"},
             set' = NoSet \/ (set'.type = TypeOf(opts') /\ set'.type = set'.object),
             stage' \in {"load", "act", "acted", "stats", "end"} => set' # NoSet,
             stage' \in {"options", "main"} => set' = NoSet,
             info'.used <= info'.size, status' \in {-1, 0, 1, 127},
             (status' = -1) = (stage' # "exit")
      PROVE  MainTypeInv'
  BY <1>1 DEF MainTypeInv, MainTypeOK, OptsTyped, Actions, Dispatch
<1>2. /\ OptsTyped /\ TypeOK /\ parsing \in {"scan", "error", "told", "set", "done"}
      /\ set = NoSet \/ (set.type = TypeOf(opts) /\ set.type = set.object)
      /\ stage \in {"load", "act", "acted", "stats", "end"} => set # NoSet
      /\ stage \in {"options", "main"} => set = NoSet
      /\ info.used <= info.size /\ status \in {-1, 0, 1, 127}
      /\ (status = -1) = (stage # "exit")
  BY DEF MainTypeInv, MainTypeOK, Dispatch
<1>3. UNCHANGED vars => TypeOK'
  BY <1>2 DEF vars, TypeOK
<1>4. UNCHANGED <<opts, bits, nargs>> => OptsTyped'
  BY <1>2 DEF OptsTyped
<1>5. UNCHANGED <<opts, set>> =>
        set' = NoSet \/ (set'.type = TypeOf(opts') /\ set'.type = set'.object)
  BY <1>2
<1>6. CASE ParseOptions
  <2>1. /\ Scan /\ UNCHANGED vars /\ stage = "options"
        /\ stage' = stage /\ set' = set /\ info' = info /\ status' = status
    BY <1>6 DEF ParseOptions, mainVars
  <2>2. OptsTyped' /\ parsing' \in {"scan", "error"}
    BY <2>1, <1>2, ScanTyped
  <2>. QED
    BY <1>1, <1>2, <1>3, <2>1, <2>2
<1>7. CASE OptionsFail \/ PrintOnly \/ LoadFails \/ PrintStops
  <2>1. /\ UNCHANGED <<vars, opts, bits, nargs, parsing, set, info>>
        /\ stage' = "exit" /\ status' \in {0, 1, 127}
    BY <1>7 DEF OptionsFail, PrintOnly, LoadFails, PrintStops, Exit, optionsVars, scanning
  <2>. QED
    BY <1>1, <1>2, <1>3, <1>4, <1>5, <2>1
<1>8. CASE OptionsDone
  <2>1. /\ UNCHANGED <<vars, opts, bits, set, info>> /\ nargs' = 0
        /\ parsing' \in {"set", "told"} /\ set = NoSet
        /\ \/ stage' = "exit" /\ status' = 0
           \/ stage' = "main" /\ status' = status /\ stage = "options"
    BY <1>2, <1>8 DEF OptionsDone, EndOfOptions, Exit
  <2>2. OptsTyped'
    BY <1>2, <2>1, ArgvAssumption DEF OptsTyped
  <2>. QED
    BY <1>1, <1>2, <1>3, <2>1, <2>2
<1>9. CASE CreateSet
  <2>1. /\ UNCHANGED <<vars, opts, bits, nargs>> /\ parsing' = "done" /\ stage = "main"
        /\ \/ /\ set' = [type |-> TypeOf(opts), object |-> TypeOf(opts)]
              /\ info' = NoInfo /\ stage' = "load" /\ status' = status
           \/ /\ stage' = "exit" /\ status' = 127 /\ set' = set /\ info' = info
    BY <1>9 DEF CreateSet, Exit
  <2>2. OptsTyped' /\ TypeOK'
    BY <1>3, <1>4, <2>1
  <2>3. CASE set' = [type |-> TypeOf(opts), object |-> TypeOf(opts)] /\ stage' = "load"
             /\ info' = NoInfo /\ status' = status
    <3>1. set'.type = TypeOf(opts) /\ set'.object = TypeOf(opts)
      BY <2>3
    <3>2. TypeOf(opts) # << >>
      BY DEF TypeOf
    <3>3. set' # NoSet
      BY <3>1, <3>2 DEF NoSet
    <3>. QED
      BY <1>1, <1>2, <2>1, <2>2, <2>3, <3>1, <3>3 DEF NoInfo
  <2>4. CASE stage' = "exit" /\ status' = 127 /\ set' = set /\ info' = info
    BY <1>1, <1>2, <1>5, <2>1, <2>2, <2>4
  <2>. QED
    BY <2>1, <2>3, <2>4
<1>10. CASE (\E l \in Line : LoadLine(l)) \/ LoadEnd
  <2>1. /\ UNCHANGED <<opts, bits, nargs, parsing, set, info, status>>
        /\ stage = "load" /\ stage' \in {"load", "act"}
    BY <1>10 DEF LoadLine, LoadEnd, optionsVars, scanning, mainVars
  <2>2. TypeOK'
    <3>1. CASE \E l \in Line : LoadLine(l)
      BY <1>2, <3>1, ReadTyped DEF LoadLine
    <3>2. CASE LoadEnd
      BY <1>2, <3>2 DEF LoadEnd, EndOfInput, TypeOK
    <3>. QED
      BY <1>10, <3>1, <3>2
  <2>. QED
    BY <1>1, <1>2, <1>4, <1>5, <2>1, <2>2
<1>11. CASE Nop \/ PrintLines \/ PrintWarns \/ PrintElems \/ Separate
  <2>1. /\ UNCHANGED <<vars, opts, bits, nargs, parsing, set, info, status>>
        /\ stage \in {"act", "acted"} /\ stage' \in {"acted", "stats", "end"}
    BY <1>11 DEF Nop, PrintLines, PrintWarns, PrintElems, PrintsLines, AfterAct, Separate,
                 optionsVars, scanning
  <2>. QED
    BY <1>1, <1>2, <1>3, <1>4, <1>5, <2>1
<1>12. CASE PrintStats
  <2>1. /\ UNCHANGED <<vars, opts, bits, nargs, parsing, set>> /\ stage = "stats"
        /\ \/ stage' = "end" /\ status' = status
           \/ stage' = "exit" /\ status' = 127
    BY <1>12 DEF PrintStats, Exit, optionsVars, scanning
  <2>2. PICK t \in IF IsHash(set.type) THEN TablesOf(set.type) ELSE {NoInfo} :
          info' = IF set.type[2] = "ghash" THEN Refreshed(t) ELSE info
    BY <1>12 DEF PrintStats
  <2>3. t.used <= t.size
    <3>1. CASE t = NoInfo
      BY <3>1 DEF NoInfo
    <3>2. CASE t \in TablesOf(set.type)
      <4>1. t.size \in Nat /\ t.used \in 0..t.size
        BY <3>2, SizesAssumption DEF TablesOf
      <4>. QED
        BY <4>1
    <3>. QED
      BY <2>2, <3>1, <3>2
  <2>4. info'.used <= info'.size
    BY <1>2, <2>2, <2>3 DEF Refreshed
  <2>. QED
    BY <1>1, <1>2, <1>3, <1>4, <1>5, <2>1, <2>4
<1>13. CASE Destroy
  <2>1. /\ UNCHANGED <<vars, opts, bits, nargs, parsing, info>>
        /\ set' = NoSet /\ stage' = "exit" /\ status' = 0
    BY <1>13 DEF Destroy, Exit, optionsVars, scanning
  <2>. QED
    BY <1>1, <1>2, <1>3, <1>4, <2>1
<1>14. CASE Exited
  <2>1. UNCHANGED <<vars, opts, bits, nargs, parsing, set, info, status, stage>>
    BY <1>14 DEF Exited, allVars, optionsVars, scanning, mainVars
  <2>. QED
    BY <1>1, <1>2, <1>3, <1>4, <1>5, <2>1
<1>. QED
  BY <1>6, <1>7, <1>8, <1>9, <1>10, <1>11, <1>12, <1>13, <1>14 DEF MainNext, Load, Act

(***************************************************************************)
(* MainTypeOK: the program never calls the functions of one type of set    *)
(* with the set of another, and its exit status is one it means, for every *)
(* command line and every input.                                           *)
(***************************************************************************)
THEOREM MainTypeCorrect == MainSpec => []MainTypeOK
<1>1. MainInit => MainTypeInv
  BY MainTypeInit
<1>2. MainTypeInv /\ [MainNext]_allVars => MainTypeInv'
  <2>1. ASSUME MainTypeInv, UNCHANGED allVars PROVE MainTypeInv'
    BY <2>1 DEF allVars, vars, optionsVars, scanning, mainVars, MainTypeInv, MainTypeOK,
                OptsTyped, TypeOK, Dispatch, Actions
  <2>. QED
    BY <2>1, MainTypeStep
<1>3. MainTypeInv => MainTypeOK
  BY DEF MainTypeInv
<1>. QED
  BY <1>1, <1>2, <1>3, PTL DEF MainSpec

(***************************************************************************)
(* The number of bytes of the input                                        *)
(***************************************************************************)
\* f adds up the lengths of the texts of in: SumLen, with its function named.
SumsOf(in, f) ==
  f = [i \in 0..Len(in) |-> IF i = 0 THEN 0 ELSE f[i - 1] + TextLen[in[i].text]]

SumInv == /\ input \in Seq(Line)
          /\ \E f : SumsOf(input, f) /\ f[Len(input)] = line_mem

\* There is only one such function.
LEMMA OneSum ==
  ASSUME NEW in \in Seq(Line), NEW f, NEW g, SumsOf(in, f), SumsOf(in, g)
  PROVE  f = g
<1> DEFINE n == Len(in)
           D == {i \in 0..n : f[i] # g[i]}
<1>1. /\ n \in Nat
      /\ \A i \in 0..n : f[i] = IF i = 0 THEN 0 ELSE f[i - 1] + TextLen[in[i].text]
      /\ \A i \in 0..n : g[i] = IF i = 0 THEN 0 ELSE g[i - 1] + TextLen[in[i].text]
      /\ f = [i \in 0..n |-> f[i]] /\ g = [i \in 0..n |-> g[i]]
  BY DEF SumsOf
<1>2. D = {}
  <2> SUFFICES ASSUME D # {} PROVE FALSE
    OBVIOUS
  <2>1. D \in SUBSET Nat
    BY <1>1
  <2>2. PICK i \in D : \A x \in D : i <= x
    <3> HIDE DEF D
    <3>. QED
      BY <2>1, LeastElement
  <2>3. i \in 0..n /\ f[i] # g[i] /\ i # 0
    BY <1>1, <2>2
  <2>4. i - 1 \in 0..n /\ ~(i <= i - 1)
    BY <1>1, <2>3
  <2>5. f[i - 1] = g[i - 1]
    BY <2>2, <2>4
  <2>. QED
    BY <1>1, <2>3, <2>5
<1>3. \A i \in 0..n : f[i] = g[i]
  BY <1>2
<1> HIDE DEF n
<1>. QED
  BY <1>1, <1>3

LEMMA SumLenIs ==
  ASSUME SumInv
  PROVE  SumLen = line_mem
<1>1. PICK f : SumsOf(input, f) /\ f[Len(input)] = line_mem
  BY DEF SumInv
<1> DEFINE g == CHOOSE g : SumsOf(input, g)
<1>2. SumsOf(input, g)
  BY <1>1
<1>3. SumLen = g[Len(input)]
  BY DEF SumLen, SumsOf
<1>4. g = f
  <2>. HIDE DEF g
  <2>. QED
    BY <1>1, <1>2, OneSum DEF SumInv
<1>. QED
  BY <1>1, <1>3, <1>4

LEMMA SumGrows ==
  ASSUME SumInv, NEW l \in Line, ReadLine(l)
  PROVE  SumInv'
<1> DEFINE n == Len(input)
<1>1. PICK f : SumsOf(input, f) /\ f[n] = line_mem
  BY DEF SumInv
<1>2. /\ input \in Seq(Line) /\ input' = Append(input, l)
      /\ line_mem' = line_mem + KeyLen(l)
  BY DEF SumInv, ReadLine
<1>3. /\ n \in Nat /\ Len(input') = n + 1 /\ input' \in Seq(Line)
      /\ \A i \in 1..n : input'[i] = input[i]
      /\ input'[n + 1] = l
  BY <1>2
<1>4. KeyLen(l) = TextLen[l.text]
  <2>1. TextLen[l.text] \in Nat /\ l.nul \in BOOLEAN /\ l.eol \in BOOLEAN /\ l.tail \in Nat
        /\ (~l.nul => l.tail = 0)
    BY TextsAssumption DEF Line
  <2>. QED
    BY <2>1 DEF KeyLen, RawLen
<1>5. /\ \A i \in 0..n : f[i] = IF i = 0 THEN 0 ELSE f[i - 1] + TextLen[input[i].text]
  BY <1>1 DEF SumsOf
<1> DEFINE m == line_mem + TextLen[l.text]
           g == [i \in 0..(n + 1) |-> IF i = n + 1 THEN m ELSE f[i]]
<1>6. \A i \in 0..(n + 1) : g[i] = IF i = 0 THEN 0 ELSE g[i - 1] + TextLen[input'[i].text]
  <2> TAKE i \in 0..(n + 1)
  <2>1. CASE i = n + 1
    <3>1. g[i] = m /\ i # 0 /\ i - 1 = n /\ n \in 0..(n + 1) /\ n # n + 1
      BY <1>3, <2>1
    <3>2. g[i - 1] = f[n] /\ input'[i] = l
      BY <1>3, <2>1, <3>1
    <3>. QED
      BY <1>1, <3>1, <3>2
  <2>2. CASE i # n + 1
    <3>1. i \in 0..n /\ g[i] = f[i]
      BY <1>3, <2>2
    <3>2. i # 0 => /\ i - 1 \in 0..(n + 1) /\ i - 1 # n + 1 /\ i \in 1..n
                   /\ g[i - 1] = f[i - 1] /\ input'[i] = input[i]
      BY <1>3, <3>1
    <3>. QED
      BY <1>5, <3>1, <3>2
  <2>. QED
    BY <2>1, <2>2
<1>7. g = [i \in 0..(n + 1) |-> g[i]] /\ g[n + 1] = m
  BY <1>3
<1> HIDE DEF g, m, n
<1>8. g = [i \in 0..(n + 1) |-> IF i = 0 THEN 0 ELSE g[i - 1] + TextLen[input'[i].text]]
  BY <1>6, <1>7
<1>9. SumsOf(input', g)
  BY <1>3, <1>8 DEF SumsOf
<1>10. g[Len(input')] = line_mem'
  BY <1>2, <1>3, <1>4, <1>7 DEF m
<1>. QED
  BY <1>3, <1>9, <1>10 DEF SumInv

(***************************************************************************)
(* The statistics                                                          *)
(***************************************************************************)
\* Inductive: line_mem adds up the input, and once the statistics are printed
\* no line is read.
LinesInv ==
  /\ SumInv
  /\ shown # Nothing => /\ stage \in {"end", "exit"}
                        /\ shown.uniq_line = uniq_line
                        /\ shown.dups_line = dups_line
                        /\ shown.line_mem = line_mem

LEMMA LinesInit == MainInit => LinesInv
<1> SUFFICES ASSUME MainInit PROVE LinesInv
  OBVIOUS
<1>1. input = << >> /\ line_mem = 0 /\ shown = Nothing
  BY DEF MainInit, Init
<1> DEFINE f == [i \in {0} |-> 0]
<1>2. << >> \in Seq(Line) /\ Len(<< >>) = 0 /\ 0..0 = {0}
  OBVIOUS
<1>3. f = [i \in 0..0 |-> IF i = 0 THEN 0 ELSE f[i - 1] + TextLen[<< >>[i].text]] /\ f[0] = 0
  BY <1>2
<1>. HIDE DEF f
<1>4. SumsOf(input, f) /\ f[Len(input)] = line_mem
  BY <1>1, <1>2, <1>3 DEF SumsOf
<1>. QED
  BY <1>1, <1>2, <1>4 DEF LinesInv, SumInv

LEMMA LinesStep ==
  ASSUME LinesInv, MainNext
  PROVE  LinesInv'
<1>1. CASE \E l \in Line : LoadLine(l)
  <2>1. SumInv' /\ stage = "load" /\ shown' = shown
    BY <1>1, SumGrows DEF LinesInv, LoadLine, mainVars
  <2>. QED
    BY <2>1 DEF LinesInv
<1>2. ASSUME UNCHANGED <<input, line_mem, uniq_line, dups_line>>
      PROVE  SumInv'
  BY <1>2 DEF LinesInv, SumInv
<1>3. ASSUME UNCHANGED <<input, line_mem, uniq_line, dups_line, shown>>,
             stage \in {"end", "exit"} => stage' \in {"end", "exit"}
      PROVE  LinesInv'
  BY <1>2, <1>3 DEF LinesInv
<1>4. CASE PrintStats
  <2>1. /\ UNCHANGED <<input, line_mem, uniq_line, dups_line>>
        /\ stage' \in {"end", "exit"}
        /\ shown'.uniq_line = uniq_line /\ shown'.dups_line = dups_line
        /\ shown'.line_mem = line_mem
    <3>1. PICK t, load :
            shown' = [type |-> set.type, table |-> t, load |-> load,
                      uniq_line |-> uniq_line, dups_line |-> dups_line,
                      line_mem |-> line_mem]
      BY <1>4 DEF PrintStats
    <3>. QED
      BY <1>4, <3>1 DEF PrintStats, Exit, vars
  <2>. QED
    BY <1>2, <2>1 DEF LinesInv
<1>5. CASE ParseOptions \/ OptionsFail \/ OptionsDone \/ PrintOnly \/ CreateSet
  BY <1>3, <1>5 DEF ParseOptions, OptionsFail, OptionsDone, PrintOnly, CreateSet, Exit,
                    vars, mainVars
<1>6. CASE LoadEnd \/ LoadFails \/ Act
  BY <1>3, <1>6 DEF LoadEnd, LoadFails, EndOfInput, Act, Nop, PrintLines, PrintStops,
                    PrintWarns, PrintElems, PrintsLines, AfterAct, Exit, vars
<1>7. CASE Separate \/ Destroy \/ Exited
  BY <1>3, <1>7 DEF Separate, Destroy, Exited, Exit, vars, allVars, mainVars
<1>. QED
  BY <1>1, <1>4, <1>5, <1>6, <1>7 DEF MainNext, Load

(***************************************************************************)
(* StatsRight, for every input shorter than the value type counts.         *)
(***************************************************************************)
THEOREM StatsAlwaysRight ==
  ASSUME MaxLines < ValueLimit
  PROVE  MainSpec => []StatsRight
<1>1. MainSpec => []ShownInv
  BY ShownInvariance
<1>2. MainSpec => []LoadInv
  BY ProgramLoads, LoadInvariance, PTL
<1>3. LinesInv /\ [MainNext]_allVars => LinesInv'
  <2>1. ASSUME LinesInv, UNCHANGED allVars PROVE LinesInv'
    BY <2>1 DEF allVars, vars, mainVars, LinesInv, SumInv
  <2>. QED
    BY <2>1, LinesStep
<1>4. LinesInv /\ LoadInv /\ ShownInv => StatsRight
  <2> SUFFICES ASSUME LinesInv, LoadInv PROVE LinesShown
    BY DEF StatsRight, ShownInv
  <2>1. SumLen = line_mem
    BY SumLenIs DEF LinesInv
  <2>2. /\ uniq_line = Cardinality(Keys) /\ uniq_line + dups_line = Len(input)
        /\ dups_line \in Nat /\ Cardinality(Keys) \in Nat
    BY FS_CardinalityType DEF LoadInv
  <2>3. dups_line = Len(input) - Cardinality(Keys)
    <3>1. Len(input) \in Nat
      BY DEF LoadInv
    <3>. QED
      BY <2>2, <3>1
  <2>. QED
    BY <2>1, <2>2, <2>3 DEF LinesInv, LinesShown
<1>. QED
  BY LinesInit, <1>1, <1>2, <1>3, <1>4, PTL DEF MainSpec

(***************************************************************************)
(* The set of separators is sorted to find out whether a byte is given     *)
(* twice.                                                                  *)
(***************************************************************************)
Byte == 0..255

\* The bytes of s before the n + 1st.
FirstOf(s, n) == {s[i] : i \in 1..n}
Different(s, n) == \A i, j \in 1..n : s[i] = s[j] => i = j
Rising(t) == \A i, j \in DOMAIN t : i <= j => t[i] <= t[j]

\* t is what the first n bytes of s are when they are sorted.
SortOf(t, s, n) == /\ t \in Seq(Byte) /\ Len(t) = n /\ Rising(t)
                   /\ FirstOf(t, n) = FirstOf(s, n)
                   /\ Different(t, n) <=> Different(s, n)

LEMMA BytesOrdered ==
  ASSUME NEW x \in Byte, NEW y \in Byte, NEW z \in Byte
  PROVE  /\ x <= x /\ (~(x <= y) => x > y) /\ (x > y => y <= x)
         /\ x <= y /\ y <= z => x <= z
         /\ x <= y /\ y <= z /\ y # z => x # z
BY DEF Byte

\* The place of a byte: behind those that are not larger.
LEMMA PlaceOf ==
  ASSUME NEW t \in Seq(Byte), NEW c \in Byte
  PROVE  \E j \in 0..Len(t) : /\ j > 0 => t[j] <= c
                              /\ \A x \in (j + 1)..Len(t) : t[x] > c
<1> DEFINE n == Len(t)
           D == {d \in 0..n : n - d = 0 \/ t[n - d] <= c}
<1>1. n \in Nat /\ \A x \in 1..n : t[x] \in Byte
  OBVIOUS
<1> HIDE DEF n
<1>2. D \in SUBSET Nat /\ n \in D
  BY <1>1
<1>3. PICK d \in D : \A x \in D : d <= x
  <2> HIDE DEF D
  <2>. QED
    BY <1>2, LeastElement
<1> DEFINE j == n - d
<1>4. j \in 0..n /\ (j > 0 => t[j] <= c)
  BY <1>1, <1>3
<1>5. ASSUME NEW x \in (j + 1)..n PROVE t[x] > c
  <2>1. n - x \in 0..n /\ n - (n - x) = x /\ x # 0 /\ n - x < d /\ x \in 1..n
    BY <1>1, <1>4
  <2>2. n - x \notin D
    <3> SUFFICES ASSUME n - x \in D PROVE FALSE
      OBVIOUS
    <3>1. d <= n - x
      BY <1>3, Zenon
    <3> HIDE DEF D
    <3>2. d \in Nat
      BY <1>2, <1>3
    <3>. QED
      BY <1>1, <2>1, <3>1, <3>2
  <2>3. ~(t[x] <= c)
    BY <2>1, <2>2
  <2>. QED
    BY <1>1, <2>1, <2>3, BytesOrdered
<1>. QED
  BY <1>4, <1>5 DEF n

LEMMA InsertByteIs ==
  ASSUME NEW t \in Seq(Byte), NEW c \in Byte
  PROVE  \E j \in 0..Len(t) :
           /\ j > 0 => t[j] <= c
           /\ \A x \in (j + 1)..Len(t) : t[x] > c
           /\ InsertByte(t, c) \in Seq(Byte)
           /\ Len(InsertByte(t, c)) = Len(t) + 1
           /\ \A i \in 1..j : InsertByte(t, c)[i] = t[i]
           /\ InsertByte(t, c)[j + 1] = c
           /\ \A i \in (j + 2)..(Len(t) + 1) : InsertByte(t, c)[i] = t[i - 1]
<1> DEFINE n == Len(t)
           j == CHOOSE j \in 0..Len(t) : /\ j > 0 => t[j] <= c
                                         /\ \A x \in (j + 1)..Len(t) : t[x] > c
           a == SubSeq(t, 1, j)
           b == SubSeq(t, j + 1, Len(t))
           m == a \o <<c>>
           u == m \o b
<1>1. n \in Nat /\ j \in 0..n /\ (j > 0 => t[j] <= c) /\ \A x \in (j + 1)..n : t[x] > c
  BY PlaceOf
<1>2. InsertByte(t, c) = u
  BY DEF InsertByte
<1> HIDE DEF j
<1>3. /\ a \in Seq(Byte) /\ Len(a) = j /\ \A i \in 1..j : a[i] = t[i]
  BY <1>1
<1>4. /\ b \in Seq(Byte) /\ Len(b) = n - j /\ \A i \in 1..(n - j) : b[i] = t[j + i]
  BY <1>1
<1> HIDE DEF a, b
<1>5. <<c>> \in Seq(Byte) /\ Len(<<c>>) = 1 /\ <<c>>[1] = c
  OBVIOUS
<1>6. /\ m \in Seq(Byte) /\ Len(m) = j + 1
      /\ \A i \in 1..(j + 1) : m[i] = IF i <= j THEN a[i] ELSE <<c>>[i - j]
  BY <1>3, <1>5, ConcatProperties
<1> HIDE DEF m
<1>7. /\ u \in Seq(Byte) /\ Len(u) = (j + 1) + (n - j)
      /\ \A i \in 1..((j + 1) + (n - j)) : u[i] = IF i <= j + 1 THEN m[i] ELSE b[i - (j + 1)]
  <2>1. /\ m \o b \in Seq(Byte) /\ Len(m \o b) = Len(m) + Len(b)
        /\ \A i \in 1..(Len(m) + Len(b)) :
             (m \o b)[i] = IF i <= Len(m) THEN m[i] ELSE b[i - Len(m)]
    BY <1>4, <1>6, ConcatProperties
  <2>. QED
    BY <1>4, <1>6, <2>1
<1> HIDE DEF u
<1>8. Len(u) = n + 1 /\ (j + 1) + (n - j) = n + 1
  BY <1>1, <1>7
<1>9. ASSUME NEW i \in 1..j PROVE u[i] = t[i]
  <2>1. i \in 1..(n + 1) /\ i \in 1..(j + 1) /\ i <= j /\ i <= j + 1
    BY <1>1
  <2>. QED
    BY <1>3, <1>6, <1>7, <1>8, <2>1
<1>10. u[j + 1] = c
  <2>1. /\ j + 1 \in 1..(n + 1) /\ j + 1 \in 1..(j + 1) /\ ~(j + 1 <= j) /\ (j + 1) - j = 1
        /\ j + 1 <= j + 1
    BY <1>1
  <2>. QED
    BY <1>5, <1>6, <1>7, <1>8, <2>1
<1>11. ASSUME NEW i \in (j + 2)..(n + 1) PROVE u[i] = t[i - 1]
  <2>1. /\ i \in 1..(n + 1) /\ ~(i <= j + 1) /\ i - (j + 1) \in 1..(n - j)
        /\ j + (i - (j + 1)) = i - 1
    BY <1>1
  <2>. QED
    BY <1>4, <1>7, <1>8, <2>1
<1>. QED
  BY <1>1, <1>2, <1>7, <1>8, <1>9, <1>10, <1>11

LEMMA SortGrows ==
  ASSUME NEW s \in Seq(Byte), NEW n \in Nat, n + 1 <= Len(s), NEW t, SortOf(t, s, n)
  PROVE  SortOf(InsertByte(t, s[n + 1]), s, n + 1)
<1> DEFINE c == s[n + 1]
           u == InsertByte(t, c)
<1>1. c \in Byte /\ t \in Seq(Byte) /\ Len(t) = n
  BY DEF SortOf
<1> HIDE DEF c
<1>2. PICK j \in 0..n :
        /\ j > 0 => t[j] <= c
        /\ \A x \in (j + 1)..n : t[x] > c
        /\ u \in Seq(Byte) /\ Len(u) = n + 1
        /\ \A i \in 1..j : u[i] = t[i]
        /\ u[j + 1] = c
        /\ \A i \in (j + 2)..(n + 1) : u[i] = t[i - 1]
  BY <1>1, InsertByteIs
<1> HIDE DEF u
<1> DEFINE old(i) == IF i <= j THEN i ELSE i - 1
<1>3. ASSUME NEW i \in 1..(n + 1), i # j + 1
      PROVE  old(i) \in 1..n /\ u[i] = t[old(i)]
  BY <1>2, <1>3
<1>4. \A i \in 1..n : t[i] \in Byte
  BY <1>1
<1>5. \A i, m \in 1..n : i <= m => t[i] <= t[m]
  BY <1>1 DEF SortOf, Rising
<1>6. ASSUME NEW i \in 1..(n + 1), NEW m \in 1..(n + 1), i <= m PROVE u[i] <= u[m]
  <2>1. CASE i # j + 1 /\ m # j + 1
    <3>1. old(i) <= old(m)
      BY <1>2, <1>6, <2>1
    <3>. QED
      BY <1>3, <1>5, <2>1, <3>1
  <2>2. CASE i = j + 1 /\ m = j + 1
    BY <1>1, <1>2, <2>2 DEF Byte
  <2>3. CASE i = j + 1 /\ m # j + 1
    <3>1. m - 1 \in (j + 1)..n /\ u[m] = t[m - 1]
      BY <1>2, <1>6, <2>3
    <3>2. m - 1 \in 1..n /\ t[m - 1] \in Byte /\ t[m - 1] > c
      BY <1>2, <1>4, <3>1
    <3>. QED
      BY <1>1, <1>2, <2>3, <3>1, <3>2, BytesOrdered
  <2>4. CASE i # j + 1 /\ m = j + 1
    <3>1. i \in 1..j /\ j > 0 /\ u[i] = t[i] /\ i <= j /\ i \in 1..n /\ j \in 1..n
      BY <1>2, <1>6, <2>4
    <3>2. t[i] <= t[j] /\ t[j] <= c /\ t[i] \in Byte /\ t[j] \in Byte
      BY <1>2, <1>4, <1>5, <3>1
    <3>3. t[i] <= c
      BY <1>1, <3>2, BytesOrdered
    <3>. QED
      BY <1>2, <2>4, <3>1, <3>3
  <2>. QED
    BY <2>1, <2>2, <2>3, <2>4
<1>7. Rising(u)
  BY <1>2, <1>6 DEF Rising
<1> DEFINE new(i) == IF i <= j THEN i ELSE i + 1
<1>8. ASSUME NEW i \in 1..n PROVE new(i) \in 1..(n + 1) /\ new(i) # j + 1 /\ u[new(i)] = t[i]
  BY <1>2
<1>9. FirstOf(u, n + 1) = FirstOf(t, n) \cup {c}
  <2> HIDE DEF old, new
  <2>1. \A i \in 1..(n + 1) : u[i] \in FirstOf(t, n) \cup {c}
    BY <1>2, <1>3 DEF FirstOf
  <2>2. \A i \in 1..n : \E m \in 1..(n + 1) : u[m] = t[i]
    BY <1>8
  <2>3. j + 1 \in 1..(n + 1)
    BY <1>2
  <2>4. FirstOf(u, n + 1) \subseteq FirstOf(t, n) \cup {c}
    BY <2>1 DEF FirstOf
  <2>5. FirstOf(t, n) \subseteq FirstOf(u, n + 1)
    BY <2>2 DEF FirstOf
  <2>6. c \in FirstOf(u, n + 1)
    BY <1>2, <2>3 DEF FirstOf
  <2>. QED
    BY <2>4, <2>5, <2>6
<1>10. FirstOf(s, n + 1) = FirstOf(s, n) \cup {c}
  <2>1. 1..(n + 1) = (1..n) \cup {n + 1}
    OBVIOUS
  <2>. QED
    BY <2>1 DEF FirstOf, c
<1>11. FirstOf(t, n) = FirstOf(s, n) /\ (Different(t, n) <=> Different(s, n))
  BY DEF SortOf
<1>12. Different(u, n + 1) <=> Different(t, n) /\ c \notin FirstOf(t, n)
  <2>1. ASSUME Different(u, n + 1) PROVE Different(t, n) /\ c \notin FirstOf(t, n)
    <3>1. ASSUME NEW i \in 1..n, NEW m \in 1..n, t[i] = t[m] PROVE i = m
      <4>1. new(i) = new(m)
        <5> HIDE DEF new
        <5>. QED
          BY <1>8, <2>1, <3>1 DEF Different
      <4>. QED
        BY <1>2, <4>1
    <3>2. ASSUME NEW i \in 1..n, t[i] = c PROVE FALSE
      <4>1. j + 1 \in 1..(n + 1)
        BY <1>2
      <4> HIDE DEF new
      <4>. QED
        BY <1>2, <1>8, <2>1, <3>2, <4>1 DEF Different
    <3>. QED
      BY <3>1, <3>2 DEF Different, FirstOf
  <2>2. ASSUME Different(t, n), c \notin FirstOf(t, n) PROVE Different(u, n + 1)
    <3> SUFFICES ASSUME NEW i \in 1..(n + 1), NEW m \in 1..(n + 1), u[i] = u[m] PROVE i = m
      BY DEF Different
    <3>1. \A x \in 1..n : t[x] # c
      BY <2>2 DEF FirstOf
    <3>2. CASE i = j + 1 \/ m = j + 1
      <4> HIDE DEF old
      <4>. QED
        BY <1>2, <1>3, <3>1, <3>2
    <3>3. CASE i # j + 1 /\ m # j + 1
      <4>1. old(i) = old(m)
        <5> HIDE DEF old
        <5>. QED
          BY <1>3, <2>2, <3>3 DEF Different
      <4>. QED
        BY <1>2, <3>3, <4>1
    <3>. QED
      BY <3>2, <3>3
  <2>. QED
    BY <2>1, <2>2
<1>13. Different(s, n + 1) <=> Different(s, n) /\ c \notin FirstOf(s, n)
  <2>1. ASSUME Different(s, n + 1) PROVE Different(s, n) /\ c \notin FirstOf(s, n)
    <3>1. \A i \in 1..n : i \in 1..(n + 1) /\ i # n + 1
      OBVIOUS
    <3>2. n + 1 \in 1..(n + 1)
      OBVIOUS
    <3>. QED
      BY <2>1, <3>1, <3>2 DEF Different, FirstOf, c
  <2>2. ASSUME Different(s, n), c \notin FirstOf(s, n) PROVE Different(s, n + 1)
    <3>1. \A i \in 1..(n + 1) : i \in 1..n \/ i = n + 1
      OBVIOUS
    <3>. QED
      BY <2>2, <3>1 DEF Different, FirstOf, c
  <2>. QED
    BY <2>1, <2>2
<1>. QED
  BY <1>2, <1>7, <1>9, <1>10, <1>11, <1>12, <1>13 DEF SortOf, u, c

\* The definition of a function by recursion has a solution.
SortsOf(s, f) == f = [n \in 0..Len(s) |-> IF n = 0 THEN << >> ELSE InsertByte(f[n - 1], s[n])]

LEMMA SortExists ==
  ASSUME NEW s \in Seq(Byte)
  PROVE  \E f : SortsOf(s, f)
<1> DEFINE F(f, m) == f = [n \in 0..m |-> IF n = 0 THEN << >> ELSE InsertByte(f[n - 1], s[n])]
           D == {m \in Nat : \E f : F(f, m)}
<1>1. 0 \in D
  <2> DEFINE f == [n \in 0..0 |-> << >>]
  <2>1. \A n \in 0..0 : n = 0
    OBVIOUS
  <2>2. F(f, 0)
    BY <2>1
  <2> HIDE DEF F
  <2>. QED
    BY <2>2
<1>2. ASSUME NEW m \in D PROVE m + 1 \in D
  <2>1. PICK f : F(f, m)
    OBVIOUS
  <2>2. m \in Nat
    OBVIOUS
  <2> HIDE DEF D
  <2> DEFINE g == [n \in 0..(m + 1) |-> IF n = m + 1 THEN InsertByte(f[m], s[m + 1]) ELSE f[n]]
  <2>3. \A n \in 0..m : f[n] = IF n = 0 THEN << >> ELSE InsertByte(f[n - 1], s[n])
    BY <2>1
  <2>4. ASSUME NEW n \in 0..(m + 1)
        PROVE  g[n] = IF n = 0 THEN << >> ELSE InsertByte(g[n - 1], s[n])
    <3>1. CASE n = m + 1
      <4>1. n # 0 /\ n - 1 = m /\ m \in 0..(m + 1) /\ m # m + 1
        BY <2>2, <3>1
      <4>2. g[n] = InsertByte(f[m], s[m + 1]) /\ g[m] = f[m]
        BY <3>1, <4>1
      <4>. QED
        BY <3>1, <4>1, <4>2
    <3>2. CASE n # m + 1
      <4>1. n \in 0..m /\ (n # 0 => n - 1 \in 0..(m + 1) /\ n - 1 # m + 1)
        BY <2>2, <3>2
      <4>2. g[n] = f[n] /\ (n # 0 => g[n - 1] = f[n - 1])
        BY <3>2, <4>1
      <4>. QED
        BY <2>3, <4>1, <4>2
    <3>. QED
      BY <3>1, <3>2
  <2>5. g = [n \in 0..(m + 1) |-> g[n]]
    OBVIOUS
  <2> HIDE DEF g
  <2>6. F(g, m + 1)
    BY <2>4, <2>5
  <2> HIDE DEF F
  <2>. QED
    BY <2>2, <2>6 DEF D
<1>3. D = Nat
  <2>1. D \in SUBSET Nat
    OBVIOUS
  <2> HIDE DEF D
  <2>. QED
    BY <1>1, <1>2, <2>1, SetInduction
<1>4. Len(s) \in D
  BY <1>3
<1>. QED
  BY <1>4 DEF SortsOf

LEMMA SortBytesIs ==
  ASSUME NEW s \in Seq(Byte)
  PROVE  SortOf(SortBytes(s), s, Len(s))
<1> DEFINE f == CHOOSE f : SortsOf(s, f)
<1>1. SortsOf(s, f)
  BY SortExists
<1>2. SortBytes(s) = f[Len(s)]
  BY DEF SortBytes, SortsOf
<1> HIDE DEF f
<1>3. \A n \in 0..Len(s) : f[n] = IF n = 0 THEN << >> ELSE InsertByte(f[n - 1], s[n])
  BY <1>1 DEF SortsOf
<1> DEFINE D == {n \in Nat : n <= Len(s) => SortOf(f[n], s, n)}
<1>4. 0 \in D
  <2>1. f[0] = << >>
    BY <1>3
  <2>2. << >> \in Seq(Byte) /\ Len(<< >>) = 0 /\ DOMAIN << >> = {} /\ 1..0 = {}
    OBVIOUS
  <2>3. SortOf(<< >>, s, 0)
    BY <2>2 DEF SortOf, Rising, FirstOf, Different
  <2>. QED
    BY <2>1, <2>3
<1>5. ASSUME NEW n \in D PROVE n + 1 \in D
  <2>1. n \in Nat /\ (n <= Len(s) => SortOf(f[n], s, n))
    OBVIOUS
  <2>2. ASSUME n + 1 <= Len(s) PROVE SortOf(f[n + 1], s, n + 1)
    <3>1. n + 1 \in 0..Len(s) /\ n + 1 # 0 /\ (n + 1) - 1 = n /\ n <= Len(s)
      BY <2>1, <2>2
    <3>2. f[n + 1] = InsertByte(f[n], s[n + 1])
      BY <1>3, <3>1
    <3>. QED
      BY <2>1, <2>2, <3>1, <3>2, SortGrows
  <2>. QED
    BY <2>1, <2>2
<1>6. D = Nat
  <2>1. D \in SUBSET Nat
    OBVIOUS
  <2> HIDE DEF D
  <2>. QED
    BY <1>4, <1>5, <2>1, SetInduction
<1>7. Len(s) \in D
  BY <1>6
<1>. QED
  BY <1>2, <1>7

\* Two neighbours are equal when, and only when, a byte was given twice.
LEMMA TwiceFound ==
  ASSUME NEW s \in Seq(Byte)
  PROVE  LET t == SortBytes(s)
         IN  (\E p \in 2..Len(t) : t[p] = t[p - 1])
               <=> ~(\A i, j \in DOMAIN s : s[i] = s[j] => i = j)
<1> DEFINE t == SortBytes(s)
           n == Len(s)
<1>1. /\ t \in Seq(Byte) /\ Len(t) = n /\ Rising(t) /\ n \in Nat
      /\ Different(t, n) <=> Different(s, n)
  BY SortBytesIs DEF SortOf
<1> HIDE DEF t
<1>2. Different(s, n) <=> \A i, j \in DOMAIN s : s[i] = s[j] => i = j
  BY DEF Different
<1>3. ASSUME NEW p \in 2..n, t[p] = t[p - 1] PROVE ~Different(t, n)
  <2>1. p \in 1..n /\ p - 1 \in 1..n /\ p # p - 1
    BY <1>1
  <2>. QED
    BY <1>3, <2>1 DEF Different
<1>4. ASSUME \A p \in 2..n : t[p] # t[p - 1] PROVE Different(t, n)
  <2>1. ASSUME NEW i \in 1..n, NEW j \in 1..n, i < j PROVE t[i] # t[j]
    <3>1. /\ j \in 2..n /\ j - 1 \in 1..n /\ i <= j - 1 /\ j - 1 <= j
          /\ DOMAIN t = 1..n /\ t[i] \in Byte /\ t[j - 1] \in Byte /\ t[j] \in Byte
      BY <1>1, <2>1
    <3>2. t[i] <= t[j - 1] /\ t[j - 1] <= t[j] /\ t[j] # t[j - 1]
      BY <1>1, <1>4, <3>1 DEF Rising
    <3>. QED
      BY <3>1, <3>2, BytesOrdered
  <2>2. ASSUME NEW i \in 1..n, NEW j \in 1..n, t[i] = t[j] PROVE i = j
    <3>1. ~(i < j) /\ ~(j < i)
      BY <2>1, <2>2
    <3>. QED
      BY <1>1, <3>1
  <2>. QED
    BY <2>2 DEF Different
<1>. QED
  BY <1>1, <1>2, <1>3, <1>4 DEF t

(***************************************************************************)
(* The arguments                                                           *)
(***************************************************************************)
LEMMA TextFields ==
  ASSUME NEW text \in Text
  PROVE  /\ Is("num", text) => /\ text.num \in Nat
                               /\ ~Is("hundredths", text) /\ ~Is("bytes", text)
                               /\ ~Is("name", text)
         /\ Is("hundredths", text) => /\ text.hundredths \in Nat \cup {NaN}
                                      /\ ~Is("bytes", text) /\ ~Is("name", text)
         /\ Is("bytes", text) => text.bytes \in Seq(Byte) /\ ~Is("name", text)
<1>1. CASE text \in {NoText, Other}
  BY <1>1 DEF NoText, Other, Is
<1>2. CASE text \in [num : Nat, tail : STRING]
  BY <1>2 DEF Is
<1>3. CASE text \in [hundredths : Nat \cup {NaN}]
  BY <1>3 DEF Is
<1>4. CASE text \in [name : STRING]
  BY <1>4 DEF Is
<1>5. CASE text \in [bytes : Seq(0..255)]
  BY <1>5 DEF Is, Byte
<1>. QED
  BY <1>1, <1>2, <1>3, <1>4, <1>5 DEF Text

LEMMA UnitsPositive == 1 \in Nat \ {0} /\ KB \in Nat \ {0} /\ MB \in Nat \ {0}
BY SMT DEF KB, MB

LEMMA UnitsAre ==
  ASSUME NEW tail \in {"", "k", "K", "m", "M"}
  PROVE  Unit(tail) \in Nat \ {0}
<1>1. Unit("") = 1
  BY DEF Unit
<1>2. ASSUME NEW t \in {"k", "K"} PROVE Unit(t) = KB
  BY DEF Unit
<1>3. ASSUME NEW t \in {"m", "M"} PROVE Unit(t) = MB
  BY DEF Unit
<1>4. tail = "" \/ tail \in {"k", "K"} \/ tail \in {"m", "M"}
  OBVIOUS
<1>. QED
  BY <1>1, <1>2, <1>3, <1>4, UnitsPositive, Zenon

\* A number is refused or taken with its unit, whatever it overflows.
LEMMA SizesTaken ==
  ASSUME NEW text \in Text, NEW o \in {"p", "h", "n"}, 512 * MB <= SizeMax,
         NEW max \in Nat, max = IF o = "p" THEN 512 * MB ELSE 32 * MB
  PROVE  LET v == parse_su_size_optarg(text, max)
         IN  /\ v.error = "none" <=> Legal(o, text)
             /\ v.error = "none" => v.value = Meant(o, text)
<1>1. max <= SizeMax /\ SizeMax \in Nat
  BY ArgvAssumption DEF MB, KB
<1> DEFINE v == parse_su_size_optarg(text, max)
<1>2. CASE ~Is("num", text) \/ text.tail \notin {"", "k", "K", "m", "M"}
  <2>1. v = Invalid
    BY <1>2 DEF parse_su_size_optarg
  <2>2. ~Legal(o, text)
    BY <1>2 DEF Legal
  <2>. QED
    BY <2>1, <2>2 DEF Invalid
<1>3. CASE Is("num", text) /\ text.tail \in {"", "k", "K", "m", "M"}
  <2> DEFINE n == text.num
             u == Unit(text.tail)
  <2>1. n \in Nat
    BY <1>3, TextFields
  <2>2. u \in Nat \ {0}
    BY <1>3, UnitsAre
  <2>3. Meant(o, text) = n * u
    BY <1>3, TextFields, Zenon DEF Meant
  <2>9. v = IF n > SizeMax THEN Invalid
            ELSE IF \/ ~(n <= SizeMax \div u)
                    \/ (n * u) % (SizeMax + 1) = 0
                    \/ (n * u) % (SizeMax + 1) > max
                 THEN Illegal ELSE Taken((n * u) % (SizeMax + 1))
    BY <1>3 DEF parse_su_size_optarg, FitsUnit
  <2>4. Legal(o, text) <=> n * u \in 1..max
    BY <1>3, <2>3 DEF Legal
  <2> HIDE DEF n, u, v
  <2>5. n * u \in Nat /\ n <= n * u
    <3>1. PICK w \in Nat : u = w + 1
      BY <2>2, u - 1 \in Nat
    <3>2. n * u = n * w + n /\ n * w \in Nat
      BY <2>1, <3>1
    <3>. QED
      BY <2>1, <3>2
  <2>6. n <= SizeMax \div u <=> n * u <= SizeMax
    <3> DEFINE q == SizeMax \div u
               r == SizeMax % u
    <3>1. q \in Nat /\ r \in 0..(u - 1) /\ SizeMax = u * q + r
      BY <1>1, <2>2, DivModOf
    <3> HIDE DEF q, r
    <3>2. ASSUME n <= q PROVE n * u <= SizeMax
      <4>1. n * u <= q * u
        BY <2>1, <2>2, <3>1, <3>2, TimesGrows
      <4>2. q * u = u * q /\ q * u \in Nat
        BY <2>2, <3>1
      <4>. QED
        BY <1>1, <2>5, <3>1, <4>1, <4>2
    <3>3. ASSUME ~(n <= q) PROVE ~(n * u <= SizeMax)
      <4>1. q + 1 <= n
        BY <2>1, <3>1, <3>3
      <4>2. (q + 1) * u <= n * u
        BY <2>1, <2>2, <3>1, <4>1, TimesGrows
      <4>3. (q + 1) * u = u * q + u /\ u * q \in Nat
        BY <2>2, <3>1
      <4>. QED
        BY <1>1, <2>2, <2>5, <3>1, <4>2, <4>3
    <3>. QED
      BY <3>2, <3>3 DEF q
  <2>7. CASE n * u > SizeMax
    <3>1. v \in {Invalid, Illegal}
      BY <1>1, <2>5, <2>6, <2>7, <2>9
    <3>2. ~(n * u \in 1..max)
      BY <1>1, <2>5, <2>7
    <3>. QED
      BY <2>4, <3>1, <3>2 DEF Invalid, Illegal, v
  <2>8. CASE n * u <= SizeMax
    <3>1. (n * u) % (SizeMax + 1) = n * u
      <4> DEFINE m == SizeMax + 1
                 x == n * u
      <4>1. m \in Nat \ {0} /\ x \in 0..(m - 1) /\ x = m * 0 + x
        BY <1>1, <2>5, <2>8
      <4> HIDE DEF m, x
      <4>2. x % m = x
        BY <4>1, DivModIs
      <4>. QED
        BY <4>2 DEF m, x
    <3>2. n <= SizeMax
      BY <1>1, <2>1, <2>5, <2>8
    <3>3. v = IF n * u = 0 \/ n * u > max THEN Illegal ELSE Taken(n * u)
      <4>1. ~(n > SizeMax)
        BY <1>1, <2>1, <3>2
      <4>. QED
        BY <2>6, <2>8, <2>9, <3>1, <4>1
    <3>. QED
      BY <2>3, <2>4, <2>5, <3>3 DEF Illegal, Taken, v
  <2>. QED
    BY <1>1, <2>5, <2>7, <2>8 DEF v
<1>. QED
  BY <1>2, <1>3

\* The float of n hundredths is no farther from them than half a step of 32 units.
LEMMA BinaryNear ==
  ASSUME NEW n \in Nat
  PROVE  /\ Binary32(n) \in Nat
         /\ 2 * n * Quarter - 800 <= 50 * Binary32(n)
         /\ 50 * Binary32(n) <= 2 * n * Quarter + 800
<1> DEFINE q == n \div 25
           r == n % 25
<1>1. q \in Nat /\ r \in 0..24 /\ n = 25 * q + r
  OBVIOUS
<1>2. Spacing(n) \in {1, 2, 4, 8, 16, 32}
  <2>1. n < 13 \/ n \in 13..24 \/ n \in 25..49 \/ n \in 50..99 \/ n \in 100..199 \/ n >= 200
    OBVIOUS
  <2>. QED
    BY <2>1 DEF Spacing
<1> HIDE DEF q, r
<1>3. Binary32(n) = q * Quarter + Spacing(n) * ((2 * r * Quarter + 25 * Spacing(n))
                                                  \div (50 * Spacing(n)))
  BY DEF Binary32, q, r
<1>4. Quarter = 33554432
  BY DEF Quarter
<1>5. ASSUME NEW u \in {1, 2, 4, 8, 16, 32},
             Binary32(n) = q * 33554432 + u * ((2 * r * 33554432 + 25 * u) \div (50 * u))
      PROVE  /\ Binary32(n) \in Nat
             /\ 2 * n * 33554432 - 800 <= 50 * Binary32(n)
             /\ 50 * Binary32(n) <= 2 * n * 33554432 + 800
  <2>1. CASE u = 1
    BY <1>1, <1>5, <2>1
  <2>2. CASE u = 2
    BY <1>1, <1>5, <2>2
  <2>3. CASE u = 4
    BY <1>1, <1>5, <2>3
  <2>4. CASE u = 8
    BY <1>1, <1>5, <2>4
  <2>5. CASE u = 16
    BY <1>1, <1>5, <2>5
  <2>6. CASE u = 32
    BY <1>1, <1>5, <2>6
  <2>. QED
    BY <2>1, <2>2, <2>3, <2>4, <2>5, <2>6
<1>. QED
  BY <1>2, <1>3, <1>4, <1>5

\* So the distance of two floats can only be judged wrongly by one hundredth.
LEMMA ApartIs ==
  ASSUME NEW x \in Nat, NEW y \in Nat
  PROVE  /\ Apart(x, y) => y - x >= 11
         /\ y - x > 11 => Apart(x, y)
<1> DEFINE a == Binary32(x)
           b == Binary32(y)
           e == Binary32(11)
<1>1. /\ a \in Nat /\ b \in Nat /\ e \in Nat
      /\ 67108864 * x - 800 <= 50 * a /\ 50 * a <= 67108864 * x + 800
      /\ 67108864 * y - 800 <= 50 * b /\ 50 * b <= 67108864 * y + 800
      /\ 67108864 * 11 - 800 <= 50 * e /\ 50 * e <= 67108864 * 11 + 800
  BY BinaryNear DEF Quarter
<1>2. Apart(x, y) <=> b - a > e
  BY DEF Apart
<1> HIDE DEF a, b, e
<1>. QED
  BY <1>1, <1>2

\* The factors that can be let in.
LoadFactors == (11..89) \cup {NaN}
SizeFactors == (111..389) \cup {NaN}

\* A factor that is taken --help lets in, and one that is refused it does not let
\* in, or it is near an end.
LEMMA FactorsTaken ==
  ASSUME NEW o \in {"z", "l"}, NEW text \in Text
  PROVE  /\ Parse(o, text).error = "none" =>
              /\ Parse(o, text).value = Meant(o, text)
              /\ Meant(o, text) \in (IF o = "z" THEN SizeFactors ELSE LoadFactors)
              /\ RangeOf(o, text) \in {"edge", "inside"}
         /\ Parse(o, text).error # "none" => RangeOf(o, text) \in {"edge", "outside"}
<1> DEFINE from == IF o = "z" THEN 100 ELSE 0
           to == IF o = "z" THEN 400 ELSE 100
           h == text.hundredths
           legal == h = NaN \/ (from < h /\ h < to)
           edge == h # NaN /\ (h - from <= 11 \/ to - h <= 11)
<1>1. Parse(o, text) = parse_float_optarg(text, from, to)
  <2>1. CASE o = "z"
    BY <2>1 DEF Parse
  <2>2. CASE o = "l"
    BY <2>2 DEF Parse
  <2>. QED
    BY <2>1, <2>2
<1>2. CASE ~Is("hundredths", text)
  <2>1. Parse(o, text).error # "none"
    BY <1>1, <1>2 DEF parse_float_optarg, Invalid
  <2>2. ~Legal(o, text)
    BY <1>2 DEF Legal
  <2>. QED
    BY <2>1, <2>2 DEF RangeOf
<1>3. CASE Is("hundredths", text)
  <2>1. h \in Nat \cup {NaN} /\ ~Is("num", text) /\ ~Is("bytes", text)
    BY <1>3, TextFields
  <2>2. Meant(o, text) = h
    BY <1>3, <2>1, Zenon DEF Meant
  <2>3. Ends[o][1] = from /\ Ends[o][2] = to
    <3>1. CASE o = "z"
      BY <3>1 DEF Ends
    <3>2. CASE o = "l"
      BY <3>2 DEF Ends
    <3>. QED
      BY <3>1, <3>2
  <2>4. Legal(o, text) <=> legal
    <3>1. CASE o = "z"
      BY <1>3, <2>2, <2>3, <3>1 DEF Legal
    <3>2. CASE o = "l"
      BY <1>3, <2>2, <2>3, <3>2 DEF Legal
    <3>. QED
      BY <3>1, <3>2
  <2>5. AtEdge(o, text) <=> edge
    BY <2>2, <2>3 DEF AtEdge
  <2>6. parse_float_optarg(text, from, to) =
          IF h = NaN \/ (Apart(from, h) /\ Apart(h, to)) THEN Taken(h) ELSE Illegal
    BY <1>3 DEF parse_float_optarg
  <2>7. RangeOf(o, text) = IF ~legal THEN "outside" ELSE IF edge THEN "edge" ELSE "inside"
    BY <2>4, <2>5 DEF RangeOf
  <2>8. from \in Nat /\ to \in Nat
    OBVIOUS
  <2>9. CASE h = NaN
    <3>1. Parse(o, text) = Taken(h)
      BY <1>1, <2>6, <2>9
    <3>2. RangeOf(o, text) = "inside"
      BY <2>7, <2>9
    <3>. QED
      BY <2>2, <2>9, <3>1, <3>2 DEF Taken, LoadFactors, SizeFactors
  <2>10. CASE h \in Nat
    <3>1. /\ Apart(from, h) => h - from >= 11
          /\ h - from > 11 => Apart(from, h)
          /\ Apart(h, to) => to - h >= 11
          /\ to - h > 11 => Apart(h, to)
      BY <2>8, <2>10, ApartIs
    <3>2. h # NaN
      BY <2>10 DEF NaN
    <3>3. CASE Apart(from, h) /\ Apart(h, to)
      <4>1. Parse(o, text) = Taken(h)
        BY <1>1, <2>6, <3>3
      <4>2. legal
        BY <2>8, <2>10, <3>1, <3>3
      <4>3. h \in (IF o = "z" THEN SizeFactors ELSE LoadFactors)
        BY <2>10, <3>1, <3>3 DEF SizeFactors, LoadFactors
      <4> HIDE DEF h, legal, edge
      <4>. QED
        BY <2>2, <2>7, <4>1, <4>2, <4>3 DEF Taken
    <3>4. CASE ~(Apart(from, h) /\ Apart(h, to))
      <4>1. Parse(o, text) = Illegal
        BY <1>1, <2>6, <3>2, <3>4
      <4>2. ~legal \/ edge
        BY <2>8, <2>10, <3>1, <3>2, <3>4
      <4> HIDE DEF h, legal, edge
      <4>. QED
        BY <2>7, <4>1, <4>2 DEF Illegal
    <3>. QED
      BY <3>3, <3>4
  <2>. QED
    BY <2>1, <2>9, <2>10
<1>. QED
  BY <1>2, <1>3

\* What is taken of the others is what is legal, and it is taken for what is meant.
LEMMA ArgumentsTaken ==
  ASSUME NEW o \in ArgNames \ {"z", "l"}, NEW text \in Text, 512 * MB <= SizeMax
  PROVE  /\ Parse(o, text).error = "none" <=> Legal(o, text)
         /\ Parse(o, text).error = "none" => Parse(o, text).value = Meant(o, text)
<1>1. o \in {"p", "h", "n", "r", "s", "t"}
  BY DEF ArgNames, FieldOf
<1>2. CASE o = "p"
  <2>1. Parse(o, text) = parse_su_size_optarg(text, 512 * MB)
    BY <1>2 DEF Parse
  <2>. QED
    BY <1>2, <2>1, SizesTaken DEF MB, KB
<1>3. CASE o \in {"h", "n"}
  <2>1. Parse(o, text) = parse_su_size_optarg(text, 32 * MB)
    BY <1>3 DEF Parse
  <2>. QED
    BY <1>3, <2>1, SizesTaken DEF MB, KB
<1>5. CASE o = "t"
  <2>1. Parse(o, text) = parse_sep_set_optarg(text)
    BY <1>5 DEF Parse
  <2>2. CASE ~Is("bytes", text)
    BY <1>5, <2>1, <2>2 DEF Legal, parse_sep_set_optarg, Invalid
  <2>3. CASE Is("bytes", text)
    <3> DEFINE s == text.bytes
    <3>1. s \in Seq(Byte) /\ ~Is("num", text) /\ ~Is("hundredths", text)
      BY <2>3, TextFields
    <3>2. Meant(o, text) = s
      BY <2>3, <3>1 DEF Meant
    <3>3. Legal(o, text) <=> Slash \in ToSet(s) /\ \A i, j \in DOMAIN s : s[i] = s[j] => i = j
      BY <1>5, <2>3 DEF Legal
    <3>4. parse_sep_set_optarg(text) =
            IF Slash \notin ToSet(s) THEN Invalid
            ELSE IF \E p \in 2..Len(SortBytes(s)) : SortBytes(s)[p] = SortBytes(s)[p - 1]
                 THEN Illegal ELSE Taken(s)
      BY <2>3 DEF parse_sep_set_optarg
    <3>5. (\E p \in 2..Len(SortBytes(s)) : SortBytes(s)[p] = SortBytes(s)[p - 1])
            <=> ~(\A i, j \in DOMAIN s : s[i] = s[j] => i = j)
      BY <3>1, TwiceFound
    <3> HIDE DEF s
    <3>. QED
      BY <2>1, <3>2, <3>3, <3>4, <3>5 DEF Invalid, Illegal, Taken
  <2>. QED
    BY <2>2, <2>3
<1>6. CASE o \in {"r", "s"}
  <2> DEFINE names == IF o = "r" THEN StructNames ELSE SetNames
  <2>1. Parse(o, text) = Lookup(names, text)
    BY <1>6 DEF Parse
  <2>2. Legal(o, text) <=> Is("name", text) /\ \E n \in names : n[1] = text.name
    BY <1>6 DEF Legal
  <2>3. Is("name", text) => Meant(o, text) = Lookup(names, text).value
    <3>1. Is("name", text) => ~Is("num", text) /\ ~Is("hundredths", text) /\ ~Is("bytes", text)
      BY TextFields
    <3>. QED
      BY <3>1 DEF Meant
  <2> HIDE DEF names
  <2>4. Lookup(names, text).error = "none"
          <=> Is("name", text) /\ \E n \in names : n[1] = text.name
    BY DEF Lookup, Taken, Invalid
  <2>. QED
    BY <2>1, <2>2, <2>3, <2>4
<1>. QED
  BY <1>1, <1>2, <1>3, <1>5, <1>6

\* What is taken is taken for what is meant, and --help lets it in; what is
\* refused it does not, but for factors near an end.
LEMMA ArgumentsRight ==
  ASSUME NEW o \in ArgNames, NEW text \in Text, 512 * MB <= SizeMax
  PROVE  /\ Parse(o, text).error = "none" =>
              /\ Parse(o, text).value = Meant(o, text)
              /\ o = "l" => Meant(o, text) \in LoadFactors
              /\ o = "z" => Meant(o, text) \in SizeFactors
              /\ RangeOf(o, text) \in {"edge", "inside"}
         /\ Parse(o, text).error # "none" => RangeOf(o, text) \in {"edge", "outside"}
<1>1. CASE o \in {"z", "l"}
  BY <1>1, FactorsTaken
<1>2. CASE o \notin {"z", "l"}
  <2>1. ~AtEdge(o, text)
    BY <1>2 DEF AtEdge
  <2>2. RangeOf(o, text) = IF Legal(o, text) THEN "inside" ELSE "outside"
    BY <2>1 DEF RangeOf
  <2>. QED
    BY <1>2, <2>2, ArgumentsTaken
<1>. QED
  BY <1>1, <1>2

(***************************************************************************)
(* What was said of the fields                                             *)
(***************************************************************************)
\* Those that speak of the field f.
Says(s, f) == {i \in DOMAIN s : s[i].field = f}
LastOf(s, f) == CHOOSE i \in Says(s, f) : \A j \in Says(s, f) : j <= i

LEMMA LastMeantIs ==
  ASSUME NEW f
  PROVE  LastMeant(f) = IF Says(seen, f) = {} THEN Defaults[f] ELSE seen[LastOf(seen, f)].meant
BY DEF LastMeant, Says, LastOf

LEMMA LastExists ==
  ASSUME NEW s, NEW S, s \in Seq(S), NEW f, Says(s, f) # {}
  PROVE  LastOf(s, f) \in Says(s, f) /\ \A j \in Says(s, f) : j <= LastOf(s, f)
<1> DEFINE n == Len(s)
           D == {d \in 0..n : n - d \in Says(s, f)}
<1>1. n \in Nat /\ Says(s, f) \subseteq 1..n
  BY DEF Says
<1>2. D \in SUBSET Nat /\ D # {}
  <2>1. PICK i \in Says(s, f) : TRUE
    OBVIOUS
  <2>2. n - i \in 0..n /\ n - (n - i) = i
    BY <1>1
  <2>. QED
    BY <1>1, <2>2
<1>3. PICK d \in D : \A x \in D : d <= x
  <2> HIDE DEF D
  <2>. QED
    BY <1>2, LeastElement
<1>4. n - d \in Says(s, f)
  OBVIOUS
<1>5. ASSUME NEW j \in Says(s, f) PROVE j <= n - d
  <2>1. n - j \in 0..n /\ n - (n - j) = j
    BY <1>1
  <2>2. d <= n - j
    BY <1>3, <2>1
  <2>. QED
    BY <1>1, <2>2
<1>. QED
  BY <1>4, <1>5 DEF LastOf

\* What is said last of a field is the last thing said.
LEMMA MeantGrows ==
  ASSUME NEW S, seen \in Seq(S), NEW r, seen' = Append(seen, r)
  PROVE  /\ \E V : seen' \in Seq(V)
         /\ Len(seen') = Len(seen) + 1 /\ DOMAIN seen' = 1..(Len(seen) + 1)
         /\ DOMAIN seen = 1..Len(seen) /\ Len(seen) \in Nat
         /\ seen'[Len(seen) + 1] = r
         /\ \A i \in 1..Len(seen) : seen'[i] = seen[i]
         /\ \A f : LastMeant(f)' = IF r.field = f THEN r.meant ELSE LastMeant(f)
<1> DEFINE n == Len(seen)
           V == S \cup {r}
<1>1. n \in Nat /\ DOMAIN seen = 1..n /\ seen \in Seq(V) /\ r \in V
  <2>1. \A i \in DOMAIN seen : seen[i] \in V
    OBVIOUS
  <2>. QED
    BY <2>1
<1>2. /\ seen' \in Seq(V) /\ Len(seen') = n + 1 /\ DOMAIN seen' = 1..(n + 1)
      /\ seen'[n + 1] = r /\ \A i \in 1..n : seen'[i] = seen[i]
  <2> HIDE DEF V
  <2>. QED
    BY <1>1
<1> HIDE DEF n, V
<1>3. ASSUME NEW f PROVE LastMeant(f)' = IF r.field = f THEN r.meant ELSE LastMeant(f)
  <2>1. LastMeant(f)' = IF Says(seen', f) = {} THEN Defaults[f]
                        ELSE seen'[LastOf(seen', f)].meant
    BY DEF LastMeant, Says, LastOf
  <2>2. CASE r.field = f
    <3>1. n + 1 \in Says(seen', f) /\ \A j \in Says(seen', f) : j \in 1..(n + 1)
      BY <1>1, <1>2, <2>2 DEF Says
    <3>2. /\ LastOf(seen', f) \in Says(seen', f)
          /\ \A j \in Says(seen', f) : j <= LastOf(seen', f)
      BY <1>2, <3>1, LastExists
    <3>3. LastOf(seen', f) = n + 1
      BY <1>1, <3>1, <3>2
    <3>. QED
      BY <1>2, <2>1, <2>2, <3>1, <3>3
  <2>3. CASE r.field # f
    <3>1. Says(seen', f) = Says(seen, f)
      <4>1. \A i \in 1..(n + 1) : i = n + 1 \/ i \in 1..n
        BY <1>1
      <4>2. \A i \in 1..n : i \in 1..(n + 1) /\ i # n + 1
        BY <1>1
      <4>. QED
        BY <1>1, <1>2, <2>3, <4>1, <4>2 DEF Says
    <3>2. LastOf(seen', f) = LastOf(seen, f)
      BY <3>1 DEF LastOf
    <3>3. Says(seen, f) # {} => LastOf(seen, f) \in 1..n
      <4>1. Says(seen, f) # {} => LastOf(seen, f) \in Says(seen, f)
        BY <1>1, LastExists
      <4>. QED
        BY <1>1, <4>1 DEF Says
    <3>. QED
      BY <1>2, <2>1, <2>3, <3>1, <3>2, <3>3, LastMeantIs
  <2>. QED
    BY <2>2, <2>3
<1>. QED
  BY <1>1, <1>2, <1>3 DEF n

\* Inductive: OptionsAsGiven while the options are read, and the factors that
\* are let in.
Denied == said.kind \in {"invalid", "illegal"}

Judged(i) == seen[i].range \in {"edge", IF i = Len(seen) /\ Denied THEN "outside"
                                                              ELSE "inside"}

GivenInv ==
  /\ cur.text \in Text
  /\ \E S : seen \in Seq(S)
  /\ DOMAIN opts = DOMAIN Defaults
  /\ opts.rehash_load \in LoadFactors /\ opts.rehash_size \in SizeFactors
  /\ parsing \in {"scan", "told", "set"} => \A f \in DOMAIN Defaults : opts[f] = LastMeant(f)
  /\ \A i \in DOMAIN seen : Judged(i)
  /\ parsing = "scan" => said.kind = "none"

LEMMA GivenInit == MainInit => GivenInv
<1> SUFFICES ASSUME MainInit PROVE GivenInv
  OBVIOUS
<1>1. /\ opts = Defaults /\ cur.text = NoText /\ seen = << >> /\ said.kind = "none"
  BY DEF MainInit, OptionsInit, ProgramName
<1>2. << >> \in Seq({}) /\ DOMAIN << >> = {}
  OBVIOUS
<1>3. \A f : Says(seen, f) = {}
  BY <1>1, <1>2 DEF Says
<1>4. \A f \in DOMAIN Defaults : opts[f] = LastMeant(f)
  BY <1>1, <1>3, LastMeantIs
<1>5. Defaults.rehash_load = NaN /\ Defaults.rehash_size = NaN
  BY DEF Defaults
<1>. QED
  BY <1>1, <1>2, <1>4, <1>5 DEF GivenInv, Text, LoadFactors, SizeFactors

\* A field is set to what was meant.
LEMMA FieldSet ==
  ASSUME GivenInv, parsing = "scan", parsing' = "scan", said' = said, cur'.text \in Text,
         NEW f \in DOMAIN Defaults, NEW v, opts' = [opts EXCEPT ![f] = v],
         f = "rehash_load" => v \in LoadFactors,
         f = "rehash_size" => v \in SizeFactors,
         NEW r, seen' = Append(seen, r), r.field = f, r.meant = v,
         r.range \in {"edge", "inside"}
  PROVE  GivenInv'
<1>1. PICK S : seen \in Seq(S)
  BY DEF GivenInv
<1>2. /\ \E V : seen' \in Seq(V)
      /\ Len(seen') = Len(seen) + 1 /\ DOMAIN seen' = 1..(Len(seen) + 1)
      /\ DOMAIN seen = 1..Len(seen) /\ Len(seen) \in Nat
      /\ seen'[Len(seen) + 1] = r
      /\ \A i \in 1..Len(seen) : seen'[i] = seen[i]
      /\ \A g : LastMeant(g)' = IF r.field = g THEN r.meant ELSE LastMeant(g)
  BY <1>1, MeantGrows
<1>3. /\ DOMAIN opts = DOMAIN Defaults /\ \A g \in DOMAIN Defaults : opts[g] = LastMeant(g)
      /\ opts.rehash_load \in LoadFactors /\ opts.rehash_size \in SizeFactors
      /\ said.kind = "none" /\ ~Denied
      /\ \A i \in DOMAIN seen : seen[i].range \in {"edge", "inside"}
  BY DEF GivenInv, Denied, Judged
<1>4. DOMAIN opts' = DOMAIN Defaults
  BY <1>3
<1>5. \A g \in DOMAIN Defaults : opts'[g] = IF g = f THEN v ELSE opts[g]
  BY <1>3
<1>6. \A g \in DOMAIN Defaults : opts'[g] = LastMeant(g)'
  BY <1>2, <1>3, <1>5
<1>7. "rehash_load" \in DOMAIN Defaults /\ "rehash_size" \in DOMAIN Defaults
  BY DEF Defaults
<1>8. opts'.rehash_load \in LoadFactors /\ opts'.rehash_size \in SizeFactors
  BY <1>3, <1>5, <1>7
<1>9. ~Denied' /\ said'.kind = "none"
  BY <1>3 DEF Denied
<1>10. \A i \in DOMAIN seen' : seen'[i].range \in {"edge", "inside"}
  <2> TAKE i \in DOMAIN seen'
  <2>1. i = Len(seen) + 1 \/ i \in 1..Len(seen)
    BY <1>2
  <2>2. CASE i = Len(seen) + 1
    BY <1>2, <2>2
  <2>3. CASE i \in 1..Len(seen)
    <3>1. i \in DOMAIN seen /\ seen'[i] = seen[i]
      BY <1>2, <2>3
    <3>. QED
      BY <1>3, <3>1
  <2>. QED
    BY <2>1, <2>2, <2>3
<1>. QED
  BY <1>2, <1>4, <1>6, <1>8, <1>9, <1>10 DEF GivenInv, Judged

\* An argument that is refused is the last thing seen.
LEMMA FieldRefused ==
  ASSUME GivenInv, parsing = "scan", parsing' = "error",
         said'.kind \in {"invalid", "illegal"}, cur'.text \in Text, opts' = opts,
         NEW r, seen' = Append(seen, r), r.range \in {"edge", "outside"}
  PROVE  GivenInv'
<1>1. PICK S : seen \in Seq(S)
  BY DEF GivenInv
<1>2. /\ \E V : seen' \in Seq(V)
      /\ Len(seen') = Len(seen) + 1 /\ DOMAIN seen' = 1..(Len(seen) + 1)
      /\ DOMAIN seen = 1..Len(seen) /\ Len(seen) \in Nat
      /\ seen'[Len(seen) + 1] = r
      /\ \A i \in 1..Len(seen) : seen'[i] = seen[i]
  BY <1>1, MeantGrows
<1>3. /\ DOMAIN opts = DOMAIN Defaults
      /\ opts.rehash_load \in LoadFactors /\ opts.rehash_size \in SizeFactors
      /\ \A i \in DOMAIN seen : seen[i].range \in {"edge", "inside"}
  BY DEF GivenInv, Denied, Judged
<1>4. Denied'
  BY DEF Denied
<1>5. \A i \in DOMAIN seen' :
        seen'[i].range \in {"edge", IF i = Len(seen') THEN "outside" ELSE "inside"}
  <2> TAKE i \in DOMAIN seen'
  <2>1. CASE i = Len(seen) + 1
    BY <1>2, <1>4, <2>1
  <2>2. CASE i \in 1..Len(seen)
    <3>1. i \in DOMAIN seen /\ seen'[i] = seen[i] /\ i # Len(seen')
      BY <1>2, <2>2
    <3>. QED
      BY <1>3, <3>1
  <2>. QED
    BY <1>2, <2>1, <2>2
<1>. QED
  BY <1>2, <1>3, <1>4, <1>5 DEF GivenInv, Judged

\* Nothing but the message may change without a word of it in 'seen'.
LEMMA NothingSeen ==
  ASSUME GivenInv, UNCHANGED <<opts, seen>>, cur'.text \in Text,
         said' = said \/ (parsing = "scan" /\ ~Denied'),
         \/ parsing' = "scan" /\ parsing = "scan" /\ said' = said
         \/ parsing' \in {"told", "set"} /\ parsing \in {"scan", parsing'}
         \/ parsing' \notin {"scan", "told", "set"}
  PROVE  GivenInv'
<1>1. \A f : LastMeant(f)' = LastMeant(f)
  BY DEF LastMeant
<1>2. (~Denied' /\ ~Denied) \/ (Denied' <=> Denied)
  BY DEF Denied, GivenInv
<1>3. ASSUME NEW i \in DOMAIN seen, Judged(i) PROVE Judged(i)'
  BY <1>2, <1>3 DEF Judged
<1>. QED
  BY <1>1, <1>3 DEF GivenInv

LEMMA ScanKeepsGiven ==
  ASSUME GivenInv, Scan, 512 * MB <= SizeMax
  PROVE  GivenInv'
<1>1. ASSUME NEW a \in Argv, NextElement(a) PROVE GivenInv'
  <2>1. cur'.text \in Text
    BY <1>1, ArgvAssumption DEF NextElement
  <2>. QED
    BY <1>1, <2>1, NothingSeen DEF NextElement
<1>2. ASSUME NEW o, TakeFlag(o) PROVE GivenInv'
  <2> DEFINE f == Flag(o)[2]
             v == Flag(o)[3]
             r == [field |-> f, meant |-> v, range |-> "inside"]
  <2>1. /\ o \in FlagNames /\ opts' = [opts EXCEPT ![f] = v] /\ seen' = Append(seen, r)
        /\ parsing = "scan" /\ parsing' = "scan" /\ said' = said /\ cur' = cur
    BY <1>2 DEF TakeFlag, At
  <2>2. f \in DOMAIN Defaults /\ f # "rehash_load" /\ f # "rehash_size"
    BY <2>1, FlagsTyped
  <2>3. r.field = f /\ r.meant = v /\ r.range \in {"edge", "inside"}
    OBVIOUS
  <2>4. cur'.text \in Text
    BY <2>1 DEF GivenInv
  <2> HIDE DEF f, v, r
  <2>. QED
    BY <2>1, <2>2, <2>3, <2>4, FieldSet
<1>3. ASSUME NEW o, TakeBit(o) \/ AskUsage(o) PROVE GivenInv'
  <2>1. UNCHANGED <<opts, seen, cur, said, parsing>> /\ parsing = "scan"
    BY <1>3 DEF TakeBit, AskUsage, At
  <2>2. cur'.text \in Text
    BY <2>1 DEF GivenInv
  <2>. QED
    BY <2>1, <2>2, NothingSeen
<1>4. ASSUME NEW o, MissingArg(o) \/ UnknownLong(o) \/ Refuse(o) PROVE GivenInv'
  <2>1. /\ UNCHANGED <<opts, seen, cur>> /\ parsing = "scan" /\ parsing' = "error"
        /\ said'.kind \in {"missing", "unknown", "not_allowed"}
    BY <1>4 DEF MissingArg, UnknownLong, Refuse, Fail, At
  <2>2. cur'.text \in Text /\ ~Denied'
    BY <2>1 DEF GivenInv, Denied
  <2>. QED
    BY <2>1, <2>2, NothingSeen
<1>5. ASSUME NEW o \in ArgNames, NEW text \in Text, Argument(o, text), At(o),
             cur'.text \in Text
      PROVE  GivenInv'
  <2> DEFINE v == Parse(o, text)
             f == FieldOf[o]
  <2>1. /\ v.error = "none" =>
              /\ v.value = Meant(o, text)
              /\ o = "l" => Meant(o, text) \in LoadFactors
              /\ o = "z" => Meant(o, text) \in SizeFactors
              /\ RangeOf(o, text) \in {"edge", "inside"}
        /\ v.error # "none" => RangeOf(o, text) \in {"edge", "outside"}
    BY <1>5, ArgumentsRight
  <2>2. parsing = "scan"
    BY <1>5 DEF At
  <2>3. CASE v.error = "none"
    <3> DEFINE r == [field |-> f, meant |-> Meant(o, text), range |-> RangeOf(o, text)]
    <3>1. /\ opts' = [opts EXCEPT ![f] = v.value] /\ seen' = Append(seen, r)
          /\ said' = said /\ parsing' = parsing
      BY <1>5, <2>3 DEF Argument
    <3>2. r.field = f /\ r.meant = v.value /\ r.range \in {"edge", "inside"}
      BY <2>1, <2>3
    <3>3. f \in DOMAIN Defaults
      BY DEF ArgNames, FieldOf, Defaults
    <3>4. f = "rehash_load" => v.value \in LoadFactors
      <4>1. f = "rehash_load" => o = "l"
        BY DEF ArgNames, FieldOf
      <4>. QED
        BY <2>1, <2>3, <4>1
    <3>5. f = "rehash_size" => v.value \in SizeFactors
      <4>1. f = "rehash_size" => o = "z"
        BY DEF ArgNames, FieldOf
      <4>. QED
        BY <2>1, <2>3, <4>1
    <3> HIDE DEF f, v, r
    <3>. QED
      BY <1>5, <2>2, <3>1, <3>2, <3>3, <3>4, <3>5, FieldSet
  <2>4. CASE v.error # "none"
    <3> DEFINE r == [field |-> f, range |-> RangeOf(o, text)]
    <3>1. /\ parsing' = "error" /\ said'.kind = v.error /\ seen' = Append(seen, r)
          /\ opts' = opts
      BY <1>5, <2>4 DEF Argument
    <3>2. said'.kind \in {"invalid", "illegal"}
      BY <2>4, <3>1, ParseErrors
    <3>3. r.range \in {"edge", "outside"}
      BY <2>1, <2>4
    <3> HIDE DEF f, v, r
    <3>. QED
      BY <1>5, <2>2, <3>1, <3>2, <3>3, FieldRefused
  <2>. QED
    BY <2>3, <2>4
<1>6. ASSUME NEW o, TakeArgHere(o) PROVE GivenInv'
  <2>1. /\ At(o) /\ o \in ArgNames /\ Argument(o, cur.text)
        /\ cur.text \in Text /\ cur'.text \in Text
    BY <1>6 DEF TakeArgHere, GivenInv
  <2>. QED
    BY <1>5, <2>1
<1>7. ASSUME NEW o, NEW a \in Argv, TakeArgNext(o, a) PROVE GivenInv'
  <2> DEFINE text == IF a.options = << >> THEN a.text ELSE Other
  <2>1. /\ At(o) /\ o \in ArgNames /\ Argument(o, text) /\ cur' = a
    BY <1>7 DEF TakeArgNext
  <2>2. a.text \in Text /\ text \in Text
    BY ArgvAssumption DEF Text
  <2> HIDE DEF text
  <2>. QED
    BY <1>5, <2>1, <2>2
<1>. QED
  BY <1>1, <1>2, <1>3, <1>4, <1>6, <1>7 DEF Scan

LEMMA GivenStep ==
  ASSUME GivenInv, [MainNext]_allVars, 512 * MB <= SizeMax
  PROVE  GivenInv'
<1>1. CASE ParseOptions
  BY <1>1, ScanKeepsGiven DEF ParseOptions
<1>2. CASE OptionsDone
  <2>1. /\ UNCHANGED <<opts, seen, said>> /\ cur' = NoElement /\ parsing = "scan"
        /\ parsing' \in {"told", "set"}
    BY <1>2 DEF OptionsDone, EndOfOptions
  <2>2. cur'.text \in Text
    BY <2>1 DEF NoElement, ProgramName, Text
  <2>. QED
    BY <2>1, <2>2, NothingSeen
<1>3. CASE CreateSet
  <2>1. /\ seen' = << >> /\ parsing' = "done" /\ UNCHANGED <<opts, cur, said>>
    BY <1>3 DEF CreateSet
  <2>2. << >> \in Seq({}) /\ DOMAIN << >> = {}
    OBVIOUS
  <2>. QED
    BY <2>1, <2>2 DEF GivenInv
<1>4. CASE UNCHANGED optionsVars
  <2>1. /\ UNCHANGED <<opts, seen, cur, said, parsing>>
    BY <1>4 DEF optionsVars, scanning
  <2>2. cur'.text \in Text
    BY <2>1 DEF GivenInv
  <2>. QED
    BY <2>1, <2>2, NothingSeen
<1>5. CASE OptionsFail \/ PrintOnly \/ Load \/ Act
  BY <1>4, <1>5 DEF OptionsFail, PrintOnly, Load, LoadLine, LoadEnd, LoadFails,
                    Act, Nop, PrintLines, PrintStops, PrintWarns, PrintElems
<1>6. CASE Separate \/ PrintStats \/ Destroy \/ Exited \/ UNCHANGED allVars
  BY <1>4, <1>6 DEF Separate, PrintStats, Destroy, Exited, allVars
<1>. QED
  BY <1>1, <1>2, <1>3, <1>5, <1>6 DEF MainNext

\* The factors that are let in are those the tables accept.
LEMMA FactorsAccepted ==
  ASSUME opts.rehash_load \in LoadFactors, opts.rehash_size \in SizeFactors
  PROVE  check_tuning(GhashTuning(opts))
<1> DEFINE t == GhashTuning(opts)
           load == t.growth_threshold
           size == t.growth_factor
<1>1. t.shrink_threshold = <<0, 1>> /\ t.shrink_factor = <<1, 1>>
  BY DEF GhashTuning
<1>2. load = IF opts.rehash_load = NaN THEN <<8, 10>> ELSE <<opts.rehash_load, 100>>
  BY DEF GhashTuning, Hundredths
<1>3. size = IF opts.rehash_size = NaN THEN <<1414, 1000>> ELSE <<opts.rehash_size, 100>>
  BY DEF GhashTuning, Hundredths
<1>4. \/ load = <<8, 10>> \/ \E n \in 11..89 : load = <<n, 100>>
  BY <1>2 DEF LoadFactors
<1>5. \/ size = <<1414, 1000>> \/ \E n \in 111..389 : size = <<n, 100>>
  BY <1>3 DEF SizeFactors
<1> HIDE DEF load, size
<1>6. Less(<<1, 10>>, load) /\ Less(load, <<9, 10>>)
  BY <1>4 DEF Less
<1>7. Less(<<11, 10>>, size)
  BY <1>5 DEF Less
<1>8. PlusTenth(<<0, 1>>) = <<1, 10>>
  BY DEF PlusTenth
<1>9. Less(<<1, 10>>, <<1, 1>>) /\ ~Less(<<1, 1>>, <<1, 1>>)
  BY DEF Less
<1>. QED
  BY <1>1, <1>6, <1>7, <1>8, <1>9 DEF check_tuning, load, size

(***************************************************************************)
(* The options are as given, for every command line: any number of         *)
(* elements, any numbers in them and any tail, on a machine whose SIZE_MAX *)
(* is no less than the largest size that may be given.  The product that   *)
(* makes a size of a number and its unit is computed modulo SIZE_MAX + 1;  *)
(* that it is what is meant, or refused, is the lemma SizesTaken.          *)
(***************************************************************************)
THEOREM OptionsAlwaysAsGiven ==
  ASSUME 512 * MB <= SizeMax
  PROVE  MainSpec => []OptionsAsGiven
<1>1. GivenInv /\ [MainNext]_allVars => GivenInv'
  BY GivenStep
<1>2. GivenInv => OptionsAsGiven
  BY FactorsAccepted DEF GivenInv, OptionsAsGiven, Refused, Denied, Judged
<1>. QED
  BY GivenInit, <1>1, <1>2, PTL DEF MainSpec
=============================================================================
