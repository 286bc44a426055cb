---------------------------- MODULE LHashProofs -----------------------------
(***************************************************************************)
(* Proofs about LHash, for every set of strings, hash function, initial    *)
(* size and pair of factors the options parser admits.                     *)
(***************************************************************************)
EXTENDS LHashInv, NumberLemmas, FiniteSetTheorems

-----------------------------------------------------------------------------
(***************************************************************************)
(* The sizes.                                                              *)
(***************************************************************************)
LEMMA NextOddIsOdd ==
  ASSUME NEW n \in Nat
  PROVE  NextOdd(n) \in Nat /\ NextOdd(n) >= n /\ NextOdd(n) % 2 = 1
BY SMT DEF NextOdd

\* There is always an accepted number: N is one, or n is past it already.
LEMMA CandidatesNonempty ==
  ASSUME NEW n \in Nat
  PROVE  Candidates(n) # {}
<1>1. CASE NextOdd(n) >= PrimeLimit
  <2>1. NextOdd(n) \in Candidates(n)
    BY <1>1, NextOddIsOdd, PrimeLimitAssumption DEF Candidates, Accepted
  <2>. QED
    BY <2>1
<1>2. CASE NextOdd(n) < PrimeLimit
  <2>1. PrimeLimit \in Candidates(n)
    BY <1>2, NextOddIsOdd, PrimeLimitAssumption DEF Candidates, Accepted
  <2>. QED
    BY <2>1
<1>. QED
  BY <1>1, <1>2, NextOddIsOdd, PrimeLimitAssumption

(***************************************************************************)
(* lhash_next_prime returns an odd number at least as large as its         *)
(* argument, and one where its loop may stop, for every argument: the      *)
(* search always ends, at N at the latest.                                 *)
(***************************************************************************)
THEOREM NextPrimeBound ==
  ASSUME NEW n \in Nat
  PROVE  /\ NextPrime(n) \in Nat /\ NextPrime(n) >= n
         /\ NextPrime(n) % 2 = 1 /\ Accepted(NextPrime(n))
<1>1. Candidates(n) \in SUBSET Nat
  BY NextOddIsOdd, PrimeLimitAssumption DEF Candidates
<1>2. PICK m \in Candidates(n) : \A k \in Candidates(n) : m <= k
  BY <1>1, CandidatesNonempty, LeastElement
<1>3. \A k \in NextOdd(n)..(m - 1) : k % 2 = 1 => ~Accepted(k)
  BY <1>1, <1>2, NextOddIsOdd, PrimeLimitAssumption DEF Candidates
<1>4. NextPrime(n) \in Candidates(n)
  BY <1>2, <1>3 DEF NextPrime
<1>. QED
  BY <1>4, NextOddIsOdd, PrimeLimitAssumption DEF Candidates

-----------------------------------------------------------------------------
(***************************************************************************)
(* Arithmetic.                                                             *)
(***************************************************************************)
LEMMA ModRange ==
  ASSUME NEW x \in Nat, NEW n \in Nat \ {0}
  PROVE  x % n \in Slots(n)
BY SMT DEF Slots

LEMMA DivType ==
  ASSUME NEW x \in Nat, NEW n \in Nat \ {0}
  PROVE  /\ x \div n \in Nat
         /\ (x \div n) * n <= x
         /\ x < (x \div n) * n + n
BY SMT

LEMMA ProductType ==
  ASSUME NEW x \in Nat, NEW y \in Nat
  PROVE  x * y \in Nat
BY SMT

LEMMA PrevRange ==
  ASSUME NEW n \in Nat \ {0}, NEW i \in Slots(n)
  PROVE  Prev(i, n) \in Slots(n)
BY DEF Prev, Slots

LEMMA InitSizeBound == InitSize \in Nat /\ InitSize >= 32
BY NextPrimeBound, SizeAssumption DEF InitSize

LEMMA GrownSizeType ==
  ASSUME NEW n \in Nat
  PROVE  GrownSize(n) \in Nat
BY NextPrimeBound, DivType, ProductType, FactorsAssumption DEF GrownSize

(***************************************************************************)
(* VERIFY(s > 0 && s < hash->size) of LHASH_INSERT and VERIFY(s > size) of *)
(* LHASH_REHASH cannot fail: whatever factors were accepted, 32 slots are  *)
(* enough for the limit to be positive and for the grown table to be       *)
(* larger.                                                                 *)
(***************************************************************************)
LEMMA LoadLimitUsable ==
  ASSUME NEW n \in Nat, n >= 32
  PROVE  LoadLimit(n) \in Nat /\ LoadLimit(n) > 0 /\ LoadLimit(n) < n
<1> DEFINE l == LoadLimit(n)
<1>1. /\ l \in Nat
      /\ l * LoadDen <= n * LoadNum
      /\ n * LoadNum < l * LoadDen + LoadDen
  BY DivType, ProductType, FactorsAssumption DEF LoadLimit
<1>2. LoadNum \in Nat /\ LoadDen \in Nat /\ LoadDen > 0
  BY FactorsAssumption
<1>3. 100 * (n * LoadNum) >= n * (11 * LoadDen)
  BY <1>2, FactorsAssumption, SMT
<1>4. n * (11 * LoadDen) >= 352 * LoadDen
  BY <1>2, SMT
<1>5. 100 * (n * LoadNum) < n * (100 * LoadDen)
  BY <1>2, FactorsAssumption, SMT
<1>6. l # 0
  <2> SUFFICES ASSUME l = 0 PROVE FALSE
    OBVIOUS
  <2>1. n * LoadNum < LoadDen
    BY <1>1, <1>2, ProductType, SMT
  <2>. QED
    BY <2>1, <1>2, <1>3, <1>4, ProductType, SMT
<1>7. l < n
  <2> SUFFICES ASSUME l >= n PROVE FALSE
    BY <1>1
  <2>1. l * LoadDen >= n * LoadDen
    BY <1>1, <1>2, SMT
  <2>. QED
    BY <2>1, <1>1, <1>2, <1>5, SMT
<1>. QED
  BY <1>1, <1>6, <1>7

LEMMA GrownSizeLarger ==
  ASSUME NEW n \in Nat, n >= 32
  PROVE  GrownSize(n) > n
<1> DEFINE g == (n * GrowNum) \div GrowDen
<1>1. /\ g \in Nat
      /\ n * GrowNum < g * GrowDen + GrowDen
  BY DivType, ProductType, FactorsAssumption
<1>2. GrowNum \in Nat /\ GrowDen \in Nat /\ GrowDen > 0
  BY FactorsAssumption
<1>3. 100 * (n * GrowNum) >= n * (111 * GrowDen)
  BY <1>2, FactorsAssumption, SMT
<1>4. n * (11 * GrowDen) >= 352 * GrowDen
  BY <1>2, SMT
<1>5. g > n
  <2> SUFFICES ASSUME g <= n PROVE FALSE
    BY <1>1
  <2>1. g * GrowDen <= n * GrowDen
    BY <1>1, <1>2, SMT
  <2>2. n * (111 * GrowDen) = 100 * (n * GrowDen) + n * (11 * GrowDen)
    BY <1>2, SMT
  <2>. QED
    BY <2>1, <2>2, <1>1, <1>2, <1>3, <1>4, SMT
<1>6. GrownSize(n) >= g /\ GrownSize(n) \in Nat
  BY <1>1, NextPrimeBound DEF GrownSize
<1>. QED
  BY <1>1, <1>5, <1>6
-----------------------------------------------------------------------------
(***************************************************************************)
(* Nodes: the node of a key has the key's string, length and home, also    *)
(* when the length does not fit the byte it is stored in.                  *)
(***************************************************************************)
LEMMA NewNodeFacts ==
  ASSUME NEW k \in Keys
  PROVE  /\ NewNode(k) \in Node
         /\ NewNode(k) # Null
         /\ NewNode(k).str = k
         /\ KeyLength(NewNode(k)) = StrLen[k]
<1>1. NewNode(k) \in Node
  BY KeysAssumption DEF NewNode, Node
<1>2. NewNode(k) # Null
  BY <1>1, NullAssumption
<1>3. StrLen[k] \in Nat
  BY KeysAssumption
<1>. QED
  BY <1>1, <1>2, <1>3 DEF NewNode, KeyLength

LEMMA KeyHomeRange ==
  ASSUME NEW k \in Keys, NEW n \in Nat \ {0}
  PROVE  KeyHome(k, n) \in Slots(n)
BY ModRange, KeysAssumption DEF KeyHome

LEMMA NodeFacts ==
  ASSUME NEW d \in Nodes
  PROVE  /\ d \in Node
         /\ d # Null
         /\ d.str \in Keys
         /\ d = NewNode(d.str)
         /\ \A k \in Keys : Equal(d, k) <=> d.str = k
         /\ \A n \in Nat \ {0} : /\ NodeHome(d, n) = KeyHome(d.str, n)
                                 /\ NodeHome(d, n) \in Slots(n)
<1>1. PICK k \in Keys : d = NewNode(k)
  BY DEF Nodes
<1>2. d.str = k /\ KeyLength(d) = StrLen[k] /\ d \in Node /\ d # Null
  BY <1>1, NewNodeFacts
<1>3. \A n \in Nat \ {0} : NodeHome(d, n) = KeyHome(d.str, n)
  BY <1>2 DEF NodeHome, KeyHome
<1>4. \A j \in Keys : Equal(d, j) <=> d.str = j
  BY <1>2 DEF Equal
<1>. QED
  BY <1>1, <1>2, <1>3, <1>4, KeyHomeRange
-----------------------------------------------------------------------------
(***************************************************************************)
(* The slots a probe passes.                                               *)
(***************************************************************************)
LEMMA PassedHome ==
  ASSUME NEW n \in Nat \ {0}, NEW h \in Slots(n)
  PROVE  Passed(h, h, n) = {}
BY DEF Passed, Slots

LEMMA PassedSlots ==
  ASSUME NEW n \in Nat \ {0}, NEW h \in Slots(n), NEW i \in Slots(n),
         NEW j \in Passed(h, i, n)
  PROVE  j \in Slots(n) /\ j # i
BY DEF Passed, Slots

LEMMA PassedPrev ==
  ASSUME NEW n \in Nat \ {0}, NEW h \in Slots(n), NEW i \in Slots(n),
         NEW j \in Passed(h, Prev(i, n), n)
  PROVE  j = i \/ j \in Passed(h, i, n)
BY DEF Passed, Slots, Prev

\* Of two slots, every probe passes one on its way to the other.
LEMMA PassedTotal ==
  ASSUME NEW n \in Nat \ {0}, NEW h \in Slots(n), NEW i \in Slots(n),
         NEW j \in Slots(n), i # j
  PROVE  i \in Passed(h, j, n) \/ j \in Passed(h, i, n)
BY DEF Passed, Slots

\* A node stored where its probe found the first empty slot leaves no hole.
LEMMA StoreKeepsNoHoles ==
  ASSUME NEW n \in Nat \ {0}, NEW T \in [Slots(n) -> Nodes \cup {Null}],
         NoHoles(T, n), NEW d \in Nodes, NEW i \in Slots(n), T[i] = Null,
         \A j \in Passed(NodeHome(d, n), i, n) : T[j] # Null
  PROVE  NoHoles([T EXCEPT ![i] = d], n)
<1> DEFINE U == [T EXCEPT ![i] = d]
<1> SUFFICES ASSUME NEW k \in Slots(n), U[k] # Null,
                    NEW j \in Passed(NodeHome(U[k], n), k, n)
             PROVE  U[j] # Null
  BY DEF NoHoles
<1>1. d # Null /\ NodeHome(d, n) \in Slots(n)
  BY NodeFacts
<1>2. CASE k = i
  <2>1. U[k] = d
    BY <1>2
  <2>2. T[j] # Null /\ j \in Slots(n) /\ j # i
    BY <1>1, <1>2, <2>1, PassedSlots
  <2>. QED
    BY <2>2
<1>3. CASE k # i
  <2>1. U[k] = T[k] /\ T[k] \in Nodes
    BY <1>3
  <2>2. NodeHome(T[k], n) \in Slots(n)
    BY <2>1, NodeFacts
  <2>3. T[j] # Null /\ j \in Slots(n)
    BY <2>1, <2>2, PassedSlots DEF NoHoles
  <2>. QED
    BY <2>3, <1>1
<1>. QED
  BY <1>2, <1>3
-----------------------------------------------------------------------------
(***************************************************************************)
(* The initial state.                                                      *)
(***************************************************************************)
LEMMA InitIInv == Init => IInv
<1> SUFFICES ASSUME Init PROVE IInv
  OBVIOUS
<1> USE DEF Init
<1>1. size \in Nat /\ size >= 32
  BY InitSizeBound
<1>2. \A i \in Slots(size) : table[i] = Null
  BY DEF Slots
<1>3. TypeOK
  <2>1. stats \in [Counters -> Nat]
    OBVIOUS
  <2>2. table \in [Slots(size) -> Node \cup {Null}]
    BY DEF Slots
  <2>3. t \in [Slots(s) -> Node \cup {Null}]
    BY DEF Slots, NoTable
  <2>4. ret \in [found : BOOLEAN, node : Keys \cup {NoKey}]
    BY DEF NoResult
  <2>. QED
    BY <1>1, <2>1, <2>2, <2>3, <2>4 DEF TypeOK, Control, InCall, Slots
<1>4. WellFormed
  BY DEF WellFormed, Slots, NoTable
<1>5. Reachable
  BY <1>2 DEF Reachable, NoHoles, Slots
<1>6. OneNodePerKey
  BY <1>2 DEF OneNodePerKey
<1>7. ProbeInv /\ AbsentInv /\ CopyInv
  BY DEF ProbeInv, AbsentInv, CopyInv
<1>8. CountInv
  <2>1. Stored = {}
    BY <1>2 DEF Stored, Occupied
  <2>. QED
    BY <2>1, <1>1, FS_EmptySet DEF CountInv
<1>. QED
  BY <1>3, <1>4, <1>5, <1>6, <1>7, <1>8 DEF IInv
-----------------------------------------------------------------------------
(***************************************************************************)
(* Type correctness.                                                       *)
(***************************************************************************)
LEMMA StepTypeOK == IInv /\ [Next]_vars => TypeOK'
<1> SUFFICES ASSUME IInv, [Next]_vars PROVE TypeOK'
  OBVIOUS
<1> USE DEF TypeOK, Control, InCall
<1>0. TypeOK /\ WellFormed /\ CopyInv
  BY DEF IInv
<1>1. ASSUME NEW k \in Keys, CallInsert(k) PROVE TypeOK'
  BY <1>0, <1>1, KeyHomeRange DEF CallInsert, Call, NoResult, rehashVars
<1>2. ASSUME NEW k \in Keys, CallLookup(k) PROVE TypeOK'
  BY <1>0, <1>2, KeyHomeRange DEF CallLookup, Call, NoResult, rehashVars
<1>3. ASSUME ProbeEqual PROVE TypeOK'
  <2>1. table[p].str \in Keys
    BY <1>0, <1>3, NodeFacts DEF WellFormed, ProbeEqual
  <2>2. stats' \in [Counters -> Nat]
    BY <1>0, <1>3 DEF ProbeEqual, Counters
  <2>3. ret' \in [found : BOOLEAN, node : Keys \cup {NoKey}]
    BY <1>3, <2>1 DEF ProbeEqual, Return
  <2>4. pc' = "idle" /\ key' = NoKey /\ p' = 0
    BY <1>3 DEF ProbeEqual, Return
  <2>5. UNCHANGED <<table, size, used, t, s, e, q>>
    BY <1>3 DEF ProbeEqual, rehashVars
  <2>. QED
    BY <1>0, <2>2, <2>3, <2>4, <2>5 DEF Slots
<1>4. ASSUME ProbeNext PROVE TypeOK'
  <2>1. stats' \in [Counters -> Nat]
    BY <1>0, <1>4 DEF ProbeNext, Count, Counters
  <2>. QED
    BY <1>0, <1>4, <2>1, PrevRange DEF ProbeNext, rehashVars
<1>5. ASSUME ProbeEmpty PROVE TypeOK'
  BY <1>0, <1>5 DEF ProbeEmpty, rehashVars
<1>6. ASSUME Reprobe PROVE TypeOK'
  <2>1. stats' \in [Counters -> Nat]
    BY <1>0, <1>6 DEF Reprobe, Count, Counters
  <2>2. p' \in Slots(size)
    BY <1>0, <1>6, PrevRange DEF Reprobe
  <2>. QED
    BY <1>0, <1>6, <2>1, <2>2 DEF Reprobe, rehashVars
<1>7. ASSUME Place PROVE TypeOK'
  <2>1. stats' \in [Counters -> Nat]
    BY <1>0, <1>7 DEF Place, Count, Counters
  <2>2. table' \in [Slots(size) -> Node \cup {Null}]
    BY <1>0, <1>7, NewNodeFacts DEF Place
  <2>. QED
    BY <1>0, <1>7, <2>1, <2>2 DEF Place, Return, rehashVars, Slots
<1>8. ASSUME Grow PROVE TypeOK'
  <2>1. GrownSize(size) \in Nat
    BY <1>0, GrownSizeType
  <2>. QED
    BY <1>0, <1>8, <2>1 DEF Grow, Slots
<1>9. ASSUME GrowFails \/ PlaceFails PROVE TypeOK'
  BY <1>0, <1>9 DEF GrowFails, PlaceFails, rehashVars
<1>10. ASSUME CopySkip PROVE TypeOK'
  BY <1>0, <1>10 DEF CopySkip
<1>11. ASSUME CopyStart PROVE TypeOK'
  <2>1. table[e] \in Nodes
    BY <1>0, <1>11 DEF WellFormed, CopyStart, Slots
  <2>2. s \in Nat \ {0}
    BY <1>0, <1>11 DEF CopyInv, CopyStart
  <2>. QED
    BY <1>0, <1>11, <2>1, <2>2, NodeFacts DEF CopyStart, Slots
<1>12. ASSUME CopyNext PROVE TypeOK'
  <2>1. stats' \in [Counters -> Nat]
    BY <1>0, <1>12 DEF CopyNext, Count, Counters
  <2>2. s \in Nat \ {0}
    BY <1>0, <1>12 DEF CopyInv, CopyNext
  <2>. QED
    BY <1>0, <1>12, <2>1, <2>2, PrevRange DEF CopyNext, Slots
<1>13. ASSUME CopyPlace PROVE TypeOK'
  <2>1. table[e] \in Node \cup {Null}
    BY <1>0, <1>13 DEF CopyPlace, Slots
  <2>. QED
    BY <1>0, <1>13, <2>1 DEF CopyPlace
<1>14. ASSUME CopyDone PROVE TypeOK'
  <2>1. stats' \in [Counters -> Nat]
    BY <1>0, <1>14 DEF CopyDone, Count, Counters
  <2>2. s \in Nat \ {0}
    BY <1>0, <1>14 DEF CopyInv, CopyDone
  <2>. QED
    BY <1>0, <1>14, <2>1, <2>2, KeyHomeRange DEF CopyDone, Slots, NoTable
<1>15. ASSUME Lookup PROVE TypeOK'
  <2>1. CASE LookupEqual
    <3>1. table[p].str \in Keys
      BY <1>0, <2>1, NodeFacts DEF WellFormed, LookupEqual
    <3>. QED
      BY <1>0, <2>1, <3>1 DEF LookupEqual, Return, rehashVars, Slots
  <2>2. CASE LookupNext
    BY <1>0, <2>2, PrevRange DEF LookupNext, rehashVars
  <2>3. CASE LookupEmpty
    BY <1>0, <2>3 DEF LookupEmpty, Return, rehashVars, Slots
  <2>. QED
    BY <1>15, <2>1, <2>2, <2>3 DEF Lookup
<1>16. ASSUME Done PROVE TypeOK'
  BY <1>0, <1>16 DEF Done, rehashVars
<1>17. ASSUME UNCHANGED vars PROVE TypeOK'
  BY <1>0, <1>17 DEF vars
<1>. QED
  BY <1>1, <1>2, <1>3, <1>4, <1>5, <1>6, <1>7, <1>8, <1>9, <1>10, <1>11,
     <1>12, <1>13, <1>14, <1>15, <1>16, <1>17
  DEF Next, Step, Insert, Rehash, Stopped
-----------------------------------------------------------------------------
(***************************************************************************)
(* The steps that touch a table.                                           *)
(***************************************************************************)
LEMMA TableSteps ==
  ASSUME [Next]_vars
  PROVE  Place \/ Grow \/ CopyPlace \/ CopyDone
           \/ UNCHANGED <<table, size, t, s>>
BY DEF Next, vars, rehashVars, CallInsert, CallLookup, Call, Step, Insert,
       ProbeEqual, ProbeNext, ProbeEmpty, Reprobe, Rehash, CopySkip, CopyStart,
       CopyNext, Lookup, LookupEqual, LookupNext, LookupEmpty, GrowFails, PlaceFails, Done,
       Stopped

LEMMA StepWellFormed == IInv /\ [Next]_vars => WellFormed'
<1> SUFFICES ASSUME IInv, [Next]_vars PROVE WellFormed'
  OBVIOUS
<1>0. TypeOK /\ WellFormed
  BY DEF IInv
<1>1. CASE Place
  <2>1. NewNode(key) \in Nodes
    BY <1>0, <1>1 DEF TypeOK, InCall, Place, Nodes
  <2>. QED
    BY <1>0, <1>1, <2>1 DEF WellFormed, Place, rehashVars
<1>2. CASE Grow
  <2>1. t' \in [Slots(s') -> Nodes \cup {Null}]
    BY <1>0, <1>2 DEF WellFormed, Grow, Slots
  <2>. QED
    BY <1>0, <1>2, <2>1 DEF WellFormed, Grow
<1>3. CASE CopyPlace
  <2>1. table[e] \in Nodes
    BY <1>0, <1>3 DEF WellFormed, TypeOK, CopyPlace, Slots
  <2>. QED
    BY <1>0, <1>3, <2>1 DEF WellFormed, CopyPlace
<1>4. CASE CopyDone
  <2>1. t' \in [Slots(s') -> Nodes \cup {Null}]
    BY <1>4 DEF CopyDone, NoTable, Slots
  <2>. QED
    BY <1>0, <1>4, <2>1 DEF WellFormed, CopyDone
<1>5. CASE UNCHANGED <<table, size, t, s>>
  BY <1>0, <1>5 DEF WellFormed
<1>. QED
  BY <1>1, <1>2, <1>3, <1>4, <1>5, TableSteps

LEMMA StepReachable == IInv /\ [Next]_vars => Reachable'
<1> SUFFICES ASSUME IInv, [Next]_vars PROVE Reachable'
  OBVIOUS
<1>0. TypeOK /\ WellFormed /\ Reachable /\ ProbeInv /\ CopyInv
  BY DEF IInv
<1>1. CASE Place
  <2>1. NewNode(key) \in Nodes /\ key \in Keys
    BY <1>0, <1>1 DEF TypeOK, InCall, Place, Nodes
  <2>2. NodeHome(NewNode(key), size) = KeyHome(key, size)
    BY <1>0, <2>1, NodeFacts, NewNodeFacts DEF TypeOK
  <2>3. NoHoles([table EXCEPT ![p] = NewNode(key)], size)
    BY <1>0, <1>1, <2>1, <2>2, StoreKeepsNoHoles
    DEF TypeOK, WellFormed, Reachable, ProbeInv, Place
  <2>. QED
    BY <1>0, <1>1, <2>3 DEF Reachable, Place, rehashVars
<1>2. CASE Grow
  <2>1. NoHoles(t', s')
    BY <1>0, <1>2 DEF Reachable, Grow, NoHoles, Slots
  <2>. QED
    BY <1>0, <1>2, <2>1 DEF Reachable, Grow
<1>3. CASE CopyPlace
  <2>1. table[e] \in Nodes
    BY <1>0, <1>3 DEF WellFormed, TypeOK, CopyPlace, Slots
  <2>2. s \in Nat \ {0} /\ q \in Slots(s)
    BY <1>0, <1>3 DEF TypeOK, CopyInv, CopyPlace
  <2>3. \A j \in Passed(NodeHome(table[e], s), q, s) : t[j] # Null
    BY <1>0, <1>3 DEF CopyInv, CopyPlace
  <2>4. t \in [Slots(s) -> Nodes \cup {Null}] /\ NoHoles(t, s) /\ t[q] = Null
    BY <1>0, <1>3 DEF WellFormed, Reachable, CopyPlace
  <2>5. NoHoles([t EXCEPT ![q] = table[e]], s)
    BY <2>1, <2>2, <2>3, <2>4, StoreKeepsNoHoles
  <2>. QED
    BY <1>0, <1>3, <2>5 DEF Reachable, CopyPlace
<1>4. CASE CopyDone
  <2>1. NoHoles(t', s')
    BY <1>4 DEF CopyDone, NoHoles, Slots
  <2>. QED
    BY <1>0, <1>4, <2>1 DEF Reachable, CopyDone
<1>5. CASE UNCHANGED <<table, size, t, s>>
  BY <1>0, <1>5 DEF Reachable
<1>. QED
  BY <1>1, <1>2, <1>3, <1>4, <1>5, TableSteps

LEMMA StepOneNodePerKey == IInv /\ [Next]_vars => OneNodePerKey'
<1> SUFFICES ASSUME IInv, [Next]_vars PROVE OneNodePerKey'
  OBVIOUS
<1>0. TypeOK /\ WellFormed /\ OneNodePerKey /\ AbsentInv /\ CopyInv
  BY DEF IInv
<1>1. CASE Place
  <2>1. key \in Keys /\ Absent(key) /\ NewNode(key).str = key
    BY <1>0, <1>1, NewNodeFacts DEF TypeOK, InCall, Place, AbsentInv
  <2>2. /\ size' = size
        /\ \A i \in Slots(size) :
             table'[i] = IF i = p THEN NewNode(key) ELSE table[i]
    BY <1>0, <1>1 DEF Place, WellFormed
  <2>. QED
    BY <1>0, <2>1, <2>2 DEF OneNodePerKey, Absent
<1>2. CASE Grow
  BY <1>0, <1>2 DEF OneNodePerKey, Grow
<1>3. CASE CopyPlace
  BY <1>0, <1>3 DEF OneNodePerKey, CopyPlace
<1>4. CASE CopyDone
  BY <1>0, <1>4 DEF OneNodePerKey, CopyInv, CopyDone
<1>5. CASE UNCHANGED <<table, size, t, s>>
  BY <1>0, <1>5 DEF OneNodePerKey
<1>. QED
  BY <1>1, <1>2, <1>3, <1>4, <1>5, TableSteps

(***************************************************************************)
(* The search: at an empty slot, the key is known to be nowhere.           *)
(***************************************************************************)
LEMMA EmptyMeansAbsent ==
  ASSUME IInv, pc \in {"probe", "lookup"}, table[p] = Null
  PROVE  Absent(key)
<1>0. TypeOK /\ WellFormed /\ Reachable /\ ProbeInv
  BY DEF IInv
<1>1. size \in Nat \ {0} /\ p \in Slots(size) /\ key \in Keys
  BY <1>0 DEF TypeOK, InCall
<1> SUFFICES ASSUME NEW i \in Slots(size), table[i] # Null, table[i].str = key
             PROVE  FALSE
  BY DEF Absent
<1>2. NodeHome(table[i], size) = KeyHome(key, size)
  BY <1>0, <1>1, NodeFacts DEF WellFormed
<1>3. KeyHome(key, size) \in Slots(size)
  BY <1>1, KeyHomeRange
<1>4. \/ i \in Passed(KeyHome(key, size), p, size)
      \/ p \in Passed(KeyHome(key, size), i, size)
  BY <1>1, <1>3, PassedTotal
<1>5. CASE i \in Passed(KeyHome(key, size), p, size)
  BY <1>0, <1>5 DEF ProbeInv
<1>6. CASE p \in Passed(KeyHome(key, size), i, size)
  BY <1>0, <1>2, <1>6 DEF Reachable, NoHoles
<1>. QED
  BY <1>4, <1>5, <1>6

LEMMA StepProbeInv == IInv /\ [Next]_vars => ProbeInv'
<1> SUFFICES ASSUME IInv, [Next]_vars PROVE ProbeInv'
  OBVIOUS
<1>0. TypeOK /\ WellFormed /\ ProbeInv /\ CopyInv
  BY DEF IInv
<1>1. size \in Nat \ {0} /\ p \in Slots(size)
  BY <1>0 DEF TypeOK
<1>2. ASSUME NEW k \in Keys, NEW f \in {"probe", "lookup"}, Call(f, k)
      PROVE  ProbeInv'
  <2>1. Passed(KeyHome(k, size), p', size) = {}
    BY <1>1, <1>2, KeyHomeRange, PassedHome DEF Call
  <2>2. key' = k /\ size' = size /\ table' = table /\ pc' = f
    BY <1>2 DEF Call
  <2>. QED
    BY <2>1, <2>2 DEF ProbeInv
<1>3. CASE pc' \notin {"probe", "lookup", "reprobe", "place"}
  BY <1>3 DEF ProbeInv
<1>4. CASE ProbeNext \/ LookupNext
  <2>1. /\ pc \in {"probe", "lookup"}
        /\ table[p] # Null /\ ~Equal(table[p], key)
        /\ p' = Prev(p, size)
        /\ UNCHANGED <<table, size, pc, key>>
    BY <1>4 DEF ProbeNext, LookupNext
  <2>2. key \in Keys /\ KeyHome(key, size) \in Slots(size)
    BY <1>0, <1>1, <2>1, KeyHomeRange DEF TypeOK, InCall
  <2>3. table[p].str # key
    BY <1>0, <1>1, <2>1, <2>2, NodeFacts DEF WellFormed
  <2>4. ASSUME NEW j \in Passed(KeyHome(key, size), p', size)
        PROVE  table[j] # Null /\ table[j].str # key
    <3>1. j = p \/ j \in Passed(KeyHome(key, size), p, size)
      BY <1>1, <2>1, <2>2, PassedPrev
    <3>. QED
      BY <1>0, <2>1, <2>3, <3>1 DEF ProbeInv
  <2>. QED
    BY <2>1, <2>4 DEF ProbeInv
<1>5. CASE ProbeEmpty
  BY <1>0, <1>5 DEF ProbeInv, ProbeEmpty
<1>6. CASE Reprobe
  <2>1. key \in Keys /\ KeyHome(key, size) \in Slots(size)
    BY <1>0, <1>1, <1>6, KeyHomeRange DEF TypeOK, InCall, Reprobe
  <2>2. ASSUME table[p] # Null,
               NEW j \in Passed(KeyHome(key, size), Prev(p, size), size)
        PROVE  table[j] # Null
    <3>1. j = p \/ j \in Passed(KeyHome(key, size), p, size)
      BY <1>1, <2>1, <2>2, PassedPrev
    <3>. QED
      BY <1>0, <1>6, <2>2, <3>1 DEF ProbeInv, Reprobe
  <2>. QED
    BY <1>0, <1>6, <2>2 DEF ProbeInv, Reprobe
<1>7. CASE CopyDone
  <2>1. key \in Keys /\ s \in Nat \ {0}
    BY <1>0, <1>7 DEF TypeOK, InCall, CopyInv, CopyDone
  <2>2. Passed(KeyHome(key, s), KeyHome(key, s), s) = {}
    BY <2>1, KeyHomeRange, PassedHome
  <2>. QED
    BY <1>7, <2>2 DEF ProbeInv, CopyDone
<1>8. CASE UNCHANGED <<table, size, pc, key, p>>
  BY <1>0, <1>8 DEF ProbeInv
<1>. QED
  <2>1. CASE Rehash
    BY <2>1, <1>3, <1>7
    DEF Rehash, Grow, CopySkip, CopyStart, CopyNext, CopyPlace
  <2>2. CASE Insert \/ Lookup
    BY <2>2, <1>3, <1>4, <1>5, <1>6
    DEF Insert, Lookup, ProbeEqual, Place, LookupEqual, LookupEmpty, Return
  <2>3. CASE \E k \in Keys : CallInsert(k) \/ CallLookup(k)
    BY <2>3, <1>2 DEF CallInsert, CallLookup
  <2>4. CASE GrowFails \/ PlaceFails \/ Done \/ Stopped \/ UNCHANGED vars
    BY <2>4, <1>3, <1>8 DEF GrowFails, PlaceFails, Done, Stopped, vars
  <2>. QED
    BY <2>1, <2>2, <2>3, <2>4 DEF Next, Step

LEMMA StepAbsentInv == IInv /\ [Next]_vars => AbsentInv'
<1> SUFFICES ASSUME IInv, [Next]_vars PROVE AbsentInv'
  OBVIOUS
<1>0. TypeOK /\ AbsentInv /\ CopyInv
  BY DEF IInv
<1>1. CASE ProbeEmpty
  <2>1. Absent(key)
    BY <1>1, EmptyMeansAbsent DEF ProbeEmpty
  <2>. QED
    BY <1>1, <2>1 DEF AbsentInv, Absent, ProbeEmpty
<1>2. CASE CopyDone
  <2>1. Absent(key)
    BY <1>0, <1>2 DEF AbsentInv, CopyDone
  <2>2. \A j \in Slots(s) : t[j] # Null => t[j].str # key
    BY <1>0, <1>2, <2>1 DEF CopyInv, CopyDone, Absent, Slots, TypeOK
  <2>. QED
    BY <1>2, <2>2 DEF AbsentInv, Absent, CopyDone
<1>3. CASE pc' \notin {"grow", "copy", "copy_probe", "reprobe", "place"}
  BY <1>3 DEF AbsentInv
<1>4. CASE /\ pc \in {"grow", "copy", "copy_probe", "reprobe", "place"}
           /\ UNCHANGED <<table, size, key>>
  BY <1>0, <1>4 DEF AbsentInv, Absent
<1>5. CASE UNCHANGED <<table, size, pc, key>>
  BY <1>0, <1>5 DEF AbsentInv, Absent
<1>. QED
  <2>1. CASE Rehash
    BY <2>1, <1>2, <1>4
    DEF Rehash, Grow, CopySkip, CopyStart, CopyNext, CopyPlace
  <2>2. CASE Insert \/ Lookup
    BY <2>2, <1>1, <1>3, <1>4
    DEF Insert, Lookup, ProbeEqual, ProbeNext, Reprobe, Place, LookupEqual,
        LookupNext, LookupEmpty, Return
  <2>3. CASE \E k \in Keys : CallInsert(k) \/ CallLookup(k)
    BY <2>3, <1>3 DEF CallInsert, CallLookup, Call
  <2>4. CASE GrowFails \/ PlaceFails \/ Done \/ Stopped \/ UNCHANGED vars
    BY <2>4, <1>3, <1>5 DEF GrowFails, PlaceFails, Done, Stopped, vars
  <2>. QED
    BY <2>1, <2>2, <2>3, <2>4 DEF Next, Step
-----------------------------------------------------------------------------
(***************************************************************************)
(* The rehash: after each slot, the new table holds what it should.        *)
(***************************************************************************)
LEMMA CopyPlaceKeepsCopyInv == IInv /\ CopyPlace => CopyInv'
<1> SUFFICES ASSUME IInv, CopyPlace PROVE CopyInv'
  OBVIOUS
<1>0. TypeOK /\ WellFormed /\ OneNodePerKey /\ CopyInv
  BY DEF IInv
<1>1. /\ pc = "copy_probe" /\ t[q] = Null /\ q \in Slots(s)
      /\ e \in Slots(size) /\ e \in Nat /\ table[e] # Null
  BY <1>0 DEF CopyPlace, TypeOK, Slots
<1>2. /\ pc' = "copy" /\ e' = e + 1 /\ s' = s /\ size' = size /\ table' = table
      /\ \A j \in Slots(s) : t'[j] = IF j = q THEN table[e] ELSE t[j]
  BY <1>0, <1>1 DEF CopyPlace, WellFormed
<1>3. s > size
  BY <1>0, <1>1 DEF CopyInv
<1>4. ASSUME NEW i \in 0..e, table[i] # Null
      PROVE  \E j \in Slots(s) : t'[j] = table[i]
  <2>1. CASE i = e
    BY <1>1, <1>2, <2>1
  <2>2. CASE i # e
    <3>1. PICK j \in Slots(s) : t[j] = table[i]
      BY <1>0, <1>1, <1>4, <2>2 DEF CopyInv
    <3>. QED
      BY <1>1, <1>2, <1>4, <3>1
  <2>. QED
    BY <2>1, <2>2
<1>5. ASSUME NEW j \in Slots(s), t'[j] # Null
      PROVE  \E i \in 0..e : t'[j] = table[i]
  <2>1. CASE j = q
    <3>1. e \in 0..e
      BY <1>1
    <3>2. t'[j] = table[e]
      BY <1>2, <2>1
    <3>. QED
      BY <3>1, <3>2
  <2>2. CASE j # q
    <3>1. PICK i \in 0..(e - 1) : t[j] = table[i]
      BY <1>0, <1>1, <1>2, <1>5, <2>2 DEF CopyInv
    <3>2. i \in 0..e
      BY <1>1
    <3>3. t'[j] = table[i]
      BY <1>2, <2>2, <3>1
    <3>. QED
      BY <3>2, <3>3
  <2>. QED
    BY <2>1, <2>2
\* No slot of the new table holds the key of the node about to be copied.
<1>6. ASSUME NEW j \in Slots(s), t[j] # Null, t[j].str = table[e].str
      PROVE  FALSE
  <2>1. PICK i \in 0..(e - 1) : t[j] = table[i]
    BY <1>0, <1>1, <1>6 DEF CopyInv
  <2>2. i \in Slots(size) /\ i # e
    BY <1>0, <1>1, <2>1 DEF Slots, TypeOK
  <2>. QED
    BY <1>0, <1>1, <1>6, <2>1, <2>2 DEF OneNodePerKey
<1>7. ASSUME NEW i \in Slots(s), NEW j \in Slots(s),
             t'[i] # Null, t'[j] # Null, t'[i].str = t'[j].str
      PROVE  i = j
  BY <1>0, <1>1, <1>2, <1>6, <1>7 DEF CopyInv
<1>8. e' - 1 = e
  BY <1>1, <1>2
<1>. QED
  BY <1>2, <1>3, <1>4, <1>5, <1>7, <1>8 DEF CopyInv

LEMMA StepCopyInv == IInv /\ [Next]_vars => CopyInv'
<1> SUFFICES ASSUME IInv, [Next]_vars PROVE CopyInv'
  OBVIOUS
<1>0. TypeOK /\ WellFormed /\ CopyInv
  BY DEF IInv
<1>1. CASE Grow /\ pc' = "copy"
  <2>1. s' > size' /\ e' = 0 /\ \A j \in Slots(s') : t'[j] = Null
    BY <1>1 DEF Grow, Slots
  <2>. QED
    BY <1>1, <2>1 DEF CopyInv
<1>2. CASE CopySkip
  <2>1. /\ pc = "copy" /\ pc' = "copy" /\ e \in Nat /\ e' = e + 1
        /\ table[e] = Null /\ UNCHANGED <<table, size, t, s>>
    BY <1>0, <1>2 DEF CopySkip, TypeOK
  <2>2. \A i \in 0..(e' - 1) : i = e \/ i \in 0..(e - 1)
    BY <2>1
  <2>3. \A i \in 0..(e - 1) : i \in 0..(e' - 1)
    BY <2>1
  <2>. QED
    BY <1>0, <2>1, <2>2, <2>3 DEF CopyInv
<1>3. CASE CopyStart
  <2>1. s \in Nat \ {0} /\ table[e] \in Nodes
    BY <1>0, <1>3 DEF CopyInv, TypeOK, WellFormed, CopyStart, Slots
  <2>2. Passed(NodeHome(table[e], s), q', s) = {}
    BY <1>3, <2>1, NodeFacts, PassedHome DEF CopyStart
  <2>. QED
    BY <1>0, <1>3, <2>2 DEF CopyInv, CopyStart
<1>4. CASE CopyNext
  <2>1. s \in Nat \ {0} /\ q \in Slots(s) /\ table[e] \in Nodes
    BY <1>0, <1>4 DEF CopyInv, TypeOK, WellFormed, CopyNext, Slots
  <2>2. ASSUME NEW j \in Passed(NodeHome(table[e], s), q', s)
        PROVE  t[j] # Null
    <3>1. j = q \/ j \in Passed(NodeHome(table[e], s), q, s)
      BY <1>4, <2>1, NodeFacts, PassedPrev DEF CopyNext
    <3>. QED
      BY <1>0, <1>4, <3>1 DEF CopyInv, CopyNext
  <2>. QED
    BY <1>0, <1>4, <2>2 DEF CopyInv, CopyNext
<1>5. CASE CopyPlace
  BY <1>5, CopyPlaceKeepsCopyInv
<1>6. CASE pc' \notin {"copy", "copy_probe"}
  BY <1>6 DEF CopyInv
<1>7. CASE UNCHANGED vars
  BY <1>0, <1>7 DEF CopyInv, vars
<1>. QED
  <2>1. CASE Rehash
    BY <2>1, <1>1, <1>2, <1>3, <1>4, <1>5, <1>6 DEF Rehash, Grow, CopyDone
  <2>2. CASE Insert \/ Lookup
    BY <2>2, <1>6
    DEF Insert, Lookup, ProbeEqual, ProbeNext, ProbeEmpty, Reprobe, Place,
        LookupEqual, LookupNext, LookupEmpty, Return
  <2>3. CASE \E k \in Keys : CallInsert(k) \/ CallLookup(k)
    BY <2>3, <1>6 DEF CallInsert, CallLookup, Call
  <2>4. CASE GrowFails \/ PlaceFails \/ Done \/ Stopped \/ UNCHANGED vars
    BY <2>4, <1>6, <1>7 DEF GrowFails, PlaceFails, Done, Stopped
  <2>. QED
    BY <2>1, <2>2, <2>3, <2>4 DEF Next, Step
-----------------------------------------------------------------------------
(***************************************************************************)
(* The strings of the table, and their number.                             *)
(***************************************************************************)
LEMMA StoredCardinality ==
  ASSUME TypeOK, OneNodePerKey
  PROVE  /\ IsFiniteSet(Stored)
         /\ Cardinality(Stored) = Cardinality(Occupied)
<1> DEFINE f == [i \in Occupied |-> table[i].str]
<1>1. IsFiniteSet(Occupied)
  <2>1. Occupied \in SUBSET (0..(size - 1))
    BY DEF Occupied, Slots
  <2>2. IsFiniteSet(0..(size - 1))
    BY FS_Interval DEF TypeOK
  <2>. QED
    BY <2>1, <2>2, FS_Subset
<1>2. f \in Surjection(Occupied, Stored)
  BY DEF Surjection, Stored
<1>3. f \in Injection(Occupied, Stored)
  BY <1>2 DEF Surjection, Injection, IsInjective, OneNodePerKey, Occupied
<1>. QED
  BY <1>1, <1>2, <1>3, FS_Surjection

\* Storing the key of an insert adds that key and no other.
LEMMA PlaceStored ==
  ASSUME IInv, Place
  PROVE  Stored' = Stored \cup {key} /\ key \notin Stored
<1>0. TypeOK /\ WellFormed /\ AbsentInv /\ ProbeInv
  BY DEF IInv
<1>1. key \in Keys /\ p \in Slots(size) /\ table[p] = Null /\ Absent(key)
  BY <1>0 DEF TypeOK, InCall, AbsentInv, ProbeInv, Place
<1>2. NewNode(key).str = key /\ NewNode(key) # Null
  BY <1>1, NewNodeFacts
<1>3. /\ size' = size
      /\ \A i \in Slots(size) :
           table'[i] = IF i = p THEN NewNode(key) ELSE table[i]
  BY <1>0 DEF Place, WellFormed
<1>4. Occupied' = Occupied \cup {p}
  BY <1>1, <1>2, <1>3 DEF Occupied
<1>5. \A i \in Occupied : table'[i] = table[i] /\ i # p
  BY <1>1, <1>3 DEF Occupied
<1>6. table'[p].str = key
  BY <1>1, <1>2, <1>3
<1>7. Stored' = Stored \cup {key}
  BY <1>4, <1>5, <1>6 DEF Stored
<1>. QED
  BY <1>1, <1>7 DEF Stored, Occupied, Absent

\* A rehash loses no string and adds none.
LEMMA CopyDoneStored ==
  ASSUME IInv, CopyDone
  PROVE  Stored' = Stored
<1>0. TypeOK /\ CopyInv
  BY DEF IInv
<1>1. /\ pc = "copy" /\ e = size /\ table' = t /\ size' = s
  BY DEF CopyDone
<1>2. \A i \in Slots(size) :
        table[i] # Null => \E j \in Slots(s) : t[j] = table[i]
  BY <1>0, <1>1 DEF CopyInv, Slots
<1>3. \A j \in Slots(s) :
        t[j] # Null => \E i \in Slots(size) : t[j] = table[i]
  BY <1>0, <1>1 DEF CopyInv, Slots
<1>. QED
  BY <1>1, <1>2, <1>3 DEF Stored, Occupied

LEMMA SameStored ==
  ASSUME UNCHANGED <<table, size>>
  PROVE  Stored' = Stored
BY DEF Stored, Occupied

LEMMA StepCountInv == IInv /\ [Next]_vars => CountInv'
<1> SUFFICES ASSUME IInv, [Next]_vars PROVE CountInv'
  OBVIOUS
<1>0. TypeOK /\ CopyInv /\ CountInv /\ OneNodePerKey
  BY DEF IInv
<1>1. size \in Nat /\ used \in Nat /\ size >= 32 /\ s \in Nat
  BY <1>0 DEF TypeOK, CountInv
<1>2. CASE Place
  <2>1. Cardinality(Stored') = used + 1
    BY <1>0, <1>1, <1>2, PlaceStored, StoredCardinality, FS_AddElement
    DEF CountInv
  <2>. QED
    BY <1>0, <1>1, <1>2, <2>1 DEF CountInv, Place, Return
<1>3. CASE CopyDone
  <2>1. size' = s /\ s > size /\ used' = used /\ pc' = "reprobe"
    BY <1>0, <1>3 DEF CopyInv, CopyDone
  <2>. QED
    BY <1>0, <1>1, <1>3, <2>1, CopyDoneStored DEF CountInv
<1>4. CASE ProbeEmpty
  <2>1. pc' # "verify" /\ (pc' = "place" => used < size - 1) /\ pc' # "reprobe"
    BY <1>1, <1>4, LoadLimitUsable DEF ProbeEmpty
  <2>2. UNCHANGED <<table, size, used>>
    BY <1>4 DEF ProbeEmpty
  <2>. QED
    BY <1>0, <2>1, <2>2, SameStored DEF CountInv
<1>5. CASE Grow
  <2>1. pc' = "copy"
    BY <1>1, <1>5, GrownSizeLarger DEF Grow
  <2>. QED
    BY <1>0, <1>5, <2>1, SameStored DEF CountInv, Grow
<1>6. CASE /\ pc' \notin {"reprobe", "place", "verify"}
           /\ UNCHANGED <<table, size, used>>
  BY <1>0, <1>6, SameStored DEF CountInv
<1>7. CASE Reprobe
  BY <1>0, <1>7, SameStored DEF CountInv, Reprobe
<1>8. CASE UNCHANGED vars
  BY <1>0, <1>8, SameStored DEF CountInv, vars
<1>. QED
  <2>1. CASE Rehash
    BY <2>1, <1>3, <1>5, <1>6
    DEF Rehash, CopySkip, CopyStart, CopyNext, CopyPlace
  <2>2. CASE Insert \/ Lookup
    BY <2>2, <1>2, <1>4, <1>6, <1>7
    DEF Insert, Lookup, ProbeEqual, ProbeNext, LookupEqual, LookupNext,
        LookupEmpty, Return
  <2>3. CASE \E k \in Keys : CallInsert(k) \/ CallLookup(k)
    BY <2>3, <1>6 DEF CallInsert, CallLookup, Call
  <2>4. CASE GrowFails \/ PlaceFails \/ Done \/ Stopped \/ UNCHANGED vars
    BY <2>4, <1>6, <1>8 DEF GrowFails, PlaceFails, Done, Stopped
  <2>. QED
    BY <2>1, <2>2, <2>3, <2>4 DEF Next, Step
-----------------------------------------------------------------------------
(***************************************************************************)
(* The theorems.                                                           *)
(***************************************************************************)
THEOREM Invariance == Spec => []IInv
<1>1. IInv /\ [Next]_vars => IInv'
  BY StepTypeOK, StepWellFormed, StepReachable, StepOneNodePerKey, StepProbeInv,
     StepAbsentInv, StepCopyInv, StepCountInv DEF IInv
<1>. QED
  BY <1>1, InitIInv, PTL DEF Spec

(***************************************************************************)
(* Type correctness: no loop of LHASH_INSERT, LHASH_LOOKUP or LHASH_REHASH *)
(* ever reads a slot outside the table it probes.                          *)
(***************************************************************************)
THEOREM TypeCorrect == Spec => []TypeOK
<1>1. IInv => TypeOK
  BY DEF IInv
<1>. QED
  BY <1>1, Invariance, PTL

(***************************************************************************)
(* Every node can be found from its home slot at every moment, in the      *)
(* table and in the table a rehash is filling.                             *)
(***************************************************************************)
THEOREM AlwaysReachable == Spec => []Reachable
<1>1. IInv => Reachable
  BY DEF IInv
<1>. QED
  BY <1>1, Invariance, PTL

\* No string ever has two nodes.
THEOREM NeverTwoNodes == Spec => []OneNodePerKey
<1>1. IInv => OneNodePerKey
  BY DEF IInv
<1>. QED
  BY <1>1, Invariance, PTL

(***************************************************************************)
(* The ASSERTs and VERIFYs of the table hold, for every initial size and   *)
(* every pair of factors the options parser admits.                        *)
(***************************************************************************)
THEOREM AssertionsAlwaysHold == Spec => []AssertionsHold
<1>1. IInv => AssertionsHold
  <2> SUFFICES ASSUME IInv PROVE AssertionsHold
    OBVIOUS
  <2>1. used = Cardinality(Occupied)
    BY StoredCardinality DEF IInv, CountInv
  <2>. QED
    BY <2>1 DEF IInv, CountInv, AssertionsHold
<1>. QED
  BY <1>1, Invariance, PTL
-----------------------------------------------------------------------------
(***************************************************************************)
(* The table implements KeySet.                                            *)
(***************************************************************************)
LEMMA FoundMeansStored ==
  ASSUME IInv, pc \in {"probe", "lookup"}, table[p] # Null, Equal(table[p], key)
  PROVE  key \in Stored /\ table[p].str = key
<1>1. key \in Keys /\ p \in Slots(size) /\ table[p] \in Nodes
  BY DEF IInv, TypeOK, InCall, WellFormed
<1>2. table[p].str = key
  BY <1>1, NodeFacts
<1>. QED
  BY <1>1, <1>2 DEF Stored, Occupied

LEMMA EmptyMeansNotStored ==
  ASSUME IInv, pc \in {"probe", "lookup"}, table[p] = Null
  PROVE  key \notin Stored
BY EmptyMeansAbsent DEF Absent, Stored, Occupied

LEMMA InitImplements == Init => Abstract!Init
<1> SUFFICES ASSUME Init PROVE Abstract!Init
  OBVIOUS
<1>1. Stored = {}
  BY DEF Init, Stored, Occupied, Slots
<1>2. Op = "none"
  BY DEF Init, Op, InCall
<1>. QED
  BY <1>1, <1>2 DEF Init, NoResult, Abstract!Init, Abstract!NoResult

LEMMA StepImplements == IInv /\ [Next]_vars => [Abstract!Next]_(Abstract!vars)
<1> SUFFICES ASSUME IInv, [Next]_vars
             PROVE  Abstract!Next \/ UNCHANGED Abstract!vars
  OBVIOUS
<1> USE DEF Op, InCall
<1>1. ASSUME NEW k \in Keys, NEW f \in {"probe", "lookup"}, Call(f, k)
      PROVE  Abstract!Next
  <2>1. Op = "none" /\ Op' = IF f = "lookup" THEN "lookup" ELSE "insert"
    BY <1>1 DEF Call
  <2>2. Stored' = Stored
    BY <1>1, SameStored DEF Call
  <2>3. key' = k /\ ret' = Abstract!NoResult
    BY <1>1 DEF Call, NoResult, Abstract!NoResult
  <2>. QED
    BY <2>1, <2>2, <2>3 DEF Abstract!Next, Abstract!Call
<1>2. CASE ProbeEqual \/ LookupEqual
  <2>1. /\ pc \in {"probe", "lookup"} /\ pc' = "idle" /\ key' = NoKey
        /\ table[p] # Null /\ Equal(table[p], key)
        /\ ret' = [found |-> TRUE, node |-> table[p].str]
        /\ UNCHANGED <<table, size>>
    BY <1>2 DEF ProbeEqual, LookupEqual, Return
  <2>2. key \in Stored /\ table[p].str = key
    BY <2>1, FoundMeansStored
  <2>3. Op # "none" /\ Op' = "none" /\ Stored' = Stored
    BY <2>1, SameStored
  <2>. QED
    BY <2>1, <2>2, <2>3 DEF Abstract!Next, Abstract!ReturnNode, Abstract!Return
<1>3. CASE LookupEmpty
  <2>1. /\ pc = "lookup" /\ pc' = "idle" /\ key' = NoKey /\ table[p] = Null
        /\ ret' = Abstract!NoResult
        /\ UNCHANGED <<table, size>>
    BY <1>3 DEF LookupEmpty, Return, Abstract!NoResult
  <2>2. key \notin Stored
    BY <2>1, EmptyMeansNotStored
  <2>3. Op = "lookup" /\ Op' = "none" /\ Stored' = Stored
    BY <2>1, SameStored
  <2>. QED
    BY <2>1, <2>2, <2>3 DEF Abstract!Next, Abstract!ReturnNull, Abstract!Return
<1>4. CASE Place
  <2>1. /\ pc = "place" /\ pc' = "idle" /\ key' = NoKey
        /\ ret' = [found |-> FALSE, node |-> key]
    BY <1>4 DEF Place, Return
  <2>2. Stored' = Stored \cup {key} /\ key \notin Stored
    BY <1>4, PlaceStored
  <2>. QED
    BY <2>1, <2>2 DEF Abstract!Next, Abstract!ReturnNew, Abstract!Return
<1>5. CASE CopyDone
  <2>1. Stored' = Stored
    BY <1>5, CopyDoneStored
  <2>. QED
    BY <1>5, <2>1 DEF CopyDone, Abstract!vars
<1>6. CASE UNCHANGED <<table, size, key, ret>> /\ Op' = Op
  BY <1>6, SameStored DEF Abstract!vars
<1>. QED
  <2>1. CASE Rehash
    BY <2>1, <1>5, <1>6
    DEF Rehash, Grow, CopySkip, CopyStart, CopyNext, CopyPlace
  <2>2. CASE Insert \/ Lookup
    BY <2>2, <1>2, <1>3, <1>4, <1>6
    DEF Insert, Lookup, ProbeNext, ProbeEmpty, Reprobe, LookupNext
  <2>3. CASE \E k \in Keys : CallInsert(k) \/ CallLookup(k)
    BY <2>3, <1>1 DEF CallInsert, CallLookup
  <2>4. CASE GrowFails \/ PlaceFails \/ Done \/ Stopped \/ UNCHANGED vars
    BY <2>4, <1>6 DEF GrowFails, PlaceFails, Done, Stopped, vars
  <2>. QED
    BY <2>1, <2>2, <2>3, <2>4 DEF Next, Step

(***************************************************************************)
(* Whatever the order of the calls and wherever the strings hash to, the   *)
(* table behaves as the set of its keys: an insert answers "new" the first *)
(* time and never again, and finds the node of the first time, across any  *)
(* number of rehashes.                                                     *)
(***************************************************************************)
THEOREM Implementation == Spec => ImplementsKeySet
<1>1. Init => Abstract!Init
  BY InitImplements
<1>2. IInv /\ [Next]_vars => [Abstract!Next]_(Abstract!vars)
  BY StepImplements
<1>. QED
  BY <1>1, <1>2, Invariance, PTL DEF Spec, ImplementsKeySet, Abstract!Spec
=============================================================================
