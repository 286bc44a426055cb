--------------------------- MODULE ObjAllocProofs ----------------------------
(***************************************************************************)
(* The object allocator, for every number of regions, limit and series of  *)
(* requests, in both of its forms.                                         *)
(***************************************************************************)
EXTENDS ObjAlloc, NumberLemmas

-----------------------------------------------------------------------------
(***************************************************************************)
(* Powers of two.  A recursive function is what its definition says only   *)
(* if there is such a function: the one put together of its beginnings,    *)
(* which exist by induction.                                               *)
(***************************************************************************)
IsPowers(f, n) == /\ f \in [0..n -> Nat]
                  /\ \A k \in 0..n : f[k] = IF k = 0 THEN 1 ELSE 2 * f[k - 1]

LEMMA PowersExist == \A n \in Nat : \E f : IsPowers(f, n)
<1> DEFINE S == {n \in Nat : \E f : IsPowers(f, n)}
<1>1. 0 \in S
  <2>1. IsPowers([k \in 0..0 |-> 1], 0)
    BY DEF IsPowers
  <2>. QED
    BY <2>1
<1>2. ASSUME NEW n \in S PROVE n + 1 \in S
  <2>1. PICK f : IsPowers(f, n)
    OBVIOUS
  <2> DEFINE g == [k \in 0..(n + 1) |-> IF k = n + 1 THEN 2 * f[n] ELSE f[k]]
  <2>2. /\ n \in Nat /\ \A k \in 0..n : f[k] \in Nat
        /\ \A k \in 0..n : f[k] = IF k = 0 THEN 1 ELSE 2 * f[k - 1]
    BY <2>1 DEF IsPowers
  <2>3. /\ \A k \in 0..n : g[k] = f[k]
        /\ g[n + 1] = 2 * f[n]
    BY <2>2
  <2>4. g \in [0..(n + 1) -> Nat]
    BY <2>2
  <2> HIDE DEF g
  <2>5. ASSUME NEW k \in 0..(n + 1) PROVE g[k] = IF k = 0 THEN 1 ELSE 2 * g[k - 1]
    <3>1. CASE k = n + 1
      BY <3>1, <2>2, <2>3
    <3>2. CASE k # n + 1
      <4>1. k \in 0..n /\ (k # 0 => k - 1 \in 0..n)
        BY <3>2, <2>2
      <4>. QED
        BY <4>1, <2>2, <2>3
    <3>. QED
      BY <3>1, <3>2
  <2>6. IsPowers(g, n + 1)
    BY <2>4, <2>5 DEF IsPowers
  <2>. QED
    BY <2>2, <2>6
<1> HIDE DEF S
<1>3. S \in SUBSET Nat
  BY DEF S
<1>4. S = Nat
  BY <1>1, <1>2, <1>3, SetInduction
<1>. QED
  BY <1>4 DEF S

LEMMA TwoToDef == \A k \in Nat : TwoTo[k] = IF k = 0 THEN 1 ELSE 2 * TwoTo[k - 1]
<1> DEFINE P(n) == CHOOSE f : IsPowers(f, n)
           F == [k \in Nat |-> P(k)[k]]
<1>1. \A n \in Nat : IsPowers(P(n), n)
  BY PowersExist
<1> HIDE DEF P
<1>2. ASSUME NEW n \in Nat, NEW m \in Nat, n <= m
      PROVE  P(n)[n] = P(m)[n]
  <2> DEFINE T == {k \in 0..n : P(n)[k] # P(m)[k]}
  <2>1. CASE T = {}
    BY <2>1
  <2>2. CASE T # {}
    <3>1. T \in SUBSET Nat
      OBVIOUS
    <3>2. PICK k \in T : \A x \in T : k <= x
      <4> HIDE DEF T
      <4>. QED
        BY <3>1, <2>2, LeastElement
    <3>3. k \in 0..n /\ k \in 0..m /\ P(n)[k] # P(m)[k]
      BY <1>2
    <3>4. k # 0
      BY <3>3, <1>1 DEF IsPowers
    <3>5. k - 1 \in 0..n /\ k - 1 \notin T
      BY <3>2, <3>3, <3>4
    <3>6. P(n)[k - 1] = P(m)[k - 1]
      BY <3>5
    <3>7. P(n)[k] = 2 * P(n)[k - 1] /\ P(m)[k] = 2 * P(m)[k - 1]
      BY <3>3, <3>4, <1>1 DEF IsPowers
    <3>. QED
      BY <3>3, <3>6, <3>7
  <2>. QED
    BY <2>1, <2>2
<1>3. ASSUME NEW k \in Nat PROVE F[k] = IF k = 0 THEN 1 ELSE 2 * F[k - 1]
  <2>1. k \in 0..k /\ F[k] = P(k)[k]
    OBVIOUS
  <2>2. P(k)[k] = IF k = 0 THEN 1 ELSE 2 * P(k)[k - 1]
    BY <2>1, <1>1 DEF IsPowers
  <2>3. CASE k # 0
    <3>1. k - 1 \in Nat /\ F[k - 1] = P(k - 1)[k - 1]
      BY <2>3
    <3>2. P(k - 1)[k - 1] = P(k)[k - 1]
      BY <3>1, <1>2
    <3>. QED
      BY <2>1, <2>2, <2>3, <3>1, <3>2
  <2>. QED
    BY <2>1, <2>2, <2>3
<1>4. F \in [Nat -> Nat]
  <2>1. ASSUME NEW k \in Nat PROVE P(k)[k] \in Nat
    BY <1>1, k \in 0..k DEF IsPowers
  <2>. QED
    BY <2>1
<1>5. F = [k \in Nat |-> IF k = 0 THEN 1 ELSE 2 * F[k - 1]]
  <2> DEFINE G == [k \in Nat |-> IF k = 0 THEN 1 ELSE 2 * F[k - 1]]
  <2>1. DOMAIN F = Nat
    OBVIOUS
  <2> HIDE DEF F
  <2>2. \A k \in Nat : F[k] = G[k]
    BY <1>3
  <2>. QED
    BY <1>4, <2>2
<1> HIDE DEF F
<1>6. TwoTo = [k \in Nat |-> IF k = 0 THEN 1 ELSE 2 * TwoTo[k - 1]]
  BY <1>5, Zenon DEF TwoTo
<1>. QED
  BY <1>6, Zenon

\* A power of two is more than its exponent: so the doublings come to an end.
LEMMA TwoToGrows == \A k \in Nat : TwoTo[k] \in Nat /\ TwoTo[k] > k
<1> DEFINE S == {k \in Nat : TwoTo[k] \in Nat /\ TwoTo[k] > k}
<1>1. 0 \in S
  BY TwoToDef
<1>2. ASSUME NEW k \in S PROVE k + 1 \in S
  <2>1. k \in Nat /\ TwoTo[k] \in Nat /\ TwoTo[k] > k
    OBVIOUS
  <2>2. TwoTo[k + 1] = 2 * TwoTo[k]
    <3>1. k + 1 \in Nat /\ k + 1 # 0 /\ (k + 1) - 1 = k
      BY <2>1
    <3>. QED
      BY <3>1, TwoToDef
  <2>. QED
    BY <2>1, <2>2
<1> HIDE DEF S
<1>3. S = Nat
  <2>1. S \in SUBSET Nat
    BY DEF S
  <2>. QED
    BY <1>1, <1>2, <2>1, SetInduction
<1>. QED
  BY <1>3 DEF S

-----------------------------------------------------------------------------
(***************************************************************************)
(* The invariant.                                                          *)
(***************************************************************************)
RegionIds == 0..(Regions - 1)

Object == [ref : Nat, region : RegionIds, off : Nat, size : Nat \ {0}, align : Nat]

\* What OBJ_ALLOC_ASSERT_INVARIANTS asserts of a region.
RegionOK(p) == /\ p \in Node /\ p.used <= p.size /\ p.size <= max_size
               /\ ~p.base => p.size = 0

\* What is left of that when an object has been given that reaches past it.
Bounded(p) == p \in Node /\ p.size <= max_size /\ (~p.base => p.used = 0)

\* Where an object lies in the regions ns.
Inside(o, ns) == /\ o \in Object
                 /\ o.ref = Ref(o.region, o.off)
                 /\ ns[o.region].base
                 /\ o.off < OffsetMax
                 /\ o.off + o.size <= ns[o.region].used
                 /\ AlignSize(o.off, o.align) = 0

Apart(o, w) == o.region # w.region \/ o.off + o.size <= w.off \/ w.off + w.size <= o.off

NodesOK == /\ nodes \in [RegionIds -> Node]
           /\ \A i \in RegionIds : Bounded(nodes[i])
           /\ pc # "past" => \A i \in RegionIds : RegionOK(nodes[i])

LimitsOK == max_size \in 1..OffsetMax /\ init_size \in 1..max_size

ObjsOK == /\ \A o \in objs : Inside(o, nodes)
          /\ \A o, w \in objs : o # w => Apart(o, w)

\* Inductive: TypeOK, and where every object is.
IInv == /\ NodesOK /\ LimitsOK /\ ObjsOK /\ NullMeansFull
        /\ pc \in {"ready", "null", "assert", "past", "nomem", "done"}
        /\ req \in Requests \cup {None}

LEMMA ConstantTypes == OffsetMax \in Nat /\ OffsetMax >= 1 /\ Regions \in Nat /\ Regions >= 1
BY ObjAllocAssumption

LEMMA RequestType ==
  ASSUME NEW rq \in Requests
  PROVE  rq.size \in Nat \ {0} /\ rq.align \in Nat
<1>1. rq.size \in Nat \ {0} /\ rq.align \in 0..(OffsetMax - 1)
  BY ObjAllocAssumption
<1>. QED
  BY <1>1, ConstantTypes

\* PTR_ALIGN_SIZE is no more than the alignment, and what is aligned needs none.
LEMMA AlignSizeIs ==
  ASSUME NEW x \in Nat, NEW align \in Nat
  PROVE  /\ AlignSize(x, align) \in 0..align
         /\ AlignSize(x + AlignSize(x, align), align) = 0
<1>1. CASE align = 0
  BY <1>1 DEF AlignSize
<1>2. CASE align # 0
  <2> DEFINE a == AlignSize(x, align)
  <2>1. a \in 0..(align - 1) /\ (x + a) % align = 0
    BY <1>2, NextMultiple DEF AlignSize
  <2> HIDE DEF a
  <2>2. align - 0 = align * 1 + 0 /\ 0 \in 0..(align - 1)
    BY <1>2
  <2>3. (align - 0) % align = 0
    BY <1>2, <2>2, DivModIs
  <2>4. AlignSize(x + a, align) = 0
    BY <1>2, <2>1, <2>3 DEF AlignSize
  <2>. QED
    BY <1>2, <2>1, <2>4 DEF a
<1>. QED
  BY <1>1, <1>2

\* The object and the padding before it are what is taken of its region.
LEMMA OffsetIs ==
  ASSUME NEW p \in Node, NEW rq \in Requests
  PROVE  /\ Offset(p, rq) \in Nat /\ Offset(p, rq) >= p.used
         /\ Need(p, rq) \in Nat \ {0}
         /\ Taken(p, rq) \in Nat
         /\ Offset(p, rq) + rq.size <= Taken(p, rq)
         /\ AlignSize(Offset(p, rq), rq.align) = 0
<1> DEFINE a == AlignSize(p.used, rq.align)
<1>1. p.used \in Nat /\ rq.size \in Nat \ {0} /\ rq.align \in Nat
  BY RequestType DEF Node
<1>2. a \in 0..rq.align /\ AlignSize(p.used + a, rq.align) = 0
  BY <1>1, AlignSizeIs
<1>3. Offset(p, rq) = p.used + a
  BY DEF Offset, Padding
<1>4. Padding(p, rq) \in Nat /\ Padding(p, rq) >= a
  BY <1>1, <1>2 DEF Padding
<1> HIDE DEF a
<1>. QED
  BY <1>1, <1>2, <1>3, <1>4 DEF Need, Taken

(***************************************************************************)
(* The doublings end with a size that has the room: it is found, and none  *)
(* of the sizes before it is more than the last.                           *)
(***************************************************************************)
LEMMA DoubledIs ==
  ASSUME NEW p \in Node, NEW n \in Nat \ {0}, init_size \in Nat \ {0}
  PROVE  /\ Doubled(p, n) \in Nat /\ Doubled(p, n) - p.used >= n
<1> DEFINE s == IF p.size = 0 THEN init_size ELSE p.size
           fits(k) == s * TwoTo[k] - p.used >= n
           m == p.used + n
           K == {k \in 0..m : fits(k)}
<1>1. s \in Nat /\ s >= 1 /\ p.used \in Nat /\ m \in Nat
  BY DEF Node
<1>2. \A k \in Nat : TwoTo[k] \in Nat /\ s * TwoTo[k] \in Nat
  BY <1>1, TwoToGrows
<1>3. m \in K
  <2>1. TwoTo[m] \in Nat /\ TwoTo[m] > m
    BY <1>1, TwoToGrows
  <2>2. 1 * TwoTo[m] <= s * TwoTo[m]
    <3> DEFINE t == TwoTo[m]
    <3> HIDE DEF t, s, m
    <3>. QED
      BY <1>1, <2>1, TimesGrows DEF t
  <2>3. s * TwoTo[m] \in Nat
    BY <1>1, <1>2
  <2> DEFINE x == s * TwoTo[m]
  <2> HIDE DEF x
  <2>4. x \in Nat /\ x > m
    BY <1>1, <2>1, <2>2, <2>3 DEF x
  <2>5. x - p.used >= n
    BY <1>1, <2>4
  <2>. QED
    BY <1>1, <2>5 DEF x
<1>4. PICK k \in K : \A j \in K : k <= j
  <2>1. K \in SUBSET Nat /\ K # {}
    BY <1>1, <1>3
  <2> HIDE DEF K
  <2>. QED
    BY <2>1, LeastElement
<1>5. k \in 0..m /\ fits(k) /\ \A j \in 0..(k - 1) : ~fits(j)
  BY <1>1, <1>4
<1> DEFINE c == CHOOSE x \in 0..m : fits(x) /\ \A j \in 0..(x - 1) : ~fits(j)
<1>6. c \in 0..m /\ fits(c)
  <2> HIDE DEF fits, m
  <2>. QED
    BY <1>5
<1>7. Doubled(p, n) = s * TwoTo[c]
  BY DEF Doubled
<1> HIDE DEF c, s, m
<1>8. c \in Nat
  BY <1>1, <1>6
<1>. QED
  BY <1>2, <1>6, <1>7, <1>8

\* 'p->size < s <= alloc->max_size', as the comment at obj-alloc-impl.h:313 has it.
LEMMA GrownIs ==
  ASSUME LimitsOK, NEW p, RegionOK(p), NEW rq \in Requests,
         Usable(p, rq), p.size - p.used < Need(p, rq)
  PROVE  /\ Grown(p, Need(p, rq)) \in (p.size + 1)..max_size
         /\ Grown(p, Need(p, rq)) - p.used < Need(p, rq) =>
              Grown(p, Need(p, rq)) = max_size
<1> DEFINE n == Need(p, rq)
           d == Doubled(p, n)
<1>1. /\ p \in Node /\ p.size \in Nat /\ p.used \in Nat /\ n \in Nat \ {0}
      /\ max_size \in Nat /\ max_size >= 1 /\ init_size \in Nat \ {0}
  BY OffsetIs, ConstantTypes DEF RegionOK, Node, LimitsOK
<1>2. d \in Nat /\ d - p.used >= n
  BY <1>1, DoubledIs
<1>3. p.size - p.used < n
  OBVIOUS
<1>4. p.size < max_size
  <2>1. CASE ~p.base
    BY <2>1, <1>1 DEF RegionOK
  <2>2. CASE p.base
    BY <2>2, <1>1 DEF Usable, Need
  <2>. QED
    BY <2>1, <2>2
<1> HIDE DEF n
<1>5. Grown(p, n) = IF d > max_size THEN max_size ELSE d
  BY DEF Grown
<1> HIDE DEF d
<1>6. /\ Grown(p, n) \in (p.size + 1)..max_size
      /\ Grown(p, n) - p.used < n => Grown(p, n) = max_size
  BY <1>1, <1>2, <1>3, <1>4, <1>5
<1>. QED
  BY <1>6 DEF n

\* The offset of an object of a region that was chosen fits its bits.
LEMMA OffsetFits ==
  ASSUME NEW p \in Node, RegionOK(p), NEW rq \in Requests, Usable(p, rq)
  PROVE  Offset(p, rq) < OffsetMax
<1>1. p.used \in Nat /\ p.size \in Nat /\ rq.align \in Nat /\ OffsetMax \in Nat /\ OffsetMax >= 1
  BY RequestType, ConstantTypes DEF Node
<1>2. CASE p.base
  BY <1>2 DEF Usable, Offset
<1>3. CASE ~p.base
  <2>1. p.used = 0
    BY <1>1, <1>3 DEF RegionOK
  <2>2. AlignSize(0, rq.align) = 0
    <3>1. CASE rq.align = 0
      BY <3>1 DEF AlignSize
    <3>2. CASE rq.align # 0
      <4>1. 0 % rq.align = 0 /\ (rq.align - 0) % rq.align = 0
        <5>1. 0 = rq.align * 0 + 0 /\ rq.align - 0 = rq.align * 1 + 0 /\ 0 \in 0..(rq.align - 1)
          BY <1>1, <3>2
        <5>. QED
          BY <1>1, <3>2, <5>1, DivModIs
      <4>. QED
        BY <3>2, <4>1 DEF AlignSize
    <3>. QED
      BY <3>1, <3>2
  <2>3. Offset(p, rq) = p.used + AlignSize(p.used, rq.align)
    BY <1>3 DEF Offset
  <2>. QED
    BY <1>1, <2>1, <2>2, <2>3
<1>. QED
  BY <1>2, <1>3

-----------------------------------------------------------------------------
(***************************************************************************)
(* The steps.                                                              *)
(***************************************************************************)
\* An object is handed out of region i, whose size is as it was or larger.
LEMMA HandKeeps ==
  ASSUME NodesOK, ObjsOK, NEW i \in RegionIds, NEW rq \in Requests,
         NEW size \in Nat, size <= max_size, size >= nodes[i].size,
         pc # "past", Usable(nodes[i], rq),
         size - nodes[i].used >= Need(nodes[i], rq) \/ pc' = "past",
         Hand(i, rq, size), max_size' = max_size
  PROVE  NodesOK' /\ ObjsOK'
<1> DEFINE p == nodes[i]
           r == Offset(p, rq)
           q == [base |-> TRUE, size |-> size, used |-> Taken(p, rq)]
           new == [ref |-> Ref(i, r), region |-> i, off |-> r,
                   size |-> rq.size, align |-> rq.align]
<1>1. p \in Node /\ RegionOK(p) /\ p.used \in Nat /\ p.size \in Nat
  BY DEF NodesOK, RegionOK, Node
<1>2. /\ r \in Nat /\ r >= p.used /\ Need(p, rq) \in Nat \ {0} /\ Taken(p, rq) \in Nat
      /\ r + rq.size <= Taken(p, rq) /\ AlignSize(r, rq.align) = 0
  BY <1>1, OffsetIs
<1>3. rq.size \in Nat \ {0} /\ rq.align \in Nat /\ r < OffsetMax
  BY <1>1, RequestType, OffsetFits
<1>4. nodes' = [nodes EXCEPT ![i] = q] /\ objs' = objs \cup {new}
  BY DEF Hand
<1>5. q \in Node /\ q.base /\ q.used = Taken(p, rq) /\ q.size = size
  BY <1>2 DEF Node
<1>6. q.used <= size \/ pc' = "past"
  BY <1>1, <1>2, <1>5 DEF Taken
<1>7. new.region = i /\ new.off = r /\ new.size = rq.size /\ new.align = rq.align
      /\ new.ref = Ref(i, r)
  OBVIOUS
<1> HIDE DEF q, new, r
<1>8. nodes' \in [RegionIds -> Node] /\ nodes'[i] = q /\ \A j \in RegionIds : j # i => nodes'[j] = nodes[j]
  BY <1>4, <1>5 DEF NodesOK
<1>9. Bounded(q) /\ (RegionOK(q) \/ pc' = "past")
  BY <1>5, <1>6 DEF RegionOK, Bounded
<1>10. NodesOK'
  <2>1. \A j \in RegionIds : Bounded(nodes'[j]) /\ (RegionOK(nodes'[j]) \/ pc' = "past")
    BY <1>8, <1>9 DEF NodesOK
  <2>. QED
    BY <1>8, <2>1 DEF NodesOK, RegionOK, Bounded
<1>11. Ref(i, r) \in Nat
  <2>1. i \in Nat /\ OffsetMax + 1 \in Nat
    BY ConstantTypes DEF RegionIds
  <2>2. i * (OffsetMax + 1) \in Nat
    BY <2>1
  <2>. QED
    BY <1>2, <2>2 DEF Ref
<1>12. new \in Object
  BY <1>2, <1>3, <1>4, <1>11 DEF Object, new
<1>13. Inside(new, nodes')
  BY <1>2, <1>3, <1>5, <1>7, <1>8, <1>12 DEF Inside
<1>14. \A o \in objs : Inside(o, nodes')
  <2>1. ASSUME NEW o \in objs PROVE Inside(o, nodes')
    <3>1. o \in Object /\ Inside(o, nodes) /\ o.region \in RegionIds
      BY DEF ObjsOK, Inside, Object
    <3>2. CASE o.region = i
      <4>1. o.off + o.size <= p.used /\ o.off + o.size \in Nat
        BY <3>1, <3>2 DEF Inside, Object
      <4>2. q.used \in Nat /\ q.used >= p.used
        BY <1>1, <1>2, <1>3, <1>5
      <4>. QED
        BY <1>1, <1>5, <1>8, <3>1, <3>2, <4>1, <4>2 DEF Inside
    <3>3. CASE o.region # i
      BY <1>8, <3>1, <3>3 DEF Inside
    <3>. QED
      BY <3>2, <3>3
  <2>. QED
    BY <2>1
<1>15. \A o \in objs : Apart(o, new) /\ Apart(new, o)
  <2>1. ASSUME NEW o \in objs, o.region = i PROVE o.off + o.size <= r
    <3>1. o.off + o.size <= p.used /\ o.off + o.size \in Nat
      BY <2>1 DEF ObjsOK, Inside, Object
    <3>. QED
      BY <3>1, <1>1, <1>2
  <2>. QED
    BY <2>1, <1>7 DEF Apart
<1>16. ObjsOK'
  <2>1. \A o \in objs' : Inside(o, nodes')
    BY <1>4, <1>13, <1>14
  <2>2. \A o, w \in objs' : o # w => Apart(o, w)
    BY <1>4, <1>15 DEF ObjsOK
  <2>. QED
    BY <2>1, <2>2 DEF ObjsOK, Inside, Apart
<1>. QED
  BY <1>10, <1>16

LEMMA InitIInv == Init => IInv
<1> SUFFICES ASSUME Init PROVE IInv
  OBVIOUS
<1>1. PICK lim \in Limits :
        /\ max_size = IF lim[2] = 0 THEN OffsetMax ELSE lim[2]
        /\ init_size = IF lim[1] = 0 \/ lim[1] > max_size THEN max_size ELSE lim[1]
        /\ nodes = [i \in 0..(Regions - 1) |-> [base |-> FALSE, size |-> 0, used |-> 0]]
        /\ pc = "ready" /\ req = None /\ objs = {}
  BY DEF Init
<1>2. lim[1] \in 0..OffsetMax /\ lim[2] \in 0..OffsetMax
  BY ObjAllocAssumption
<1>3. LimitsOK
  BY <1>1, <1>2, ConstantTypes DEF LimitsOK
<1>4. NodesOK
  BY <1>1, <1>3, ConstantTypes DEF NodesOK, RegionOK, Bounded, RegionIds, Node, LimitsOK
<1>. QED
  BY <1>1, <1>3, <1>4 DEF IInv, ObjsOK, NullMeansFull

LEMMA DomainIs == NodesOK => DOMAIN nodes = RegionIds
BY DEF NodesOK

LEMMA FitsKeepsIInv ==
  ASSUME IInv, NEW rq \in Requests, NEW i \in RegionIds, AllocateFits(i, rq)
  PROVE  IInv'
<1>1. /\ nodes[i].size - nodes[i].used >= Need(nodes[i], rq) /\ pc = "ready"
      /\ Usable(nodes[i], rq) /\ Hand(i, rq, nodes[i].size)
      /\ UNCHANGED <<init_size, max_size, pc>> /\ req' = rq
  BY DEF AllocateFits, Chosen, Begin
<1>2. nodes[i].size \in Nat /\ nodes[i].size <= max_size /\ nodes[i].size >= nodes[i].size
  BY <1>1 DEF IInv, NodesOK, RegionOK, Node
<1>3. NodesOK' /\ ObjsOK'
  BY <1>1, <1>2, HandKeeps DEF IInv
<1>. QED
  BY <1>1, <1>3 DEF IInv, LimitsOK, NullMeansFull

LEMMA GrowKeepsIInv ==
  ASSUME IInv, NEW rq \in Requests, NEW i \in RegionIds, AllocateGrow(i, rq)
  PROVE  IInv'
<1> DEFINE p == nodes[i]
           s == Grown(p, Need(p, rq))
<1>1. /\ Usable(p, rq) /\ p.size - p.used < Need(p, rq) /\ pc = "ready"
      /\ UNCHANGED <<init_size, max_size>> /\ req' = rq
  BY DEF AllocateGrow, Chosen, Begin
<1>2. RegionOK(p) /\ p.size \in Nat /\ p.used \in Nat /\ p \in Node /\ max_size \in Nat
  BY <1>1, ConstantTypes DEF IInv, NodesOK, LimitsOK, RegionOK, Node
<1>3. s \in (p.size + 1)..max_size /\ (s - p.used < Need(p, rq) => s = max_size)
  BY <1>1, <1>2, GrownIs DEF IInv
<1>4. CASE s - p.used >= Need(p, rq)
  <2>1. Hand(i, rq, s) /\ pc' = pc
    BY <1>4 DEF AllocateGrow
  <2>2. s \in Nat /\ s <= max_size /\ s >= nodes[i].size
    BY <1>2, <1>3
  <2> HIDE DEF s
  <2>3. NodesOK' /\ ObjsOK'
    BY <1>1, <1>4, <2>1, <2>2, HandKeeps DEF IInv
  <2>. QED
    BY <1>1, <2>1, <2>3 DEF IInv, LimitsOK, NullMeansFull
<1>5. CASE ~(s - p.used >= Need(p, rq))
  <2>1. \/ /\ nodes' = [nodes EXCEPT ![i].base = TRUE, ![i].size = s]
           /\ pc' = "assert" /\ objs' = objs
        \/ Hand(i, rq, s) /\ pc' = "past"
    BY <1>5 DEF AllocateGrow
  <2>2. s \in Nat /\ s <= max_size /\ s >= p.size /\ s = max_size
    <3>1. Need(p, rq) \in Nat
      BY <1>2, OffsetIs
    <3>. QED
      BY <1>2, <1>3, <1>5, <3>1
  <2>3. rq.align # 0
    <3>1. SUFFICES ASSUME rq.align = 0 PROVE FALSE
      OBVIOUS
    <3>2. rq.size = 1 /\ Padding(p, rq) = 0
      BY <3>1, ObjAllocAssumption DEF Padding, AlignSize
    <3>3. Need(p, rq) = 1
      BY <3>2 DEF Need
    <3>. QED
      BY <1>2, <1>3, <1>5, <3>3 DEF RegionOK
  <2>4. i \in DOMAIN nodes' /\ nodes'[i].size = s => NullMeansFull'
    BY <1>1, <2>1, <2>2, <2>3 DEF NullMeansFull
  <2> HIDE DEF s
  <2>5. CASE Hand(i, rq, s) /\ pc' = "past"
    <3>1. NodesOK' /\ ObjsOK'
      BY <1>1, <2>2, <2>5, HandKeeps DEF IInv
    <3>2. i \in DOMAIN nodes' /\ nodes'[i].size = s
      BY <2>5 DEF Hand, IInv, NodesOK
    <3>. QED
      BY <1>1, <2>4, <2>5, <3>1, <3>2 DEF IInv, LimitsOK
  <2>6. CASE /\ nodes' = [nodes EXCEPT ![i].base = TRUE, ![i].size = s]
             /\ pc' = "assert" /\ objs' = objs
    <3> DEFINE q == [p EXCEPT !.base = TRUE, !.size = s]
    <3>2. nodes' = [nodes EXCEPT ![i] = q]
      BY <2>6 DEF IInv, NodesOK
    <3>3. q \in Node /\ q.base /\ q.size = s /\ q.used = p.used
      <4>1. s \in Nat
        BY <2>2
      <4> HIDE DEF p
      <4>. QED
        BY <1>2, <4>1 DEF Node
    <3> HIDE DEF q
    <3>4. RegionOK(q) /\ Bounded(q)
      BY <1>2, <1>3, <2>2, <3>3 DEF RegionOK, Bounded
    <3>5. nodes' \in [RegionIds -> Node] /\ nodes'[i] = q /\ \A j \in RegionIds : j # i => nodes'[j] = nodes[j]
      BY <3>2, <3>3 DEF IInv, NodesOK
    <3>6. NodesOK'
      <4>1. \A j \in RegionIds : RegionOK(nodes'[j]) /\ Bounded(nodes'[j])
        BY <1>1, <3>4, <3>5 DEF IInv, NodesOK
      <4>. QED
        BY <3>5, <4>1, <1>1 DEF NodesOK, RegionOK, Bounded
    <3>7. \A o \in objs : Inside(o, nodes) => Inside(o, nodes')
      <4>1. ASSUME NEW o \in objs, Inside(o, nodes) PROVE Inside(o, nodes')
        <5>1. o.region \in RegionIds
          BY <4>1 DEF Inside, Object
        <5>2. nodes'[o.region].base /\ nodes'[o.region].used = nodes[o.region].used
          BY <3>3, <3>5, <4>1, <5>1 DEF Inside
        <5>. QED
          BY <4>1, <5>2 DEF Inside
      <4>. QED
        BY <4>1
    <3>8. ObjsOK'
      BY <2>6, <3>7 DEF IInv, ObjsOK, Inside, Apart
    <3>. QED
      BY <1>1, <2>4, <2>6, <3>3, <3>5, <3>6, <3>8 DEF IInv, LimitsOK
  <2>. QED
    BY <2>1, <2>5, <2>6
<1>. QED
  BY <1>4, <1>5

(***************************************************************************)
(* Where the search finds no region, each has memory, and its padding is   *)
(* past the last offset or it is at its limit without room.                *)
(***************************************************************************)
LEMMA NullKeepsIInv ==
  ASSUME IInv, NEW rq \in Requests, AllocateNull(rq)
  PROVE  IInv'
<1>1. /\ pc = "ready" /\ pc' = "null" /\ req' = rq
      /\ UNCHANGED <<nodes, objs, init_size, max_size>>
      /\ \A i \in DOMAIN nodes : ~Usable(nodes[i], rq)
  BY DEF AllocateNull, Begin
<1>2. ASSUME NEW i \in DOMAIN nodes
      PROVE  nodes[i].base /\ max_size - nodes[i].used < Need(nodes[i], rq)
  <2> DEFINE p == nodes[i]
             a == Padding(p, rq)
  <2>1. p \in Node /\ p.used <= p.size /\ p.size <= max_size
        /\ p.used \in Nat /\ p.size \in Nat
    BY <1>1 DEF IInv, NodesOK, RegionOK, Node
  <2>2. max_size \in Nat /\ max_size <= OffsetMax /\ OffsetMax \in Nat
        /\ rq.size \in Nat \ {0} /\ rq.align \in Nat
    BY RequestType, ConstantTypes DEF IInv, LimitsOK
  <2>3. p.base /\ ~(p.used + a < OffsetMax /\ (p.size - p.used >= rq.size + a \/ p.size < max_size))
    BY <1>1 DEF Usable
  <2>4. a \in Nat
    <3>1. AlignSize(p.used, rq.align) \in 0..rq.align
      BY <2>1, <2>2, AlignSizeIs
    <3>. QED
      BY <2>2, <3>1 DEF Padding
  <2>5. Need(p, rq) = rq.size + a
    BY DEF Need
  <2> HIDE DEF a
  <2>. QED
    BY <2>1, <2>2, <2>3, <2>4, <2>5
<1>3. NullMeansFull'
  BY <1>1, <1>2 DEF NullMeansFull, Room, Need, Padding
<1>. QED
  BY <1>1, <1>3 DEF IInv, NodesOK, LimitsOK, ObjsOK, RegionOK, Bounded, Inside, Apart

LEMMA StepKeepsIInv ==
  ASSUME IInv, [Next]_vars
  PROVE  IInv'
<1>1. CASE UNCHANGED vars
  BY <1>1 DEF IInv, NodesOK, LimitsOK, ObjsOK, RegionOK, Bounded, Inside, Apart, NullMeansFull, Room,
              Need, Padding, vars
<1>2. CASE Done
  BY <1>2 DEF IInv, NodesOK, LimitsOK, ObjsOK, RegionOK, Bounded, NullMeansFull, Done
<1>3. ASSUME NEW rq \in Requests, NEW i \in DOMAIN nodes, ReallocFails(i, rq)
      PROVE  IInv'
  BY <1>3 DEF IInv, NodesOK, LimitsOK, ObjsOK, RegionOK, Bounded, Inside, Apart, NullMeansFull,
              ReallocFails, Begin
<1>4. ASSUME NEW rq \in Requests, AllocateNull(rq)
      PROVE  IInv'
  BY <1>4, NullKeepsIInv
<1>5. ASSUME NEW rq \in Requests, NEW i \in DOMAIN nodes,
             AllocateFits(i, rq) \/ AllocateGrow(i, rq)
      PROVE  IInv'
  BY <1>5, DomainIs, FitsKeepsIInv, GrowKeepsIInv DEF IInv
<1>. QED
  BY <1>1, <1>2, <1>3, <1>4, <1>5 DEF Next, Allocate

(***************************************************************************)
(* The invariant is inductive: what a region has handed out stays in its   *)
(* used part, and a grown region is larger than before.                    *)
(***************************************************************************)
THEOREM ObjAllocInvariance == Spec => []IInv
<1>1. Init => IInv
  BY InitIInv
<1>2. IInv /\ [Next]_vars => IInv'
  BY StepKeepsIInv
<1>. QED
  BY <1>1, <1>2, PTL DEF Spec

\* The type invariant holds, with what is asserted of every region at every use.
THEOREM ObjAllocTypeCorrect == Spec => []TypeOK
<1>1. IInv => TypeOK
  <2> SUFFICES ASSUME IInv PROVE TypeOK
    OBVIOUS
  <2>1. \A i \in RegionIds : nodes[i].base \/ nodes[i].used = 0
    BY DEF IInv, NodesOK, Bounded
  <2>. QED
    BY <2>1 DEF IInv, NodesOK, LimitsOK, RegionOK, Bounded, RegionIds, TypeOK
<1>. QED
  BY <1>1, ObjAllocInvariance, PTL

(***************************************************************************)
(* The objects lie in the used part of their regions, aligned, and no two  *)
(* share memory, for any number of regions and any mix of sizes.           *)
(***************************************************************************)
THEOREM RegionObjectsDisjoint == Spec => []ObjectsDisjoint
<1>1. IInv => ObjectsDisjoint
  BY DEF IInv, ObjsOK, Inside, Apart, ObjectsDisjoint
<1>. QED
  BY <1>1, ObjAllocInvariance, PTL

(***************************************************************************)
(* Every number leads to its object, for ever: an offset is never so large *)
(* that it runs into the bits of the region.                               *)
(***************************************************************************)
THEOREM RefsAlwaysLead == Spec => []RefsLead
<1>1. IInv => RefsLead
  <2> SUFFICES ASSUME IInv, NEW o \in objs
               PROVE  DerefHolds(o.ref) /\ Deref(o.ref) = <<o.region, o.off>>
    BY DEF RefsLead
  <2> DEFINE n == OffsetMax + 1
             i == o.region
             r == o.off
  <2>1. /\ i \in Nat /\ i < Regions /\ i \in RegionIds /\ r \in Nat
        /\ nodes[i].base /\ r + o.size <= nodes[i].used /\ o.size \in Nat \ {0}
        /\ o.ref = Ref(i, r) /\ r < OffsetMax
    BY ConstantTypes DEF IInv, ObjsOK, Inside, Object, RegionIds
  <2>2. nodes[i].used \in Nat /\ OffsetMax \in Nat
    BY <2>1, ConstantTypes DEF IInv, NodesOK, Node
  <2>3. r + 1 <= nodes[i].used /\ r + 1 \in 0..(n - 1) /\ n \in Nat \ {0}
    BY <2>1, <2>2
  <2>4. o.ref = n * i + (r + 1)
    BY <2>1, <2>2 DEF Ref
  <2> HIDE DEF n, i, r
  <2>5. o.ref % n = r + 1 /\ o.ref \div n = i
    BY <2>1, <2>3, <2>4, DivModIs
  <2>6. DerefHolds(o.ref)
    BY <2>1, <2>3, <2>5 DEF DerefHolds, n
  <2>7. Deref(o.ref) = <<i, r>>
    BY <2>1, <2>5 DEF Deref, n
  <2>. QED
    BY <2>6, <2>7 DEF i, r
<1>. QED
  BY <1>1, ObjAllocInvariance, PTL

(***************************************************************************)
(* NULL is returned only when no region could hold the object even at its  *)
(* limit; and the allocator stops, or gives memory past a region, only for *)
(* objects of several sizes.                                               *)
(***************************************************************************)
THEOREM NullAlwaysMeansFull == Spec => []NullMeansFull
<1>1. IInv => NullMeansFull
  BY DEF IInv
<1>. QED
  BY <1>1, ObjAllocInvariance, PTL
=============================================================================
