------------------------------- MODULE ObjAlloc -------------------------------
(***************************************************************************)
(* The object allocator of src/src/obj-alloc-impl.h: up to Regions regions *)
(* of memory, each grown by realloc, which hand out objects upwards.  The  *)
(* caller gets a number that says which region an object is in, and where, *)
(* since the regions move.                                                 *)
(*                                                                         *)
(* It is compiled in two forms.  In one (path-trie-impl.h) all objects have*)
(* one size, and sizes and offsets count objects; in the other             *)
(* (lhash-impl.h) they count bytes, and objects have sizes and alignments. *)
(* The first is the second with objects of size 1 and no alignment: where  *)
(* it doubles a region once, the loop of the second ends after one round.  *)
(* Both are compiled with one region, the header allows for sixteen.       *)
(***************************************************************************)
EXTENDS Integers, FiniteSets

CONSTANTS
  Regions,   \* OBJ_ALLOC_NODE_SIZE
  OffsetMax, \* OBJ_ALLOC_OFFSET_MAX: one less than a power of two
  Limits,    \* the pairs <<init_size, max_size>> passed to OBJ_ALLOC_INIT
  Requests,  \* the objects asked for: [size, align]; align 0 in the first form
  MaxObjs    \* bound: the number of objects

ASSUME ObjAllocAssumption ==
  /\ Regions \in Nat \ {0} /\ OffsetMax \in Nat \ {0} /\ MaxObjs \in Nat
  /\ Limits \subseteq (0..OffsetMax) \X (0..OffsetMax)  \* else INVALID_ARG
  /\ \A rq \in Requests : /\ rq.size \in Nat \ {0} /\ rq.align \in 0..(OffsetMax - 1)
                          /\ rq.align = 0 => rq.size = 1

VARIABLES
  nodes,     \* nodes[i]: region i: whether it has memory (base), size, used
  init_size, max_size,
  pc,        \* "ready", or why the program stopped
  req,       \* the last request
  objs       \* for the properties: the objects handed out

vars == <<nodes, init_size, max_size, pc, req, objs>>

Node == [base : BOOLEAN, size : Nat, used : Nat]

None == [size |-> 0, align |-> 0]

Init ==
  \E lim \in Limits :
    /\ max_size = IF lim[2] = 0 THEN OffsetMax ELSE lim[2]
    /\ init_size = IF lim[1] = 0 \/ lim[1] > max_size THEN max_size ELSE lim[1]
    /\ nodes = [i \in 0..(Regions - 1) |-> [base |-> FALSE, size |-> 0, used |-> 0]]
    /\ pc = "ready" /\ req = None /\ objs = {}

\* PTR_ALIGN_SIZE.  realloc returns memory aligned for every type.
AlignSize(offset, align) == IF align = 0 THEN 0 ELSE (align - (offset % align)) % align

\* 'a': for a region to be claimed, what it can be at most.
Padding(p, rq) == IF p.base THEN AlignSize(p.used, rq.align) ELSE rq.align

\* Mutant of Usable: a region that can grow is left for the next one.
UsableNow(p, rq) ==
  LET a == Padding(p, rq)
  IN  ~p.base \/ (p.used + a < OffsetMax /\ p.size - p.used >= rq.size + a)

\* Where the search of OBJ_ALLOC_ALLOCATE stops.
Usable(p, rq) ==
  LET a == Padding(p, rq)
  IN  \/ ~p.base
      \/ /\ p.used + a < OffsetMax
         /\ p.size - p.used >= rq.size + a \/ p.size < max_size

Chosen(i, rq) == /\ Usable(nodes[i], rq)
                 /\ \A j \in 0..(i - 1) : ~Usable(nodes[j], rq)

\* What is taken of the region before it is claimed.
Need(p, rq) == rq.size + Padding(p, rq)

\* How much k doublings make of a size.
TwoTo[k \in Nat] == IF k = 0 THEN 1 ELSE 2 * TwoTo[k - 1]

\* The size after as many doublings as make room for n.
Doubled(p, n) ==
  LET s == IF p.size = 0 THEN init_size ELSE p.size
      fits(k) == s * TwoTo[k] - p.used >= n
  IN  s * TwoTo[CHOOSE k \in 0..(p.used + n) : fits(k) /\ \A j \in 0..(k - 1) : ~fits(j)]

\* Mutant of Grown: the limit is not looked at.
GrownFree(p, n) == Doubled(p, n)

Grown(p, n) == IF Doubled(p, n) > max_size THEN max_size ELSE Doubled(p, n)

\* The padding is computed anew in a claimed region.
Offset(p, rq) == p.used + IF p.base THEN Padding(p, rq) ELSE AlignSize(p.used, rq.align)

\* Mutant of Taken: the padding is not counted.
TakenNoPad(p, rq) == p.used + rq.size

Taken(p, rq) == p.used + Need(p, rq)

\* Mutant of Ref: the first object of the first region has the number 0.
RefZero(i, r) == i * (OffsetMax + 1) + r

\* (i << OBJ_ALLOC_OFFSET_BITS) | (r + 1)
Ref(i, r) == i * (OffsetMax + 1) + r + 1

\* The object of a request, in region i of the given size.
Hand(i, rq, size) ==
  LET p == nodes[i]
      r == Offset(p, rq)
  IN  /\ nodes' = [nodes EXCEPT ![i] = [base |-> TRUE, size |-> size, used |-> Taken(p, rq)]]
      /\ objs' = objs \cup {[ref |-> Ref(i, r), region |-> i, off |-> r,
                             size |-> rq.size, align |-> rq.align]}

\* A program has one form.
Begin(rq) == /\ pc = "ready" /\ Cardinality(objs) < MaxObjs
             /\ req = None \/ (req.align = 0 <=> rq.align = 0)
             /\ req' = rq
             /\ UNCHANGED <<init_size, max_size>>

\* No region: the callers exit.
AllocateNull(rq) == /\ Begin(rq)
                    /\ \A i \in DOMAIN nodes : ~Usable(nodes[i], rq)
                    /\ pc' = "null"
                    /\ UNCHANGED <<nodes, objs>>

AllocateFits(i, rq) == /\ Begin(rq) /\ Chosen(i, rq)
                       /\ nodes[i].size - nodes[i].used >= Need(nodes[i], rq)
                       /\ Hand(i, rq, nodes[i].size)
                       /\ UNCHANGED pc

\* The region is claimed or grown.  If there is no room even so, the program stops
\* at the assertion where it is built with DEBUG; where it is not, the object it
\* gives reaches past the region, and what it does from then on is undefined.
AllocateGrow(i, rq) ==
  LET s == Grown(nodes[i], Need(nodes[i], rq))
  IN  /\ Begin(rq) /\ Chosen(i, rq)
      /\ nodes[i].size - nodes[i].used < Need(nodes[i], rq)
      /\ IF s - nodes[i].used >= Need(nodes[i], rq)
           THEN Hand(i, rq, s) /\ UNCHANGED pc
           ELSE \/ /\ pc' = "assert"
                   /\ nodes' = [nodes EXCEPT ![i].base = TRUE, ![i].size = s]
                   /\ UNCHANGED objs
                \/ Hand(i, rq, s) /\ pc' = "past"

\* realloc fails: ENSURE ends the program.
ReallocFails(i, rq) == /\ Begin(rq) /\ Chosen(i, rq)
                       /\ nodes[i].size - nodes[i].used < Need(nodes[i], rq)
                       /\ pc' = "nomem"
                       /\ UNCHANGED <<nodes, objs>>

\* OBJ_ALLOC_DONE frees the regions.
Done == /\ pc = "ready"
        /\ pc' = "done" /\ objs' = {}
        /\ UNCHANGED <<nodes, init_size, max_size, req>>

Allocate == \E rq \in Requests :
              \/ AllocateNull(rq)
              \/ \E i \in DOMAIN nodes : \/ AllocateFits(i, rq)
                                         \/ AllocateGrow(i, rq)
                                         \/ ReallocFails(i, rq)

Next == Allocate \/ Done

Spec == Init /\ [][Next]_vars
-----------------------------------------------------------------------------
(***************************************************************************)
(* The type invariant, with what OBJ_ALLOC_ASSERT_INVARIANTS asserts of    *)
(* every region at every use.                                              *)
(***************************************************************************)
TypeOK ==
  /\ nodes \in [0..(Regions - 1) -> Node]
  /\ \A i \in DOMAIN nodes : /\ nodes[i].size <= max_size
                             /\ nodes[i].used <= nodes[i].size \/ pc = "past"
                             /\ nodes[i].base \/ nodes[i].used = 0
  /\ max_size \in 1..OffsetMax /\ init_size \in 1..max_size
  /\ pc \in {"ready", "null", "assert", "past", "nomem", "done"}
  /\ req \in Requests \cup {None}

(***************************************************************************)
(* The objects lie in the used part of their regions, aligned, and no two  *)
(* share memory, whatever was claimed, padded and moved in between.        *)
(***************************************************************************)
ObjectsDisjoint ==
  /\ \A o \in objs : /\ o.off + o.size <= nodes[o.region].used
                     /\ AlignSize(o.off, o.align) = 0
  /\ \A o, w \in objs : o # w /\ o.region = w.region =>
       o.off + o.size <= w.off \/ w.off + w.size <= o.off

(***************************************************************************)
(* OBJ_ALLOC_DEREF, where the assertions in it hold: the region and offset *)
(* a number leads to; 0 is NULL.                                           *)
(***************************************************************************)
DerefHolds(ref) ==
  LET o == ref % (OffsetMax + 1)
      i == ref \div (OffsetMax + 1)
  IN  i < Regions /\ o > 0 /\ o <= nodes[i].used /\ nodes[i].base

Deref(ref) == <<ref \div (OffsetMax + 1), (ref % (OffsetMax + 1)) - 1>>

(***************************************************************************)
(* Every number leads to its object, for ever, with no assertion failing:  *)
(* the region and the offset fit in their bits up to the limits.           *)
(***************************************************************************)
RefsLead == \A o \in objs : DerefHolds(o.ref) /\ Deref(o.ref) = <<o.region, o.off>>

(***************************************************************************)
(* The caller is told that there is no memory only when no region could    *)
(* hold the object even at its limit.  And it is always told so, where     *)
(* objects have one size: only with sizes does it happen that a region is  *)
(* grown to its limit in vain, and the caller's check for NULL is too late.*)
(***************************************************************************)
Room(i) == max_size - nodes[i].used

NullMeansFull ==
  /\ pc = "null" => \A i \in DOMAIN nodes :
                      nodes[i].base /\ Room(i) < Need(nodes[i], req)
  /\ pc \in {"assert", "past"} =>
       req.align # 0 /\ \E i \in DOMAIN nodes : nodes[i].size = max_size

=============================================================================
