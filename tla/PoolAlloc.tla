------------------------------ MODULE PoolAlloc ------------------------------
(***************************************************************************)
(* The pool allocator of src/src/pool-alloc.c: a list of pools, the newest *)
(* first, that hand out objects upwards and give nothing back before the   *)
(* end.  Each new pool is twice the size of the one before, up to a limit, *)
(* or as large as the object that needs it.                                *)
(***************************************************************************)
EXTENDS Integers, FiniteSets, Sequences

CONSTANTS
  SizeMax,     \* SIZE_MAX
  Header,      \* the size of pool_alloc_node_t, where its 'pool' begins
  DefaultSize, \* of a first pool: the code has 1024
  Limits,      \* the pairs <<init_size, max_size>> passed to pool_alloc_init
  Requests,    \* the objects asked for: [size, align]
  MaxObjs      \* bound: the number of objects

ASSUME PoolAssumption ==
  /\ SizeMax \in Nat /\ Header \in Nat \ {0} /\ 2 * Header < SizeMax
  /\ DefaultSize \in Nat \ {0} /\ MaxObjs \in Nat
  /\ Limits \subseteq (0..SizeMax) \X (0..SizeMax)
  /\ \A rq \in Requests : rq.size \in 1..SizeMax /\ rq.align \in 1..SizeMax

VARIABLES
  pools,     \* the list from its end: pools[Len(pools)] is alloc->base
  init_size, \* the size of the next pool
  max_size,
  pc,        \* "ready", or why the program stopped
  objs       \* for the properties: the objects handed out

vars == <<pools, init_size, max_size, pc, objs>>

Pool == [size : Nat, used : Nat]

Smaller(a, b) == IF a < b THEN a ELSE b

HalfMax == SizeMax \div 2

Init ==
  \E lim \in Limits :
    /\ max_size = IF lim[2] = 0 \/ lim[2] > HalfMax THEN HalfMax ELSE lim[2]
    /\ init_size = Smaller(IF lim[1] = 0 THEN DefaultSize ELSE lim[1], max_size)
    /\ pools = <<>> /\ pc = "ready" /\ objs = {}

\* PTR_ALIGN_SIZE of the end of the used part.  malloc returns memory aligned
\* for every type.
AlignSize(used, align) == (align - ((Header + used) % align)) % align

Padding(p, rq) == AlignSize(p.used, rq.align)

\* Mutant of HasRoom: the padding is not counted.
HasRoomBare(p, rq) == p.size - p.used >= rq.size

HasRoom(p, rq) == p.size - p.used >= rq.size + Padding(p, rq)

\* Mutant of NewSize: the alignment is not counted.
NewSizeBare(rq) == IF init_size < rq.size THEN rq.size ELSE init_size

\* The size of a pool made for a request.
NewSize(rq) == IF init_size < rq.size + rq.align THEN rq.size + rq.align ELSE init_size

NextSize(n) == Smaller(2 * n, max_size)

Admits(rq) == rq.size + rq.align <= max_size

\* Mutant of Hand: the padding is not skipped in 'used'.
HandShort(ps, i, rq) ==
  LET r == ps[i].used + Padding(ps[i], rq)
  IN  /\ pools' = [ps EXCEPT ![i].used = @ + rq.size]
      /\ objs' = objs \cup {[pool |-> i, off |-> r, size |-> rq.size, align |-> rq.align]}

\* The object, in pool i of ps.
Hand(ps, i, rq) ==
  LET r == ps[i].used + Padding(ps[i], rq)
  IN  /\ pools' = [ps EXCEPT ![i].used = r + rq.size]
      /\ objs' = objs \cup {[pool |-> i, off |-> r, size |-> rq.size, align |-> rq.align]}

Begin(rq) == pc = "ready" /\ Cardinality(objs) < MaxObjs /\ UNCHANGED max_size

\* The arguments are refused: the program exits.
Refused(rq) == /\ Begin(rq)
               /\ rq.size + rq.align > SizeMax \/ ~Admits(rq)
               /\ pc' = "refused"
               /\ UNCHANGED <<pools, init_size, objs>>

Accepted(rq) == rq.size + rq.align <= SizeMax /\ Admits(rq)

\* The newest pool with room.
AllocateFits(i, rq) == /\ Begin(rq) /\ Accepted(rq)
                       /\ HasRoom(pools[i], rq)
                       /\ \A j \in (i + 1)..Len(pools) : ~HasRoom(pools[j], rq)
                       /\ Hand(pools, i, rq)
                       /\ UNCHANGED <<init_size, pc>>

NoRoom(rq) == \A i \in DOMAIN pools : ~HasRoom(pools[i], rq)

\* A new pool.  The program stops where its sizes do not fit a size_t, or where
\* the pool has no room for the object it was made for.
AllocateNew(rq) ==
  LET n == NewSize(rq)
      p == [size |-> n, used |-> 0]
  IN  /\ Begin(rq) /\ Accepted(rq) /\ NoRoom(rq)
      /\ IF n + Header > SizeMax \/ 2 * n > SizeMax
           THEN pc' = "overflow" /\ UNCHANGED <<pools, init_size, objs>>
           ELSE /\ init_size' = NextSize(n)
                /\ IF HasRoom(p, rq)
                     THEN Hand(Append(pools, p), Len(pools) + 1, rq) /\ UNCHANGED pc
                     ELSE pc' = "assert" /\ pools' = Append(pools, p) /\ UNCHANGED objs

\* malloc fails: ENSURE ends the program.
MallocFails(rq) == /\ Begin(rq) /\ Accepted(rq) /\ NoRoom(rq)
                   /\ NewSize(rq) + Header <= SizeMax
                   /\ pc' = "nomem"
                   /\ UNCHANGED <<pools, init_size, objs>>

\* pool_alloc_done frees every pool.
Done == /\ pc = "ready"
        /\ pc' = "done"
        /\ pools' = <<>> /\ objs' = {}
        /\ UNCHANGED <<init_size, max_size>>

Allocate == \E rq \in Requests : \/ Refused(rq)
                                 \/ \E i \in DOMAIN pools : AllocateFits(i, rq)
                                 \/ AllocateNew(rq)
                                 \/ MallocFails(rq)

Next == Allocate \/ Done

Spec == Init /\ [][Next]_vars
-----------------------------------------------------------------------------
(***************************************************************************)
(* The type invariant, with what the macros ASSERT_POOL_ALLOC_INVARIANTS   *)
(* and ASSERT_POOL_ALLOC_NODE_INVARIANTS assert at every use.              *)
(***************************************************************************)
TypeOK ==
  /\ pools \in Seq(Pool)
  /\ \A i \in DOMAIN pools : /\ pools[i].used <= pools[i].size
                             /\ pools[i].size <= max_size
  /\ max_size \in 1..HalfMax /\ init_size \in 1..max_size
  /\ pc \in {"ready", "refused", "overflow", "assert", "nomem", "done"}

(***************************************************************************)
(* The objects lie in the used part of their pools, at addresses of their  *)
(* alignment although the pool's header shifts them, and share no memory.  *)
(***************************************************************************)
ObjectsDisjoint ==
  /\ \A o \in objs : /\ o.off + o.size <= pools[o.pool].used
                     /\ (Header + o.off) % o.align = 0
  /\ \A o, w \in objs : o # w /\ o.pool = w.pool =>
       o.off + o.size <= w.off \/ w.off + w.size <= o.off

(***************************************************************************)
(* What the comment at src/src/pool-alloc.c:133 argues: a new pool has room*)
(* for the object it is made for.  And past the checks of the arguments no *)
(* sum or product overflows.                                               *)
(***************************************************************************)
AssertionsHold == pc \notin {"overflow", "assert"}
=============================================================================
