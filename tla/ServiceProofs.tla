--------------------------- MODULE ServiceProofs -----------------------------
(***************************************************************************)
(* What the structures call on: the pool that the node of an insert comes  *)
(* from, the clocks that time it, and the stack of the printers.  The pool *)
(* allocator, for every limit, header and series of requests, and with no  *)
(* bound on the sizes but SIZE_MAX; the counters of times, for every length*)
(* of a second, any number of inserts, and clocks that are set back at any *)
(* moment; and that the stack is a sequence, for every size, limit, build  *)
(* and element, and for every address a block is moved to.                 *)
(***************************************************************************)
EXTENDS PoolAlloc, Clocks, Stack, NumberLemmas, SequenceTheorems

-----------------------------------------------------------------------------
(***************************************************************************)
(* The pool allocator                                                      *)
(***************************************************************************)
Object == [pool : Nat, off : Nat, size : Nat \ {0}, align : Nat \ {0}]

\* Where an object lies.
Inside(o, ps) == /\ o \in Object /\ o.pool \in DOMAIN ps
                 /\ o.off + o.size <= ps[o.pool].used
                 /\ (Header + o.off) % o.align = 0

Apart(o, w) == o.pool # w.pool \/ o.off + o.size <= w.off \/ w.off + w.size <= o.off

\* Inductive: with the pools, where every object is; and the program stops only
\* where its arguments are refused or malloc fails.
PoolsOK == /\ pools \in Seq(Pool)
           /\ \A i \in DOMAIN pools : pools[i].used <= pools[i].size /\ pools[i].size <= max_size

LimitsOK == max_size \in 1..HalfMax /\ init_size \in 1..max_size

ObjsOK == /\ \A o \in objs : Inside(o, pools)
          /\ \A o, w \in objs : o # w => Apart(o, w)

IInv == /\ PoolsOK /\ LimitsOK /\ ObjsOK
        /\ pc \in {"ready", "refused", "nomem", "done"}

LEMMA HalfMaxIs == /\ HalfMax \in Nat /\ HalfMax >= 1 /\ 2 * HalfMax <= SizeMax
                   /\ HalfMax + Header <= SizeMax
<1>1. /\ SizeMax \in Nat /\ Header \in Nat /\ Header >= 1 /\ 2 * Header < SizeMax
  BY PoolAssumption
<1>2. /\ HalfMax \in Nat /\ SizeMax = 2 * HalfMax + (SizeMax % 2)
      /\ SizeMax % 2 \in 0..1
  BY <1>1, DivModOf DEF HalfMax
<1>. QED
  BY <1>1, <1>2

LEMMA RequestType ==
  ASSUME NEW rq \in Requests
  PROVE  rq.size \in Nat \ {0} /\ rq.align \in Nat \ {0}
BY PoolAssumption

LEMMA PoolAt ==
  ASSUME NEW ps \in Seq(Pool), NEW j \in DOMAIN ps
  PROVE  j \in 1..Len(ps) /\ j \in Nat /\ ps[j] \in Pool /\ ps[j].used \in Nat /\ ps[j].size \in Nat
<1>1. DOMAIN ps = 1..Len(ps) /\ Len(ps) \in Nat
  BY LenProperties
<1>2. ps[j] \in Pool
  BY <1>1, ElementOfSeq
<1>. QED
  BY <1>1, <1>2 DEF Pool

\* PTR_ALIGN_SIZE is less than the alignment, and aligns.
LEMMA AlignSizeIs ==
  ASSUME NEW used \in Nat, NEW align \in Nat \ {0}
  PROVE  /\ AlignSize(used, align) \in 0..(align - 1)
         /\ (Header + (used + AlignSize(used, align))) % align = 0
<1>1. Header \in Nat
  BY PoolAssumption
<1>2. Header + used \in Nat
  BY <1>1
<1>3. /\ AlignSize(used, align) \in 0..(align - 1)
      /\ ((Header + used) + AlignSize(used, align)) % align = 0
  BY <1>2, NextMultiple DEF AlignSize
<1> DEFINE a == AlignSize(used, align)
<1> HIDE DEF a
<1>4. a \in Nat /\ (Header + used) + a = Header + (used + a)
  BY <1>1, <1>3 DEF a
<1>. QED
  BY <1>3, <1>4 DEF a

\* Where there is room, the object and its padding end in the pool.
LEMMA RoomIs ==
  ASSUME NEW p \in Pool, NEW rq \in Requests, p.used <= p.size, HasRoom(p, rq)
  PROVE  LET r == p.used + Padding(p, rq)
         IN  /\ r \in Nat /\ r >= p.used /\ r + rq.size <= p.size
             /\ (Header + r) % rq.align = 0
<1> DEFINE a == AlignSize(p.used, rq.align)
<1>1. p.used \in Nat /\ p.size \in Nat /\ rq.size \in Nat \ {0} /\ rq.align \in Nat \ {0}
  BY RequestType DEF Pool
<1>2. a \in 0..(rq.align - 1) /\ (Header + (p.used + a)) % rq.align = 0
  BY <1>1, AlignSizeIs
<1>3. p.size - p.used >= rq.size + a
  BY DEF HasRoom, Padding
<1> HIDE DEF a
<1>4. a \in Nat
  BY <1>1, <1>2
<1>. QED
  BY <1>1, <1>2, <1>3, <1>4 DEF Padding, a

(***************************************************************************)
(* An object is handed out of pool i of ps, which are the pools with a new *)
(* one at the end, or as they were: it is past all the others of its pool. *)
(***************************************************************************)
LEMMA HandKeeps ==
  ASSUME NEW ps \in Seq(Pool), NEW i \in DOMAIN ps, NEW rq \in Requests,
         \A j \in DOMAIN ps : ps[j].used <= ps[j].size /\ ps[j].size <= max_size,
         \A o \in objs : Inside(o, ps),
         \A o, w \in objs : o # w => Apart(o, w),
         HasRoom(ps[i], rq), Hand(ps, i, rq), max_size' = max_size
  PROVE  PoolsOK' /\ ObjsOK'
<1> DEFINE r == ps[i].used + Padding(ps[i], rq)
           new == [pool |-> i, off |-> r, size |-> rq.size, align |-> rq.align]
<1>1. /\ ps[i] \in Pool /\ i \in Nat /\ ps[i].used <= ps[i].size
      /\ ps[i].used \in Nat /\ ps[i].size \in Nat
      /\ rq.size \in Nat \ {0} /\ rq.align \in Nat \ {0}
  BY RequestType, PoolAt
<1>2. r \in Nat /\ r >= ps[i].used /\ r + rq.size <= ps[i].size /\ (Header + r) % rq.align = 0
  BY <1>1, RoomIs
<1>3. pools' = [ps EXCEPT ![i].used = r + rq.size] /\ objs' = objs \cup {new}
  BY DEF Hand
<1> HIDE DEF r
<1>4. /\ pools' \in Seq(Pool) /\ DOMAIN pools' = DOMAIN ps
      /\ \A j \in DOMAIN ps : j # i => pools'[j] = ps[j]
      /\ pools'[i].used = r + rq.size /\ pools'[i].size = ps[i].size
  <2>1. pools' = [ps EXCEPT ![i] = [ps[i] EXCEPT !.used = r + rq.size]]
    BY <1>3
  <2>2. [ps[i] EXCEPT !.used = r + rq.size] \in Pool
    BY <1>1, <1>2 DEF Pool
  <2>3. [ps[i] EXCEPT !.used = r + rq.size].used = r + rq.size
        /\ [ps[i] EXCEPT !.used = r + rq.size].size = ps[i].size
    BY <1>1 DEF Pool
  <2> DEFINE p == [ps[i] EXCEPT !.used = r + rq.size]
  <2> HIDE DEF p
  <2>4. pools' = [ps EXCEPT ![i] = p] /\ p \in Pool /\ i \in 1..Len(ps)
    BY <2>1, <2>2, PoolAt DEF p
  <2>5. [ps EXCEPT ![i] = p] \in Seq(Pool)
    BY <2>4, ExceptSeq
  <2>6. /\ DOMAIN pools' = DOMAIN ps /\ pools'[i] = p
        /\ \A j \in DOMAIN ps : j # i => pools'[j] = ps[j]
    BY <2>4
  <2>. QED
    BY <2>3, <2>4, <2>5, <2>6 DEF p
<1>5. \A j \in DOMAIN ps : pools'[j].used >= ps[j].used
  <2>1. ASSUME NEW j \in DOMAIN ps PROVE pools'[j].used >= ps[j].used
    <3>1. ps[j].used \in Nat
      BY PoolAt
    <3>2. CASE j = i
      BY <3>1, <3>2, <1>1, <1>2, <1>4
    <3>3. CASE j # i
      BY <3>1, <3>3, <1>4
    <3>. QED
      BY <3>2, <3>3
  <2>. QED
    BY <2>1
<1>6. PoolsOK'
  <2>1. ASSUME NEW j \in DOMAIN ps
        PROVE  pools'[j].used <= pools'[j].size /\ pools'[j].size <= max_size
    <3>1. CASE j = i
      BY <3>1, <1>2, <1>4
    <3>2. CASE j # i
      BY <3>2, <1>4
    <3>. QED
      BY <3>1, <3>2
  <2>. QED
    BY <1>4, <2>1 DEF PoolsOK
<1>7. new \in Object /\ Inside(new, pools')
  <2>1. new \in Object
    BY <1>1, <1>2 DEF Object
  <2>2. new.pool = i /\ new.off = r /\ new.size = rq.size /\ new.align = rq.align
    OBVIOUS
  <2>3. r + rq.size \in Nat /\ r + rq.size <= pools'[i].used
    BY <1>1, <1>2, <1>4
  <2> HIDE DEF new
  <2>. QED
    BY <1>2, <1>4, <2>1, <2>2, <2>3 DEF Inside
<1>8. \A o \in objs : Inside(o, pools')
  <2>1. ASSUME NEW o \in objs PROVE o.off + o.size <= pools'[o.pool].used
    <3>1. o \in Object /\ o.pool \in DOMAIN ps /\ o.off + o.size <= ps[o.pool].used
      BY DEF Inside
    <3>2. pools'[o.pool].used >= ps[o.pool].used
      BY <3>1, <1>5
    <3>3. ps[o.pool].used \in Nat /\ pools'[o.pool].used \in Nat
      BY <3>1, <1>4, PoolAt
    <3>4. o.off + o.size \in Nat
      BY <3>1 DEF Object
    <3>. QED
      BY <3>1, <3>2, <3>3, <3>4
  <2>. QED
    BY <2>1, <1>4 DEF Inside
<1>9. \A o \in objs : Apart(o, new) /\ Apart(new, o)
  <2>1. ASSUME NEW o \in objs, o.pool = i PROVE o.off + o.size <= r
    <3>1. o.off + o.size <= ps[i].used /\ o \in Object
      BY <2>1 DEF Inside
    <3>2. o.off + o.size \in Nat
      BY <3>1 DEF Object
    <3>. QED
      BY <3>1, <3>2, <1>1, <1>2
  <2>2. new.pool = i /\ new.off = r
    OBVIOUS
  <2>. QED
    BY <2>1, <2>2 DEF Apart
<1>10. ObjsOK'
  <2> HIDE DEF new
  <2>1. \A o \in objs' : Inside(o, pools')
    BY <1>3, <1>7, <1>8
  <2>2. \A o, w \in objs' : o # w => Apart(o, w)
    BY <1>3, <1>9
  <2>. QED
    BY <2>1, <2>2 DEF ObjsOK, Inside, Apart
<1>. QED
  BY <1>6, <1>10

LEMMA InitIInv == Init => IInv
<1> SUFFICES ASSUME Init PROVE IInv
  OBVIOUS
<1>1. PICK lim \in Limits :
        /\ max_size = IF lim[2] = 0 \/ lim[2] > HalfMax THEN HalfMax ELSE lim[2]
        /\ init_size = Smaller(IF lim[1] = 0 THEN DefaultSize ELSE lim[1], max_size)
        /\ pools = <<>> /\ pc = "ready" /\ objs = {}
  BY DEF Init
<1>2. lim[1] \in Nat /\ lim[2] \in Nat /\ DefaultSize \in Nat \ {0}
  BY PoolAssumption
<1>3. LimitsOK
  BY <1>1, <1>2, HalfMaxIs DEF LimitsOK, Smaller
<1>. QED
  BY <1>1, <1>3 DEF IInv, PoolsOK, ObjsOK

LEMMA FitsKeepsIInv ==
  ASSUME IInv, NEW rq \in Requests, NEW i \in DOMAIN pools, AllocateFits(i, rq)
  PROVE  IInv'
<1>1. /\ HasRoom(pools[i], rq) /\ Hand(pools, i, rq)
      /\ UNCHANGED <<init_size, max_size, pc>>
  BY DEF AllocateFits, Begin
<1>2. PoolsOK' /\ ObjsOK'
  BY <1>1, HandKeeps DEF IInv, PoolsOK, ObjsOK
<1>. QED
  BY <1>1, <1>2 DEF IInv, LimitsOK

(***************************************************************************)
(* A pool made for a request has room for it, and its size is at most half *)
(* of SIZE_MAX: the branches that overflow or assert are never taken.      *)
(***************************************************************************)
LEMMA NewPoolHasRoom ==
  ASSUME IInv, NEW rq \in Requests, Admits(rq)
  PROVE  /\ NewSize(rq) \in 1..max_size
         /\ ~(NewSize(rq) + Header > SizeMax \/ 2 * NewSize(rq) > SizeMax)
         /\ [size |-> NewSize(rq), used |-> 0] \in Pool
         /\ HasRoom([size |-> NewSize(rq), used |-> 0], rq)
<1>1. /\ rq.size \in Nat \ {0} /\ rq.align \in Nat \ {0} /\ Header \in Nat /\ SizeMax \in Nat
      /\ rq.size + rq.align <= max_size
      /\ HalfMax \in Nat /\ max_size \in 1..HalfMax /\ init_size \in 1..max_size
  BY RequestType, HalfMaxIs, PoolAssumption DEF Admits, IInv, LimitsOK
<1>2. NewSize(rq) \in 1..max_size /\ NewSize(rq) >= rq.size + rq.align
  BY <1>1 DEF NewSize
<1> DEFINE n == NewSize(rq)
           a == AlignSize(0, rq.align)
<1> HIDE DEF n
<1>3. ~(n + Header > SizeMax \/ 2 * n > SizeMax)
  BY <1>1, <1>2, HalfMaxIs DEF n
<1>4. a \in 0..(rq.align - 1)
  BY <1>1, AlignSizeIs
<1> HIDE DEF a
<1>5. n - 0 >= rq.size + a
  BY <1>1, <1>2, <1>4 DEF n
<1>6. HasRoom([size |-> n, used |-> 0], rq)
  BY <1>5 DEF HasRoom, Padding, a
<1>. QED
  BY <1>1, <1>2, <1>3, <1>6 DEF Pool, n

LEMMA NewKeepsIInv ==
  ASSUME IInv, NEW rq \in Requests, AllocateNew(rq)
  PROVE  IInv'
<1> DEFINE n == NewSize(rq)
           p == [size |-> n, used |-> 0]
           ps == Append(pools, p)
<1>1. /\ Admits(rq) /\ max_size' = max_size /\ pc = "ready"
  BY DEF AllocateNew, Accepted, Begin
<1>2. n \in 1..max_size /\ p \in Pool /\ HasRoom(p, rq)
      /\ ~(n + Header > SizeMax \/ 2 * n > SizeMax)
  BY <1>1, NewPoolHasRoom
<1>3. init_size' = NextSize(n) /\ Hand(ps, Len(pools) + 1, rq) /\ pc' = pc
  BY <1>2 DEF AllocateNew
<1>4. max_size \in Nat /\ HalfMax \in Nat /\ max_size \in 1..HalfMax
  BY HalfMaxIs DEF IInv, LimitsOK
<1> HIDE DEF n
<1>5. NextSize(n) \in 1..max_size
  BY <1>2, <1>4 DEF NextSize, Smaller
<1>6. p.used <= p.size /\ p.size <= max_size
  BY <1>2, <1>4
<1> HIDE DEF p
<1>7. /\ ps \in Seq(Pool) /\ Len(ps) = Len(pools) + 1 /\ Len(pools) \in Nat
      /\ ps[Len(pools) + 1] = p
      /\ \A j \in 1..Len(pools) : ps[j] = pools[j]
      /\ DOMAIN ps = 1..(Len(pools) + 1) /\ DOMAIN pools = 1..Len(pools)
  BY <1>2 DEF IInv, PoolsOK
<1> HIDE DEF ps
<1>8. Len(pools) + 1 \in DOMAIN ps
  BY <1>7
<1>9. \A j \in DOMAIN ps : ps[j].used <= ps[j].size /\ ps[j].size <= max_size
  <2>1. \A j \in DOMAIN ps : j \in DOMAIN pools \/ j = Len(pools) + 1
    BY <1>7
  <2>. QED
    BY <1>6, <1>7, <2>1 DEF IInv, PoolsOK
<1>10. \A o \in objs : Inside(o, ps)
  <2>1. \A j \in DOMAIN pools : j \in DOMAIN ps /\ ps[j] = pools[j]
    BY <1>7
  <2>. QED
    BY <2>1 DEF IInv, ObjsOK, Inside
<1>11. PoolsOK' /\ ObjsOK'
  BY <1>1, <1>2, <1>3, <1>7, <1>8, <1>9, <1>10, HandKeeps DEF IInv, ObjsOK
<1>. QED
  BY <1>1, <1>3, <1>4, <1>5, <1>11 DEF IInv, LimitsOK

LEMMA StepKeepsIInv ==
  ASSUME IInv, [Next]_vars
  PROVE  IInv'
<1>1. CASE UNCHANGED vars
  BY <1>1 DEF IInv, PoolsOK, LimitsOK, ObjsOK, Inside, Apart, vars
<1>2. CASE Done
  BY <1>2 DEF IInv, PoolsOK, LimitsOK, ObjsOK, Done
<1>3. ASSUME NEW rq \in Requests, Refused(rq) \/ MallocFails(rq)
      PROVE  IInv'
  BY <1>3 DEF IInv, PoolsOK, LimitsOK, ObjsOK, Inside, Apart, Refused, MallocFails, Begin
<1>4. ASSUME NEW rq \in Requests, NEW i \in DOMAIN pools, AllocateFits(i, rq)
      PROVE  IInv'
  BY <1>4, FitsKeepsIInv
<1>5. ASSUME NEW rq \in Requests, AllocateNew(rq)
      PROVE  IInv'
  BY <1>5, NewKeepsIInv
<1>. QED
  BY <1>1, <1>2, <1>3, <1>4, <1>5 DEF Next, Allocate

(***************************************************************************)
(* The invariant is inductive: an object never loses its place, and a new  *)
(* one is past those that its pool had.                                    *)
(***************************************************************************)
THEOREM PoolInvariance == Spec => []IInv
<1>1. Init => IInv
  BY InitIInv
<1>2. IInv /\ [Next]_vars => IInv'
  BY StepKeepsIInv
<1>. QED
  BY <1>1, <1>2, PTL DEF Spec

\* The type invariant holds, with what the macros assert of every pool.
THEOREM PoolTypeCorrect == Spec => []TypeOK
<1>1. IInv => TypeOK
  BY DEF IInv, PoolsOK, LimitsOK, TypeOK
<1>. QED
  BY <1>1, PoolInvariance, PTL

(***************************************************************************)
(* No two objects share memory, and each is at an address of its           *)
(* alignment, in the used part of its pool, whatever the sizes.            *)
(***************************************************************************)
THEOREM PoolObjectsDisjoint == Spec => []ObjectsDisjoint
<1>1. IInv => ObjectsDisjoint
  BY DEF IInv, ObjsOK, Inside, Apart, ObjectsDisjoint
<1>. QED
  BY <1>1, PoolInvariance, PTL

\* No sum or product of the sizes overflows and no assertion fails.
THEOREM PoolAssertionsHold == Spec => []AssertionsHold
<1>1. IInv => AssertionsHold
  BY DEF IInv, AssertionsHold
<1>. QED
  BY <1>1, PoolInvariance, PTL

-----------------------------------------------------------------------------
(***************************************************************************)
(* The clocks                                                              *)
(***************************************************************************)
Counters == {"insert_time", "rehash_time"}

\* A range of the seconds, in microseconds.
Round == SizeRange * Lim

\* A function that is timed, and what its utime_t has.
Going(f) == doing = "rehash" \/ (doing = "insert" /\ f = "insert_time")
StartOf(f) == IF f = "insert_time" THEN t ELSE u

TypesOK ==
  /\ debug \in BOOLEAN
  /\ now \in [Kinds -> 0..Horizon]
  /\ doing \in {"idle", "insert", "rehash", "printed", "abort"}
  /\ t \in [Kinds -> Time] /\ u \in [Kinds -> Time]
  /\ stats \in [insert_time : [Kinds -> Time], rehash_time : [Kinds -> Time]]
  /\ inserts \in 0..MaxInserts
  /\ begun \in [Counters -> [Kinds -> 0..Horizon]]
  /\ elapsed \in [Counters -> [Kinds -> Int]]
  /\ rehashes \in [done : 0..MaxInserts, here : BOOLEAN]
  /\ back \in 0..MaxBack

\* An insert has one rehash at most.
RehashesOK ==
  /\ rehashes.done <= inserts
  /\ doing \in {"insert", "rehash"} => 1 <= inserts
  /\ doing \in {"insert", "rehash"} /\ ~rehashes.here => rehashes.done < inserts
  /\ doing = "rehash" => ~rehashes.here
  /\ doing = "idle" => ~rehashes.here

\* What a timed function has in its utime_t is when it began.
StartsRight == \A f \in Counters, k \in Kinds :
                 Going(f) => Micros(StartOf(f)[k]) = begun[f][k]

\* The total, and so many microseconds lost, is the time spent, modulo Round.
Close(total, spent, n) ==
  \E lost \in 0..n, q \in Int : Micros(total) + lost = spent + q * Round

CloseInv == doing # "abort" =>
              \A f \in Counters, k \in Kinds :
                Close(stats[f][k], elapsed[f][k], Intervals(f))

\* While no clock is set back, the intervals of a counter are apart, so that
\* they have room in the time that has passed, and nothing is stopped.
InTime == \A f \in Counters, k \in Kinds :
            /\ Micros(stats[f][k]) <= elapsed[f][k]
            /\ elapsed[f][k] <= now[k]
            /\ Going(f) => elapsed[f][k] <= begun[f][k] /\ begun[f][k] <= now[k]

NotBack == back = 0 => InTime /\ (Horizon < SizeRange => doing # "abort")

ClocksInv == TypesOK /\ RehashesOK /\ StartsRight /\ CloseInv /\ NotBack

-----------------------------------------------------------------------------
LEMMA LimIs == Lim \in Nat /\ Lim >= 2 /\ SizeRange \in Nat /\ SizeRange >= 1
               /\ MaxUsecs = Lim - 1
BY LimAssumption, BoundsAssumption DEF MaxUsecs

LEMMA MicrosType ==
  ASSUME NEW a \in Time
  PROVE  /\ a.secs \in Nat /\ a.usecs \in Nat /\ a.secs < SizeRange /\ a.usecs < Lim
         /\ a.secs * Lim \in Nat /\ Micros(a) = a.secs * Lim + a.usecs /\ Micros(a) \in Nat
<1>1. a.secs \in Nat /\ a.usecs \in Nat /\ a.secs < SizeRange /\ a.usecs < Lim
  BY LimIs DEF Time
<1>2. a.secs * Lim \in Nat
  BY <1>1, LimIs
<1>. QED
  BY <1>1, <1>2 DEF Micros

\* Seconds that wrap around lose a number of Rounds.
LEMMA Wraps ==
  ASSUME NEW s \in Int
  PROVE  \E q \in Int : /\ s % SizeRange \in 0..(SizeRange - 1)
                        /\ (s % SizeRange) * Lim = s * Lim + q * Round
                        /\ s \in 0..(SizeRange - 1) => s % SizeRange = s
<1> DEFINE d == s \div SizeRange
           r == s % SizeRange
<1>1. d \in Int /\ r \in 0..(SizeRange - 1) /\ s = SizeRange * d + r
      /\ (s \in 0..(SizeRange - 1) => r = s)
  BY LimIs, SMT
<1> HIDE DEF d, r
<1>2. r = s + (0 - d) * SizeRange /\ 0 - d \in Int
  BY <1>1, LimIs
<1> DEFINE q == 0 - d
<1>3. q \in Int /\ r = s + q * SizeRange
  BY <1>2
<1> HIDE DEF q
<1>4. r * Lim = s * Lim + (q * SizeRange) * Lim /\ (q * SizeRange) * Lim = q * Round
  BY <1>3, <1>1, LimIs DEF Round
<1>. QED
  BY <1>1, <1>3, <1>4 DEF r

LEMMA RoundIs == Round \in Nat /\ Round >= 1
BY LimIs DEF Round

\* A reading is in normal form, and it is what the clock shows.
LEMMA ReadingIs ==
  ASSUME now \in [Kinds -> 0..Horizon], NEW k \in Kinds, NEW r \in Readings(k)
  PROVE  r \in Time /\ Micros(r) = now[k]
<1>1. PICK tv \in Timevals(now[k]) : r = TimeInit(tv)
  BY DEF Readings
<1>2. now[k] \in Nat /\ now[k] < Round
  BY BoundsAssumption, RoundIs DEF Round
<1>3. /\ tv.secs \in Nat /\ tv.usecs \in Nat /\ tv.usecs < 2 * Lim
      /\ tv.secs * Lim + tv.usecs = now[k]
  BY <1>1, LimIs DEF Timevals, Micros
<1> DEFINE q == tv.usecs \div Lim
           p == tv.usecs % Lim
<1>4. q \in Nat /\ p \in 0..(Lim - 1) /\ tv.usecs = Lim * q + p
  <2>1. Lim \in Nat \ {0} /\ tv.usecs \in Nat
    BY <1>3, LimIs
  <2>. QED
    BY <2>1, DivModOf
<1>5. r = [secs |-> tv.secs + q, usecs |-> p]
  BY <1>1 DEF TimeInit
<1> HIDE DEF q, p
<1> DEFINE s == tv.secs + q
<1>6. s \in Nat /\ s * Lim = tv.secs * Lim + Lim * q
  BY <1>3, <1>4, LimIs
<1>7. s * Lim + p = now[k]
  BY <1>3, <1>4, <1>6, LimIs
<1>8. s < SizeRange
  <2> SUFFICES ASSUME SizeRange <= s PROVE FALSE
    BY <1>6, LimIs
  <2>1. SizeRange * Lim <= s * Lim
    BY <1>6, LimIs, TimesGrows
  <2>. QED
    BY <2>1, <1>7, <1>2, <1>4, <1>6, LimIs DEF Round
<1>. QED
  BY <1>4, <1>5, <1>6, <1>7, <1>8, LimIs DEF Time, Micros

LEMMA UtimeIs ==
  ASSUME now \in [Kinds -> 0..Horizon], NEW f \in Utimes
  PROVE  f \in [Kinds -> Time] /\ \A k \in Kinds : Micros(f[k]) = now[k]
<1>1. \A k \in Kinds : f[k] \in Readings(k)
  BY DEF Utimes
<1>2. DOMAIN f = Kinds /\ f = [k \in Kinds |-> f[k]]
  BY DEF Utimes
<1>3. \A k \in Kinds : f[k] \in Time /\ Micros(f[k]) = now[k]
  BY <1>1, ReadingIs
<1>. QED
  BY <1>2, <1>3

\* What is not before has its seconds: the assertion of clocks_time_sub.
LEMMA OrderHolds ==
  ASSUME NEW a \in Time, NEW b \in Time, Micros(b) <= Micros(a)
  PROVE  SubHolds(a, b)
<1>1. /\ a.secs * Lim + a.usecs >= b.secs * Lim + b.usecs
      /\ a.secs \in Nat /\ b.secs \in Nat /\ a.usecs \in Nat /\ b.usecs \in Nat
      /\ a.usecs < Lim /\ b.usecs < Lim /\ a.secs * Lim \in Nat /\ b.secs * Lim \in Nat
  BY MicrosType
<1>2. CASE a.secs < b.secs
  <2>1. (a.secs + 1) * Lim <= b.secs * Lim
    BY <1>1, <1>2, LimIs, TimesGrows
  <2>2. (a.secs + 1) * Lim = a.secs * Lim + Lim
    BY <1>1, LimIs
  <2>. QED
    BY <1>1, <2>1, <2>2, LimIs
<1>3. CASE a.secs = b.secs
  <2>1. b.usecs <= a.usecs
    BY <1>1, <1>3
  <2>. QED
    BY <1>1, <1>3, <2>1 DEF SubHolds, Borrow
<1>4. CASE a.secs > b.secs
  BY <1>1, <1>4 DEF SubHolds, Borrow
<1>. QED
  BY <1>1, <1>2, <1>3, <1>4

\* A difference is in normal form, and a microsecond short if it borrows.
LEMMA SubIs ==
  ASSUME NEW a \in Time, NEW b \in Time
  PROVE  /\ TimeSub(a, b) \in Time
         /\ \E q \in Int : Micros(TimeSub(a, b)) = Micros(a) - Micros(b) - Borrow(a, b)
                                                   + q * Round
         /\ SubHolds(a, b) =>
              Micros(TimeSub(a, b)) = Micros(a) - Micros(b) - Borrow(a, b)
<1> DEFINE w == Borrow(a, b)
           s == a.secs - b.secs - w
           r == s % SizeRange
           v == a.usecs + w * MaxUsecs - b.usecs
<1>1. /\ Micros(a) = a.secs * Lim + a.usecs /\ Micros(b) = b.secs * Lim + b.usecs
      /\ a.secs \in Nat /\ b.secs \in Nat /\ a.usecs \in Nat /\ b.usecs \in Nat
      /\ a.usecs < Lim /\ b.usecs < Lim /\ a.secs * Lim \in Nat /\ b.secs * Lim \in Nat
      /\ a.secs < SizeRange
  BY MicrosType
<1>2. /\ w \in {0, 1} /\ v \in 0..(Lim - 1)
      /\ v = a.usecs - b.usecs + w * Lim - w
      /\ SubHolds(a, b) => a.secs >= b.secs + w
  <2>1. CASE a.usecs < b.usecs
    <3>1. w = 1
      BY <2>1 DEF Borrow
    <3>. HIDE DEF w
    <3>2. w * MaxUsecs = Lim - 1 /\ w * Lim = Lim
      BY <3>1, LimIs
    <3>3. SubHolds(a, b) => a.secs >= b.secs + w
      BY DEF SubHolds, w
    <3>. QED
      BY <1>1, <2>1, <3>1, <3>2, <3>3, LimIs
  <2>2. CASE ~(a.usecs < b.usecs)
    <3>1. w = 0
      BY <2>2 DEF Borrow
    <3>. HIDE DEF w
    <3>2. w * MaxUsecs = 0 /\ w * Lim = 0
      BY <3>1, LimIs
    <3>3. SubHolds(a, b) => a.secs >= b.secs + w
      BY DEF SubHolds, w
    <3>. QED
      BY <1>1, <2>2, <3>1, <3>2, <3>3, LimIs
  <2>. QED
    BY <2>1, <2>2
<1> HIDE DEF w
<1>3. s \in Int /\ s * Lim = a.secs * Lim - b.secs * Lim - w * Lim
  <2>1. (a.secs - b.secs) * Lim = a.secs * Lim - b.secs * Lim /\ a.secs - b.secs \in Int
    BY <1>1, LimIs
  <2> DEFINE x == a.secs - b.secs
  <2>2. s = x - w /\ x \in Int /\ w \in Int
    BY <1>1, <1>2
  <2>. HIDE DEF s, x
  <2>3. (x - w) * Lim = x * Lim - w * Lim
    BY <2>2, LimIs
  <2>4. s \in Int /\ s * Lim = x * Lim - w * Lim
    BY <2>2, <2>3
  <2>. QED
    BY <2>1, <2>4 DEF x
<1> HIDE DEF v
<1>4. SubHolds(a, b) => s \in 0..(SizeRange - 1)
  BY <1>1, <1>2, LimIs
<1> HIDE DEF s
<1>5. PICK q \in Int : /\ r \in 0..(SizeRange - 1)
                       /\ r * Lim = s * Lim + q * Round
                       /\ s \in 0..(SizeRange - 1) => r = s
  BY <1>3, Wraps
<1> HIDE DEF r
<1>6. TimeSub(a, b) = [secs |-> r, usecs |-> v]
  BY DEF TimeSub, r, s, v, w
<1>7. TimeSub(a, b) \in Time /\ Micros(TimeSub(a, b)) = r * Lim + v
  BY <1>2, <1>5, <1>6, LimIs DEF Time, Micros, MaxUsecs
<1>8. q * Round \in Int /\ w * Lim \in Int /\ r * Lim \in Int
  BY <1>2, <1>5, LimIs, RoundIs
<1>9. Micros(TimeSub(a, b)) = Micros(a) - Micros(b) - w + q * Round
  BY <1>1, <1>2, <1>3, <1>5, <1>7, <1>8
<1>10. SubHolds(a, b) => Micros(TimeSub(a, b)) = Micros(a) - Micros(b) - w
  BY <1>1, <1>2, <1>3, <1>4, <1>5, <1>7, <1>8
<1>. QED
  BY <1>7, <1>9, <1>10 DEF w

\* A sum is in normal form, and exact where no second wraps around.
LEMMA AddIs ==
  ASSUME NEW a \in Time, NEW b \in Time
  PROVE  /\ TimeAdd(a, b) \in Time
         /\ \E q \in Int : Micros(TimeAdd(a, b)) = Micros(a) + Micros(b) + q * Round
         /\ AddHolds(a, b) => Micros(TimeAdd(a, b)) = Micros(a) + Micros(b)
         /\ Micros(a) + Micros(b) < Round => AddHolds(a, b)
<1> DEFINE w == Carry(a, b)
           s == a.secs + b.secs + w
           r == s % SizeRange
           v == a.usecs + b.usecs - w * Lim
<1>1. /\ Micros(a) = a.secs * Lim + a.usecs /\ Micros(b) = b.secs * Lim + b.usecs
      /\ a.secs \in Nat /\ b.secs \in Nat /\ a.usecs \in Nat /\ b.usecs \in Nat
      /\ a.usecs < Lim /\ b.usecs < Lim /\ a.secs * Lim \in Nat /\ b.secs * Lim \in Nat
  BY MicrosType
<1>2. /\ w \in {0, 1} /\ v \in 0..(Lim - 1)
  BY <1>1, LimIs DEF Carry
<1> HIDE DEF w
<1>3. s \in Nat /\ s * Lim = a.secs * Lim + b.secs * Lim + w * Lim /\ w * Lim \in Nat
  <2>1. (a.secs + b.secs) * Lim = a.secs * Lim + b.secs * Lim /\ a.secs + b.secs \in Nat
    BY <1>1, LimIs
  <2>2. s * Lim = (a.secs + b.secs) * Lim + w * Lim /\ s \in Nat
    BY <1>1, <1>2, <2>1, LimIs
  <2>3. w * Lim \in Nat
    BY <1>2, LimIs
  <2>. QED
    BY <2>1, <2>2, <2>3
<1>4. AddHolds(a, b) <=> s < SizeRange
  BY DEF AddHolds, w
<1>5. v = a.usecs + b.usecs - w * Lim
  OBVIOUS
<1> HIDE DEF s, v
<1>6. PICK q \in Int : /\ r \in 0..(SizeRange - 1)
                       /\ r * Lim = s * Lim + q * Round
                       /\ s \in 0..(SizeRange - 1) => r = s
  BY <1>3, Wraps
<1> HIDE DEF r
<1>7. TimeAdd(a, b) = [secs |-> r, usecs |-> v]
  BY DEF TimeAdd, r, s, v, w
<1>8. TimeAdd(a, b) \in Time /\ Micros(TimeAdd(a, b)) = r * Lim + v
  BY <1>2, <1>6, <1>7, LimIs DEF Time, Micros, MaxUsecs
<1>9. q * Round \in Int /\ r * Lim \in Int /\ s * Lim \in Int
  BY <1>3, <1>6, LimIs, RoundIs
<1>10. Micros(TimeAdd(a, b)) = Micros(a) + Micros(b) + q * Round
  BY <1>1, <1>2, <1>3, <1>5, <1>6, <1>8, <1>9
<1>11. s * Lim + v = Micros(a) + Micros(b)
  <2> DEFINE x == a.secs * Lim
             y == b.secs * Lim
             z == w * Lim
  <2>1. x \in Nat /\ y \in Nat /\ z \in Nat /\ v \in Nat
    BY <1>1, <1>2, <1>3
  <2>2. /\ s * Lim = x + y + z /\ v = a.usecs + b.usecs - z
        /\ Micros(a) = x + a.usecs /\ Micros(b) = y + b.usecs
    BY <1>1, <1>3, <1>5
  <2> HIDE DEF x, y, z
  <2>. QED
    BY <1>1, <2>1, <2>2
<1>12. AddHolds(a, b) => Micros(TimeAdd(a, b)) = Micros(a) + Micros(b)
  BY <1>3, <1>4, <1>6, <1>8, <1>11, LimIs
<1>13. ASSUME Micros(a) + Micros(b) < Round PROVE s < SizeRange
  <2> SUFFICES ASSUME SizeRange <= s PROVE FALSE
    BY <1>3, LimIs
  <2>1. SizeRange * Lim <= s * Lim
    BY <1>3, LimIs, TimesGrows
  <2>. QED
    BY <2>1, <1>2, <1>9, <1>11, <1>13, RoundIs, LimIs DEF Round
<1>. QED
  BY <1>4, <1>8, <1>10, <1>12, <1>13

-----------------------------------------------------------------------------
\* What one clock makes of an interval: the total after it.
Total(a, e, b) == TimeAdd(a, TimeSub(e, b))

LEMMA TotalIs ==
  ASSUME NEW a \in Time, NEW e \in Time, NEW b \in Time, NEW spent \in Int, NEW n \in Nat,
         Close(a, spent, n)
  PROVE  /\ Total(a, e, b) \in Time
         /\ Close(Total(a, e, b), spent + Micros(e) - Micros(b), n + 1)
<1> DEFINE d == TimeSub(e, b)
           z == TimeAdd(a, d)
           w == Borrow(e, b)
<1>1. PICK lost \in 0..n, q0 \in Int : Micros(a) + lost = spent + q0 * Round
  BY DEF Close
<1>2. d \in Time /\ \E q \in Int : Micros(d) = Micros(e) - Micros(b) - w + q * Round
  BY SubIs
<1>3. PICK q1 \in Int : Micros(d) = Micros(e) - Micros(b) - w + q1 * Round
  BY <1>2
<1> HIDE DEF d
<1>4. z \in Time /\ \E q \in Int : Micros(z) = Micros(a) + Micros(d) + q * Round
  BY <1>2, AddIs
<1>5. PICK q2 \in Int : Micros(z) = Micros(a) + Micros(d) + q2 * Round
  BY <1>4
<1>6. w \in {0, 1}
  BY DEF Borrow
<1> HIDE DEF z, w
<1>7. /\ Micros(a) \in Nat /\ Micros(b) \in Nat /\ Micros(e) \in Nat /\ Micros(d) \in Nat
      /\ Micros(z) \in Nat
  BY <1>2, <1>4, MicrosType
<1> DEFINE q == q0 + q1 + q2
           x == q0 * Round
           y == q1 * Round
           v == q2 * Round
<1>8. q \in Int /\ q * Round = x + y + v /\ x \in Int /\ y \in Int /\ v \in Int
  BY RoundIs
<1>9. lost + w \in 0..(n + 1)
  BY <1>6
<1>10. /\ Micros(a) + lost = spent + x
       /\ Micros(d) = Micros(e) - Micros(b) - w + y
       /\ Micros(z) = Micros(a) + Micros(d) + v
  BY <1>1, <1>3, <1>5
<1> HIDE DEF x, y, v, q
<1>11. Micros(z) + (lost + w) = (spent + Micros(e) - Micros(b)) + q * Round
  BY <1>6, <1>7, <1>8, <1>10
<1>12. Close(z, spent + Micros(e) - Micros(b), n + 1)
  BY <1>8, <1>9, <1>11 DEF Close
<1>. QED
  BY <1>4, <1>12 DEF Total, z, d

\* The same where the clock was not set back, and time enough has passed.
LEMMA TotalInTime ==
  ASSUME NEW a \in Time, NEW e \in Time, NEW b \in Time, NEW spent \in Int,
         Micros(a) <= spent, spent <= Micros(b), Micros(b) <= Micros(e),
         Micros(e) <= Horizon
  PROVE  /\ SubHolds(e, b) /\ AddHolds(a, TimeSub(e, b))
         /\ Micros(Total(a, e, b)) <= spent + Micros(e) - Micros(b)
<1> DEFINE d == TimeSub(e, b)
<1>1. SubHolds(e, b)
  BY OrderHolds
<1>2. d \in Time /\ Micros(d) = Micros(e) - Micros(b) - Borrow(e, b)
  BY <1>1, SubIs
<1>3. Borrow(e, b) \in {0, 1}
  BY DEF Borrow
<1> HIDE DEF d
<1>4. /\ Micros(a) \in Nat /\ Micros(b) \in Nat /\ Micros(e) \in Nat /\ Micros(d) \in Nat
  BY <1>2, MicrosType
<1>5. Micros(a) + Micros(d) <= spent + Micros(e) - Micros(b)
  BY <1>2, <1>3, <1>4
<1>6. Micros(a) + Micros(d) < Round
  <2>1. Horizon \in Nat /\ Horizon < Round
    BY BoundsAssumption DEF Round
  <2>. QED
    BY <1>4, <1>5, <2>1, RoundIs
<1>7. AddHolds(a, d) /\ Micros(TimeAdd(a, d)) = Micros(a) + Micros(d)
  BY <1>2, <1>6, AddIs
<1>. QED
  BY <1>1, <1>5, <1>7 DEF Total, d

LEMMA IntervalsType ==
  ASSUME ClocksInv, NEW f \in Counters, doing \in {"idle", "printed", "insert", "rehash"}
  PROVE  Intervals(f) \in Nat
<1>1. inserts \in Nat /\ rehashes.done \in Nat
      /\ (doing \in {"insert", "rehash"} => 1 <= inserts)
  BY BoundsAssumption DEF ClocksInv, TypesOK, RehashesOK
<1>. QED
  BY <1>1 DEF Intervals

LEMMA StatsType ==
  ASSUME ClocksInv
  PROVE  /\ DOMAIN stats = Counters
         /\ \A f \in Counters : stats[f] \in [Kinds -> Time]
         /\ \A f \in Counters : begun[f] \in [Kinds -> 0..Horizon]
         /\ \A f \in Counters : elapsed[f] \in [Kinds -> Int]
         /\ \A f \in Counters : StartOf(f) \in [Kinds -> Time]
BY DEF ClocksInv, TypesOK, Counters, StartOf

\* What the measure of an interval does to the counters.
Measured(f, next) ==
  /\ doing' = next
  /\ stats' \in [insert_time : [Kinds -> Time], rehash_time : [Kinds -> Time]]
  /\ elapsed' \in [Counters -> [Kinds -> Int]]
  /\ \A g \in Counters \ {f} : stats'[g] = stats[g] /\ elapsed'[g] = elapsed[g]
  /\ \A k \in Kinds : Close(stats'[f][k], elapsed'[f][k], Intervals(f) + 1)
  /\ back = 0 => \A k \in Kinds : /\ Micros(stats'[f][k]) <= elapsed'[f][k]
                                  /\ elapsed'[f][k] <= now[k]

LEMMA MeasureIs ==
  ASSUME ClocksInv, NEW f \in Counters, Going(f), NEW next, Measure(f, StartOf(f), next)
  PROVE  \/ doing' = "abort" /\ UNCHANGED <<stats, elapsed>> /\ back # 0
         \/ Measured(f, next)
<1> DEFINE start == StartOf(f)
<1>1. PICK stop \in Utimes :
        LET d == UtimeClocks(stop, start)
        IN IF debug => \A k \in Kinds : /\ SubHolds(stop[k], start[k])
                                        /\ AddHolds(stats[f][k], d[k])
           THEN /\ stats' = [stats EXCEPT ![f] = ClocksAdd(@, d)]
                /\ elapsed' = [elapsed EXCEPT
                                 ![f] = [k \in Kinds |-> @[k] + now[k] - begun[f][k]]]
                /\ doing' = next
           ELSE doing' = "abort" /\ UNCHANGED <<stats, elapsed>>
  BY DEF Measure
<1>2. now \in [Kinds -> 0..Horizon]
  BY DEF ClocksInv, TypesOK
<1>3. stop \in [Kinds -> Time] /\ \A k \in Kinds : Micros(stop[k]) = now[k]
  BY <1>2, UtimeIs
<1>4. start \in [Kinds -> Time] /\ stats[f] \in [Kinds -> Time]
      /\ begun[f] \in [Kinds -> 0..Horizon] /\ elapsed[f] \in [Kinds -> Int]
  BY StatsType
<1>5. \A k \in Kinds : Micros(start[k]) = begun[f][k]
  BY DEF ClocksInv, StartsRight
<1> HIDE DEF start
<1> DEFINE d == UtimeClocks(stop, start)
           total == [k \in Kinds |-> Total(stats[f][k], stop[k], start[k])]
           spent == [k \in Kinds |-> elapsed[f][k] + now[k] - begun[f][k]]
<1>6. \A k \in Kinds : d[k] = TimeSub(stop[k], start[k])
  BY DEF UtimeClocks
<1>7. ClocksAdd(stats[f], d) = total
  BY <1>6 DEF ClocksAdd, Total
<1>8. doing \in {"insert", "rehash"}
  BY DEF Going
<1>9. Intervals(f) \in Nat
  BY <1>8, IntervalsType
<1>10. ASSUME NEW k \in Kinds
       PROVE  total[k] \in Time /\ Close(total[k], spent[k], Intervals(f) + 1)
  <2>1. Close(stats[f][k], elapsed[f][k], Intervals(f))
    BY <1>8 DEF ClocksInv, CloseInv
  <2>2. stats[f][k] \in Time /\ stop[k] \in Time /\ start[k] \in Time /\ elapsed[f][k] \in Int
    BY <1>3, <1>4
  <2>3. /\ Total(stats[f][k], stop[k], start[k]) \in Time
        /\ Close(Total(stats[f][k], stop[k], start[k]),
                 elapsed[f][k] + Micros(stop[k]) - Micros(start[k]), Intervals(f) + 1)
    BY <2>1, <2>2, <1>9, TotalIs
  <2>. QED
    BY <2>3, <1>3, <1>5
<1>11. ASSUME back = 0, NEW k \in Kinds
       PROVE  /\ SubHolds(stop[k], start[k]) /\ AddHolds(stats[f][k], d[k])
              /\ Micros(total[k]) <= spent[k] /\ spent[k] <= now[k]
  <2>1. /\ Micros(stats[f][k]) <= elapsed[f][k] /\ elapsed[f][k] <= begun[f][k]
        /\ begun[f][k] <= now[k]
    BY <1>11 DEF ClocksInv, NotBack, InTime
  <2>2. stats[f][k] \in Time /\ stop[k] \in Time /\ start[k] \in Time /\ elapsed[f][k] \in Int
        /\ now[k] \in 0..Horizon /\ begun[f][k] \in 0..Horizon
    BY <1>2, <1>3, <1>4
  <2>3. Micros(stop[k]) = now[k] /\ Micros(start[k]) = begun[f][k] /\ Micros(stop[k]) <= Horizon
    BY <1>3, <1>5, <2>2, BoundsAssumption
  <2>4. /\ SubHolds(stop[k], start[k]) /\ AddHolds(stats[f][k], TimeSub(stop[k], start[k]))
        /\ Micros(Total(stats[f][k], stop[k], start[k]))
             <= elapsed[f][k] + Micros(stop[k]) - Micros(start[k])
    <3>1. /\ Micros(stats[f][k]) <= elapsed[f][k] /\ elapsed[f][k] <= Micros(start[k])
          /\ Micros(start[k]) <= Micros(stop[k])
      BY <2>1, <2>3
    <3>. QED
      BY <3>1, <2>2, <2>3, TotalInTime
  <2>5. elapsed[f][k] + now[k] - begun[f][k] <= now[k]
    BY <2>1, <2>2, BoundsAssumption
  <2>. QED
    BY <2>3, <2>4, <2>5, <1>6
<1> HIDE DEF d
<1>12. CASE debug => \A k \in Kinds : SubHolds(stop[k], start[k]) /\ AddHolds(stats[f][k], d[k])
  <2>1. /\ stats' = [stats EXCEPT ![f] = total]
        /\ elapsed' = [elapsed EXCEPT ![f] = spent]
        /\ doing' = next
    <3>1. /\ stats' = [stats EXCEPT ![f] = ClocksAdd(@, d)]
          /\ elapsed' = [elapsed EXCEPT ![f] = [k \in Kinds |-> @[k] + now[k] - begun[f][k]]]
          /\ doing' = next
      BY <1>1, <1>12 DEF d
    <3>. QED
      BY <3>1, <1>7
  <2>2. total \in [Kinds -> Time] /\ spent \in [Kinds -> Int]
    <3>1. \A k \in Kinds : spent[k] \in Int
      <4>. TAKE k \in Kinds
      <4>1. elapsed[f][k] \in Int /\ now[k] \in Int /\ begun[f][k] \in Int
        BY <1>2, <1>4, BoundsAssumption
      <4>. QED
        BY <4>1
    <3>2. \A k \in Kinds : total[k] \in Time
      BY <1>10
    <3>. QED
      BY <3>1, <3>2
  <2> HIDE DEF total, spent
  <2>3. /\ stats \in [insert_time : [Kinds -> Time], rehash_time : [Kinds -> Time]]
        /\ elapsed \in [Counters -> [Kinds -> Int]]
    BY DEF ClocksInv, TypesOK
  <2>4. /\ stats' \in [insert_time : [Kinds -> Time], rehash_time : [Kinds -> Time]]
        /\ stats'[f] = total
        /\ \A g \in Counters \ {f} : stats'[g] = stats[g]
    <3>1. CASE f = "insert_time"
      BY <2>1, <2>2, <2>3, <3>1 DEF Counters
    <3>2. CASE f = "rehash_time"
      BY <2>1, <2>2, <2>3, <3>2 DEF Counters
    <3>. QED
      BY <3>1, <3>2 DEF Counters
  <2>5. /\ elapsed' \in [Counters -> [Kinds -> Int]]
        /\ elapsed'[f] = spent
        /\ \A g \in Counters \ {f} : elapsed'[g] = elapsed[g]
    BY <2>1, <2>2, <2>3
  <2>. QED
    BY <2>1, <2>4, <2>5, <1>10, <1>11 DEF Measured
<1>13. CASE ~(debug => \A k \in Kinds : SubHolds(stop[k], start[k]) /\ AddHolds(stats[f][k], d[k]))
  <2>1. doing' = "abort" /\ UNCHANGED <<stats, elapsed>>
    BY <1>1, <1>13 DEF d
  <2>2. back # 0
    BY <1>11, <1>13
  <2>. QED
    BY <2>1, <2>2
<1>. QED
  BY <1>12, <1>13

-----------------------------------------------------------------------------
LEMMA ClocksStart == ClocksInit => ClocksInv
<1> SUFFICES ASSUME ClocksInit PROVE ClocksInv
  OBVIOUS
<1>1. Zero \in Time /\ Micros(Zero) = 0
  BY LimIs DEF Zero, Time, Micros, MaxUsecs
<1>2. NoTime \in [Kinds -> Time] /\ \A k \in Kinds : Micros(NoTime[k]) = 0
  BY <1>1 DEF NoTime
<1>3. now \in [Kinds -> 0..Horizon]
  BY DEF ClocksInit
<1>4. TypesOK
  BY <1>2, <1>3, BoundsAssumption DEF ClocksInit, TypesOK, Counters
<1>5. RehashesOK
  BY DEF ClocksInit, RehashesOK
<1>6. StartsRight
  BY DEF ClocksInit, StartsRight, Going
<1>7. \A f \in Counters, k \in Kinds : Micros(stats[f][k]) = 0 /\ elapsed[f][k] = 0
  BY <1>2 DEF ClocksInit, Counters
<1>8. CloseInv
  <2>1. ASSUME NEW f \in Counters, NEW k \in Kinds
        PROVE  Close(stats[f][k], elapsed[f][k], Intervals(f))
    <3>1. Micros(stats[f][k]) + 0 = elapsed[f][k] + 0 * Round
      BY <1>7, RoundIs
    <3>2. 0 \in 0..Intervals(f) /\ 0 \in Int
      BY DEF Intervals, ClocksInit
    <3>. QED
      BY <3>1, <3>2 DEF Close
  <2>. QED
    BY <2>1 DEF CloseInv
<1>9. NotBack
  <2>1. doing = "idle"
    BY DEF ClocksInit
  <2>2. \A k \in Kinds : 0 <= now[k]
    BY <1>3, BoundsAssumption
  <2>. QED
    BY <1>7, <2>1, <2>2 DEF NotBack, InTime, Going
<1>. QED
  BY <1>4, <1>5, <1>6, <1>8, <1>9 DEF ClocksInv

\* Time passes, or a clock is set back: the program is where it was.
LEMMA StepEnv ==
  ASSUME ClocksInv, Tick \/ SetBack
  PROVE  ClocksInv'
<1>1. /\ UNCHANGED <<debug, doing, t, u, stats, inserts, begun, elapsed, rehashes>>
      /\ back' \in 0..MaxBack /\ (back' = 0 => back = 0)
  BY BoundsAssumption DEF Tick, SetBack, ClocksInv, TypesOK
<1>2. now \in [Kinds -> 0..Horizon]
  BY DEF ClocksInv, TypesOK
<1>3. now' \in [Kinds -> 0..Horizon]
  BY <1>2, BoundsAssumption DEF Tick, SetBack
<1>4. back' = 0 => \A k \in Kinds : now[k] <= now'[k]
  <2>1. CASE Tick
    BY <2>1, <1>2, BoundsAssumption DEF Tick
  <2>2. CASE SetBack
    <3>1. back' # 0
      BY <2>2, BoundsAssumption DEF SetBack, ClocksInv, TypesOK
    <3>. QED
      BY <3>1
  <2>. QED
    BY <2>1, <2>2
<1>5. TypesOK' /\ RehashesOK'
  BY <1>1, <1>3 DEF ClocksInv, TypesOK, RehashesOK
<1>6. StartsRight'
  BY <1>1 DEF ClocksInv, StartsRight, Going, StartOf
<1>7. CloseInv'
  BY <1>1 DEF ClocksInv, CloseInv, Close, Intervals
<1>8. NotBack'
  <2>1. ASSUME back' = 0, NEW f \in Counters, NEW k \in Kinds
        PROVE  /\ Micros(stats[f][k]) <= elapsed[f][k]
               /\ elapsed[f][k] <= now'[k]
               /\ Going(f)' => elapsed[f][k] <= begun[f][k] /\ begun[f][k] <= now'[k]
    <3>1. /\ Micros(stats[f][k]) <= elapsed[f][k]
          /\ elapsed[f][k] <= now[k]
          /\ Going(f) => elapsed[f][k] <= begun[f][k] /\ begun[f][k] <= now[k]
      BY <1>1, <2>1 DEF ClocksInv, NotBack, InTime
    <3>2. now[k] <= now'[k] /\ now[k] \in Int /\ now'[k] \in Int /\ elapsed[f][k] \in Int
          /\ begun[f][k] \in Int
      BY <1>2, <1>3, <1>4, <2>1, StatsType, BoundsAssumption
    <3>3. Going(f)' <=> Going(f)
      BY <1>1 DEF Going
    <3>. QED
      BY <3>1, <3>2, <3>3
  <2>2. back' = 0 /\ Horizon < SizeRange => doing # "abort"
    BY <1>1 DEF ClocksInv, NotBack
  <2>. QED
    BY <1>1, <2>1, <2>2 DEF NotBack, InTime
<1>. QED
  BY <1>5, <1>6, <1>7, <1>8 DEF ClocksInv

\* A timed function begins.
LEMMA StepStart ==
  ASSUME ClocksInv, PutStart \/ RehashStart
  PROVE  ClocksInv'
<1>1. /\ UNCHANGED <<debug, now, back, stats, elapsed, rehashes>>
      /\ doing' \in {"insert", "rehash"} /\ doing # "abort"
  BY DEF PutStart, RehashStart, env
<1>2. now \in [Kinds -> 0..Horizon]
  BY DEF ClocksInv, TypesOK
<1>3. PutStart => t' \in [Kinds -> Time] /\ \A k \in Kinds : Micros(t'[k]) = now[k]
  BY <1>2, UtimeIs DEF PutStart
<1>4. RehashStart => u' \in [Kinds -> Time] /\ \A k \in Kinds : Micros(u'[k]) = now[k]
  BY <1>2, UtimeIs DEF RehashStart
<1>5. begun' \in [Counters -> [Kinds -> 0..Horizon]]
  BY <1>2 DEF PutStart, RehashStart, ClocksInv, TypesOK, Counters
<1>6. TypesOK'
  <2>1. inserts' \in 0..MaxInserts
    BY BoundsAssumption DEF PutStart, RehashStart, ClocksInv, TypesOK
  <2>2. t' \in [Kinds -> Time] /\ u' \in [Kinds -> Time]
    BY <1>3, <1>4 DEF PutStart, RehashStart, ClocksInv, TypesOK
  <2>. QED
    BY <1>1, <1>5, <2>1, <2>2 DEF ClocksInv, TypesOK
<1>7. RehashesOK'
  <2>1. inserts \in Nat /\ rehashes.done \in Nat
    BY BoundsAssumption DEF ClocksInv, TypesOK
  <2>. QED
    BY <1>1, <2>1 DEF PutStart, RehashStart, ClocksInv, RehashesOK
<1>8. \A f \in Counters : Going(f)' =>
        \/ Going(f) /\ StartOf(f)' = StartOf(f) /\ begun'[f] = begun[f]
        \/ /\ begun'[f] = now
           /\ \A k \in Kinds : Micros(StartOf(f)'[k]) = now[k]
  <2>1. begun \in [Counters -> [Kinds -> 0..Horizon]]
    BY DEF ClocksInv, TypesOK
  <2>2. CASE PutStart
    BY <2>1, <2>2, <1>3 DEF PutStart, Going, StartOf, Counters
  <2>3. CASE RehashStart
    BY <2>1, <2>3, <1>4 DEF RehashStart, Going, StartOf, Counters
  <2>. QED
    BY <2>2, <2>3
<1>9. StartsRight'
  <2>1. ASSUME NEW f \in Counters, NEW k \in Kinds, Going(f)'
        PROVE  Micros(StartOf(f)'[k]) = begun'[f][k]
    BY <1>8, <2>1 DEF ClocksInv, StartsRight
  <2>. QED
    BY <2>1 DEF StartsRight
<1>10. CloseInv'
  <2>1. \A f \in Counters : Intervals(f)' = Intervals(f)
    <3>1. inserts \in Nat
      BY BoundsAssumption DEF ClocksInv, TypesOK
    <3>. QED
      BY <1>1, <3>1 DEF PutStart, RehashStart, Intervals, env
  <2>. QED
    BY <1>1, <2>1 DEF ClocksInv, CloseInv, Close
<1>11. NotBack'
  <2>1. ASSUME back' = 0, NEW f \in Counters, NEW k \in Kinds
        PROVE  /\ Micros(stats[f][k]) <= elapsed[f][k]
               /\ elapsed[f][k] <= now[k]
               /\ Going(f)' => elapsed[f][k] <= begun'[f][k] /\ begun'[f][k] <= now[k]
    <3>1. /\ Micros(stats[f][k]) <= elapsed[f][k]
          /\ elapsed[f][k] <= now[k]
          /\ Going(f) => elapsed[f][k] <= begun[f][k] /\ begun[f][k] <= now[k]
      BY <1>1, <2>1 DEF ClocksInv, NotBack, InTime
    <3>2. now[k] \in Int
      BY <1>2, BoundsAssumption
    <3>. QED
      BY <3>1, <3>2, <1>8
  <2>. QED
    BY <1>1, <2>1 DEF NotBack, InTime
<1>. QED
  BY <1>6, <1>7, <1>9, <1>10, <1>11 DEF ClocksInv

\* A timed function ends: its interval is measured.
LEMMA StepDone ==
  ASSUME ClocksInv, RehashDone \/ PutDone
  PROVE  ClocksInv'
<1> DEFINE f == IF doing = "rehash" THEN "rehash_time" ELSE "insert_time"
           next == IF doing = "rehash" THEN "insert" ELSE "idle"
<1>1. /\ UNCHANGED <<debug, now, back, inserts, begun>>
      /\ f \in Counters /\ Going(f)
      /\ doing \in {"insert", "rehash"} /\ next \in {"insert", "idle"}
      /\ Measure(f, StartOf(f), next)
      /\ t' \in {t, NoTime} /\ u' \in {u, NoTime}
      /\ doing = "rehash" => t' = t
  BY DEF RehashDone, PutDone, env, Counters, Going, StartOf
<1>2. \/ doing' = "abort" /\ UNCHANGED <<stats, elapsed>> /\ back # 0
      \/ Measured(f, next)
  BY <1>1, MeasureIs
<1>3. /\ doing' = "abort" \/ doing' = next
      /\ stats' \in [insert_time : [Kinds -> Time], rehash_time : [Kinds -> Time]]
      /\ elapsed' \in [Counters -> [Kinds -> Int]]
  BY <1>2 DEF Measured, ClocksInv, TypesOK
<1>4. /\ inserts \in 0..MaxInserts /\ inserts \in Nat
      /\ rehashes \in [done : 0..MaxInserts, here : BOOLEAN] /\ rehashes.done \in Nat
      /\ 1 <= inserts /\ rehashes.done <= inserts
      /\ doing = "rehash" => rehashes.done < inserts
  BY <1>1, BoundsAssumption DEF ClocksInv, TypesOK, RehashesOK
<1>5. rehashes' = IF doing = "rehash" THEN [done |-> rehashes.done + 1, here |-> TRUE]
                  ELSE [rehashes EXCEPT !.here = FALSE]
  BY DEF RehashDone, PutDone
<1>6. /\ rehashes' \in [done : 0..MaxInserts, here : BOOLEAN]
      /\ rehashes'.done = rehashes.done + IF doing = "rehash" THEN 1 ELSE 0
      /\ rehashes'.here = (doing = "rehash")
  <2>1. CASE doing = "rehash"
    <3>1. rehashes' = [done |-> rehashes.done + 1, here |-> TRUE]
      BY <1>5, <2>1
    <3>2. rehashes.done + 1 \in 0..MaxInserts
      BY <1>4, <2>1, BoundsAssumption
    <3>. QED
      BY <2>1, <3>1, <3>2
  <2>2. CASE doing # "rehash"
    <3>1. rehashes' = [rehashes EXCEPT !.here = FALSE]
      BY <1>5, <2>2
    <3>2. rehashes' \in [done : 0..MaxInserts, here : BOOLEAN]
      BY <1>4, <3>1
    <3>3. rehashes'.done = rehashes.done /\ ~rehashes'.here
      BY <1>4, <3>1
    <3>4. rehashes'.here = FALSE
      BY <3>2, <3>3
    <3>. QED
      BY <1>4, <2>2, <3>2, <3>3, <3>4
  <2>. QED
    BY <2>1, <2>2
<1>7. TypesOK'
  <2>1. NoTime \in [Kinds -> Time]
    BY LimIs DEF NoTime, Zero, Time, MaxUsecs
  <2>. QED
    BY <1>1, <1>3, <1>6, <2>1 DEF ClocksInv, TypesOK
<1>8. RehashesOK'
  BY <1>1, <1>3, <1>4, <1>6 DEF RehashesOK
<1>9. \A g \in Counters : Going(g)' =>
        g # f /\ Going(g) /\ StartOf(g)' = StartOf(g) /\ doing' = next
  BY <1>1, <1>3 DEF Going, StartOf, Counters
<1> HIDE DEF f
<1>10. StartsRight'
  <2>1. ASSUME NEW g \in Counters, NEW k \in Kinds, Going(g)'
        PROVE  Micros(StartOf(g)'[k]) = begun'[g][k]
    BY <1>1, <1>9, <2>1 DEF ClocksInv, StartsRight
  <2>. QED
    BY <2>1 DEF StartsRight
<1>11. doing' # "abort" => Measured(f, next)
  BY <1>2
<1>12. CloseInv'
  <2> SUFFICES ASSUME doing' # "abort", NEW g \in Counters, NEW k \in Kinds
               PROVE  Close(stats'[g][k], elapsed'[g][k], Intervals(g)')
    BY DEF CloseInv, Close
  <2>1. Measured(f, next)
    BY <1>11
  <2>2. Intervals(g)' = Intervals(g) + IF g = f THEN 1 ELSE 0
    BY <1>1, <1>4, <1>6, <2>1 DEF Intervals, Measured, Counters, f
  <2>3. CASE g = f
    BY <2>1, <2>2, <2>3 DEF Measured
  <2>4. CASE g # f
    <3>1. Close(stats[g][k], elapsed[g][k], Intervals(g))
      BY <1>1 DEF ClocksInv, CloseInv
    <3>2. Intervals(g)' = Intervals(g)
      <4>1. Intervals(g) \in Nat
        BY <1>1, IntervalsType
      <4>. QED
        BY <2>2, <2>4, <4>1
    <3>. QED
      BY <2>1, <2>4, <3>1, <3>2 DEF Measured
  <2>. QED
    BY <2>3, <2>4
<1>13. NotBack'
  <2> SUFFICES ASSUME back = 0 PROVE InTime' /\ doing' # "abort"
    BY <1>1 DEF NotBack
  <2>1. Measured(f, next) /\ doing' # "abort"
    BY <1>1, <1>2 DEF Measured
  <2>2. ASSUME NEW g \in Counters, NEW k \in Kinds
        PROVE  /\ Micros(stats'[g][k]) <= elapsed'[g][k]
               /\ elapsed'[g][k] <= now[k]
               /\ Going(g)' => elapsed'[g][k] <= begun[g][k] /\ begun[g][k] <= now[k]
    <3>1. CASE g = f
      BY <1>9, <2>1, <3>1 DEF Measured
    <3>2. CASE g # f
      <4>1. stats'[g] = stats[g] /\ elapsed'[g] = elapsed[g]
        BY <2>1, <3>2 DEF Measured
      <4>2. /\ Micros(stats[g][k]) <= elapsed[g][k]
            /\ elapsed[g][k] <= now[k]
            /\ Going(g) => elapsed[g][k] <= begun[g][k] /\ begun[g][k] <= now[k]
        BY DEF ClocksInv, NotBack, InTime
      <4>. QED
        BY <1>9, <4>1, <4>2
    <3>. QED
      BY <3>1, <3>2
  <2>. QED
    BY <1>1, <2>1, <2>2 DEF InTime
<1>. QED
  BY <1>7, <1>8, <1>10, <1>12, <1>13 DEF ClocksInv

\* The totals are printed: a number of microseconds is that of a clock.
LEMMA StepPrintTotals ==
  ASSUME ClocksInv, PrintTotals
  PROVE  ClocksInv'
<1>1. /\ UNCHANGED <<debug, now, back, t, u, stats, inserts, begun, elapsed, rehashes>>
      /\ doing = "idle" /\ doing' \in {"printed", "abort"}
  BY DEF PrintTotals, env
<1>2. TypesOK' /\ RehashesOK' /\ StartsRight'
  BY <1>1 DEF ClocksInv, TypesOK, RehashesOK, StartsRight, Going
<1>3. CloseInv'
  BY <1>1 DEF ClocksInv, CloseInv, Close, Intervals
<1>4. InTime => InTime'
  BY <1>1 DEF InTime, Going
<1>5. ASSUME back = 0, Horizon < SizeRange PROVE doing' # "abort"
  <2>1. ASSUME NEW f \in Counters, NEW k \in Kinds PROVE Printable(stats[f][k])
    <3>1. Micros(stats[f][k]) <= elapsed[f][k] /\ elapsed[f][k] <= now[k]
      BY <1>5 DEF ClocksInv, NotBack, InTime
    <3>2. stats[f][k] \in Time /\ elapsed[f][k] \in Int
      BY StatsType
    <3>3. Micros(stats[f][k]) \in Nat
      BY <3>2, MicrosType
    <3>4. now[k] \in 0..Horizon
      BY DEF ClocksInv, TypesOK
    <3>. QED
      BY <1>5, <3>1, <3>2, <3>3, <3>4, BoundsAssumption DEF Printable
  <2>2. DOMAIN stats = Counters
    BY StatsType
  <2>. QED
    BY <2>1, <2>2 DEF PrintTotals
<1>6. NotBack'
  <2>1. back' = back
    BY <1>1
  <2>2. back = 0 => InTime
    BY DEF ClocksInv, NotBack
  <2>. QED
    BY <1>4, <1>5, <2>1, <2>2 DEF NotBack
<1>. QED
  BY <1>2, <1>3, <1>6 DEF ClocksInv

LEMMA StepNone ==
  ASSUME ClocksInv, UNCHANGED clocksVars
  PROVE  ClocksInv'
BY DEF ClocksInv, clocksVars, env, TypesOK, RehashesOK, StartsRight, CloseInv, NotBack, InTime,
       Going, StartOf, Close, Intervals

LEMMA ClocksStep == ClocksInv /\ [ClocksNext]_clocksVars => ClocksInv'
BY StepEnv, StepStart, StepDone, StepPrintTotals, StepNone DEF ClocksNext

(***************************************************************************)
(* Readings, differences and sums are in normal form (ClocksTypeOK), wherever a  *)
(* clock is set back; and if none is, no assertion of clocks-impl.h fails, *)
(* nor the check of clocks_time_print, provided that the time that passes  *)
(* is a size_t in microseconds, as the function requires of the totals.    *)
(***************************************************************************)
THEOREM ClocksTypeCorrect ==
  ASSUME Horizon < SizeRange
  PROVE  ClocksSpec => []ClocksTypeOK
<1>1. ClocksInit => ClocksInv
  BY ClocksStart
<1>2. ClocksInv /\ [ClocksNext]_clocksVars => ClocksInv'
  BY ClocksStep
<1>3. ClocksInv => ClocksTypeOK
  <2> SUFFICES ASSUME ClocksInv PROVE ClocksTypeOK
    OBVIOUS
  <2>1. DOMAIN stats = Counters
    BY StatsType
  <2>2. NothingFails
    BY DEF ClocksInv, NotBack, NothingFails
  <2>. QED
    BY <2>1, <2>2 DEF ClocksInv, TypesOK, ClocksTypeOK
<1>. QED
  BY <1>1, <1>2, <1>3, PTL DEF ClocksSpec

\* A multiple of a number leaves nothing when it is divided by it.
LEMMA MultipleMod ==
  ASSUME NEW n \in Nat \ {0}, NEW q \in Int
  PROVE  (q * n) % n = 0
<1> DEFINE x == q * n
           d == x \div n
           r == x % n
<1>1. x \in Int
  OBVIOUS
<1>2. x = n * d + r /\ r \in 0..(n - 1) /\ d \in Int
  <2> HIDE DEF x
  <2>. QED
    BY <1>1, SMT
<1>3. x = q * n
  OBVIOUS
<1> HIDE DEF x, d, r
<1>4. PICK e \in Int : e = q - d
  BY <1>2
<1>5. e * n = r
  <2>1. e * n = q * n - d * n
    BY <1>2, <1>4
  <2>. QED
    BY <1>2, <1>3, <2>1
<1>6. CASE e = 0
  <2>1. r = 0
    BY <1>5, <1>6
  <2>. QED
    BY <2>1 DEF x, r
<1>7. CASE e > 0
  <2>1. 1 * n <= e * n
    BY <1>7, <1>4, TimesGrows
  <2>. QED
    BY <2>1, <1>2, <1>5
<1>8. CASE e < 0
  <2>1. PICK m \in Nat : m = 0 - e - 1
    BY <1>4, <1>8
  <2>2. e = 0 - (m + 1) /\ m * n \in Nat
    BY <1>4, <2>1
  <2>3. (m + 1) * n = m * n + n
    BY <2>1
  <2>4. (0 - (m + 1)) * n = 0 - (m + 1) * n
    BY <2>1
  <2>. QED
    BY <2>2, <2>3, <2>4, <1>2, <1>5
<1>. QED
  BY <1>4, <1>6, <1>7, <1>8

\* A counter is the time spent less one microsecond for each interval at most, modulo the
\* range of the seconds, whatever is done to the clocks (TotalsClose).
THEOREM TotalsAlwaysClose == ClocksSpec => []TotalsClose
<1>1. ClocksInit => ClocksInv
  BY ClocksStart
<1>2. ClocksInv /\ [ClocksNext]_clocksVars => ClocksInv'
  BY ClocksStep
<1>3. ClocksInv => TotalsClose
  <2> SUFFICES ASSUME ClocksInv, doing # "abort", NEW f \in DOMAIN stats, NEW k \in Kinds
               PROVE  \E lost \in 0..Intervals(f) :
                        (Micros(stats[f][k]) + lost - elapsed[f][k]) % (SizeRange * Lim) = 0
    BY DEF TotalsClose
  <2>1. f \in Counters /\ stats[f][k] \in Time /\ elapsed[f][k] \in Int
    BY StatsType
  <2>2. Close(stats[f][k], elapsed[f][k], Intervals(f))
    BY <2>1 DEF ClocksInv, CloseInv
  <2>3. PICK lost \in 0..Intervals(f), q \in Int :
          Micros(stats[f][k]) + lost = elapsed[f][k] + q * Round
    BY <2>2 DEF Close
  <2>4. Micros(stats[f][k]) \in Nat /\ q * Round \in Int /\ Round \in Nat \ {0}
    BY <2>1, MicrosType, RoundIs
  <2>5. Micros(stats[f][k]) + lost - elapsed[f][k] = q * Round
    BY <2>1, <2>3, <2>4
  <2>6. (q * Round) % Round = 0
    BY <2>4, MultipleMod
  <2>. QED
    BY <2>5, <2>6 DEF Round
<1>. QED
  BY <1>1, <1>2, <1>3, PTL DEF ClocksSpec
-----------------------------------------------------------------------------
(***************************************************************************)
(* The stack                                                               *)
(***************************************************************************)
\* What a cell may hold.
Cell == Elems \cup {ZeroElem, Junk}

\* Inductive: TypeOK, where the pointers are before there is a block, and that
\* no assertion has failed.
StackInv == /\ StackTypeOK
            /\ beg \in Nat /\ end \in Nat /\ top \in Nat
            /\ stack_pc = "none" => beg = 0 /\ top = 0
            /\ stack_pc # "abort"

\* A block that fits can be doubled without a wrap.
LEMMA DoubleFits ==
  ASSUME NEW n \in Nat, Fits(n)
  PROVE  2 * n <= SIZE_MAX /\ (2 * n) * ElemSize <= SIZE_MAX
<1>1. ElemSize \in Nat /\ ElemSize >= 1 /\ Memory \in Nat /\ SIZE_MAX \in Nat
      /\ 2 * Memory <= SIZE_MAX
  BY SizesAssumption
<1>2. n * ElemSize <= Memory
  BY DEF Fits
<1>3. n * 1 <= n * ElemSize
  <2>1. 1 * n <= ElemSize * n
    BY <1>1, TimesGrows
  <2>. QED
    BY <2>1, <1>1
<1>4. (2 * n) * ElemSize = 2 * (n * ElemSize) /\ n * ElemSize \in Nat
  BY <1>1
<1>. QED
  BY <1>1, <1>2, <1>3, <1>4

LEMMA InitSizes ==
  ASSUME NEW m \in Nat, NEW n \in Nat
  PROVE  /\ MaxSize(m) \in Nat
         /\ InitSize(m, n) \in Nat /\ InitSize(m, n) > 0
         /\ build = "max" => InitSize(m, n) <= MaxSize(m)
BY SizesAssumption DEF MaxSize, InitSize

\* The new size of a block that may be enlarged.
LEMMA Enlarged ==
  ASSUME StackInv, stack_pc = "ready", MayEnlarge
  PROVE  /\ Doubled(end - beg) \in Nat /\ Doubled(end - beg) > end - beg
         /\ Doubled(end - beg) <= 2 * (end - beg)
         /\ build = "max" => Doubled(end - beg) <= stack_max_size
BY SizesAssumption DEF StackInv, StackTypeOK, MayEnlarge, Doubled

\* The assertions of STACK_ENLARGE hold wherever it is called.
LEMMA EnlargeAlwaysHolds ==
  ASSUME StackInv, stack_pc = "ready"
  PROVE  EnlargeHolds
<1> DEFINE n == end - beg
<1>1. /\ beg \in Nat /\ n \in Nat /\ n > 0 /\ top - beg <= n /\ Fits(n)
      /\ build = "max" => stack_max_size > 0 /\ n <= stack_max_size
  BY SizesAssumption DEF StackInv, StackTypeOK
<1>2. 2 * n <= SIZE_MAX /\ (2 * n) * ElemSize <= SIZE_MAX
  <2> HIDE DEF n
  <2>. QED
    BY <1>1, DoubleFits
<1>3. ASSUME MayEnlarge PROVE Doubled(n) * ElemSize <= SIZE_MAX
  <2>1. Doubled(n) \in Nat /\ Doubled(n) <= 2 * n
    BY <1>3, Enlarged
  <2>2. Doubled(n) * ElemSize <= (2 * n) * ElemSize
    <3> DEFINE d == Doubled(n)
    <3> HIDE DEF n, d
    <3>. QED
      BY <2>1, <1>1, TimesGrows, SizesAssumption
  <2>3. Doubled(n) * ElemSize \in Nat /\ (2 * n) * ElemSize \in Nat /\ SIZE_MAX \in Nat
    <3> DEFINE d == Doubled(n)
    <3> HIDE DEF n, d
    <3>. QED
      BY <2>1, <1>1, SizesAssumption
  <2> HIDE DEF n
  <2>. QED
    BY <2>2, <2>3, <1>2
<1>. QED
  BY <1>1, <1>2, <1>3 DEF EnlargeHolds
-----------------------------------------------------------------------------
LEMMA InitStackInv == StackInit => StackInv
BY DEF StackInit, StackInv, StackTypeOK

LEMMA CreateKeepsIInv ==
  ASSUME StackInv, NEW m \in Nat, NEW n \in Nat, Create(m, n)
  PROVE  StackInv'
<1>1. PICK a \in Addresses :
        /\ at' = a /\ beg' = a /\ end' = a + InitSize(m, n) /\ top' = a
        /\ cells' = [i \in 0..(InitSize(m, n) - 1) |-> ZeroElem]
  BY DEF Create
<1>2. /\ Fits(InitSize(m, n)) /\ stack_max_size' = MaxSize(m) /\ stack_pc' = "ready"
      /\ build' = build
  BY DEF Create
<1>3. a \in Nat
  BY SizesAssumption
<1>4. /\ end' - beg' = InitSize(m, n) /\ beg' < end' /\ end' \in Nat
      /\ top' \in beg'..end'
      /\ build' = "max" => end' - beg' <= stack_max_size'
      /\ stack_max_size' \in Nat
  <2> DEFINE k == InitSize(m, n)
  <2>1. k \in Nat /\ k > 0 /\ MaxSize(m) \in Nat /\ (build = "max" => k <= MaxSize(m))
    BY InitSizes
  <2>2. beg' = a /\ top' = a /\ end' = a + k
    BY <1>1
  <2> HIDE DEF k
  <2>3. end' - beg' = k
    BY <2>1, <2>2, <1>3
  <2>4. beg' < end' /\ end' \in Nat /\ top' \in beg'..end'
    BY <2>1, <2>2, <1>3
  <2>. QED
    BY <2>1, <2>3, <2>4, <1>2 DEF k
<1>5. cells' \in [0..(end' - beg' - 1) -> Cell]
  BY <1>1, <1>4 DEF Cell
<1>6. Fits(end' - beg')
  BY <1>2, <1>4
<1>. QED
  BY <1>1, <1>2, <1>3, <1>4, <1>5, <1>6 DEF StackInv, StackTypeOK, Cell, Fits

LEMMA PushRoomKeepsIInv ==
  ASSUME StackInv, NEW v \in Elems, PushRoom(v)
  PROVE  StackInv'
<1>1. top - at \in 0..(end - beg - 1)
  BY DEF StackInv, StackTypeOK, PushRoom
<1>2. cells' \in [0..(end - beg - 1) -> Cell]
  BY <1>1 DEF StackInv, StackTypeOK, PushRoom, Cell
<1>. QED
  BY <1>2 DEF StackInv, StackTypeOK, PushRoom, Return, Cell, Fits

LEMMA PushEnlargeKeepsIInv ==
  ASSUME StackInv, NEW v \in Elems, PushEnlarge(v)
  PROVE  StackInv'
<1> DEFINE n == Doubled(end - beg)
<1>1. /\ stack_pc = "ready" /\ MayEnlarge /\ Fits(n)
      /\ n \in Nat /\ n > end - beg /\ (build = "max" => n <= stack_max_size)
  BY Enlarged DEF PushEnlarge
<1>2. PICK a \in Addresses :
        /\ at' = a /\ beg' = a /\ end' = a + n /\ top' = Rebased(a) + 1
        /\ cells' = [i \in 0..(n - 1) |-> IF i = Rebased(a) - a THEN v
                                          ELSE IF i \in DOMAIN cells THEN cells[i]
                                          ELSE Junk]
  BY DEF PushEnlarge
<1>3. UNCHANGED <<build, stack_max_size, stack_pc>>
  BY DEF PushEnlarge
<1> HIDE DEF n
<1>4. a \in Nat
  BY SizesAssumption
<1>5. /\ end' - beg' = n /\ beg' < end' /\ end' \in Nat /\ top' \in Nat
      /\ top' \in beg'..end'
  <2>1. top = end
    BY DEF PushEnlarge
  <2>2. beg \in Nat /\ end \in Nat /\ beg < end
    BY <1>1 DEF StackInv, StackTypeOK
  <2>3. top' = a + (end - beg) + 1
    BY <1>2, <2>1 DEF Rebased
  <2>. QED
    BY <1>1, <1>2, <1>4, <2>2, <2>3
<1>6. cells' \in [0..(n - 1) -> Cell]
  BY <1>1, <1>2 DEF StackInv, StackTypeOK, Cell
<1>. QED
  BY <1>1, <1>2, <1>3, <1>4, <1>5, <1>6 DEF StackInv, StackTypeOK, Cell, Fits

LEMMA PopKeepsIInv ==
  ASSUME StackInv, Pop \/ \E n \in 0..(Size - 1) : PopN(n) \/ TopN(n)
  PROVE  StackInv'
BY DEF StackInv, StackTypeOK, Pop, PopN, TopN, Dropped, Return, Size, Fits, block

LEMMA ShiftTopKeepsIInv ==
  ASSUME StackInv, NEW v \in Elems, ShiftTop(v)
  PROVE  StackInv'
<1>1. cells' \in [0..(end - beg - 1) -> Cell]
  BY DEF StackInv, StackTypeOK, ShiftTop, Cell, Size
<1>. QED
  BY <1>1 DEF StackInv, StackTypeOK, ShiftTop, Return, Cell, Fits

\* The steps after which there is no more to do, and those that change no pointer
\* but top.
LEMMA RestKeepsIInv ==
  ASSUME StackInv, CreateFails \/ PushFails \/ Clear \/ Read \/ Underflow \/ StackDone \/ Stopped
  PROVE  StackInv'
<1>1. CASE CreateFails \/ Underflow
  BY <1>1 DEF StackInv, StackTypeOK, CreateFails, Underflow, Exit, pointers, block
<1>2. CASE PushFails
  <2>1. stack_pc' = "exit"
    BY <1>2, EnlargeAlwaysHolds DEF PushFails
  <2>. QED
    BY <1>2, <2>1 DEF StackInv, StackTypeOK, PushFails, pointers, block
<1>3. CASE Clear \/ Read
  BY <1>3 DEF StackInv, StackTypeOK, Clear, Read, Return, block, Fits
<1>4. CASE StackDone \/ Stopped
  BY <1>4 DEF StackInv, StackTypeOK, StackDone, Stopped, stackVars, pointers, block
<1>. QED
  BY <1>1, <1>2, <1>3, <1>4

LEMMA StepKeepsStackInv ==
  ASSUME StackInv, [StackNext]_stackVars
  PROVE  StackInv'
<1>1. CASE UNCHANGED stackVars
  BY <1>1 DEF StackInv, StackTypeOK, stackVars, pointers, block, Fits
<1>2. CASE \E l \in StackLimits : Create(l[1], l[2])
  BY <1>2, CreateKeepsIInv, SizesAssumption
<1>3. CASE \E v \in Elems : Push(v) \/ ShiftTop(v)
  BY <1>3, PushRoomKeepsIInv, PushEnlargeKeepsIInv, ShiftTopKeepsIInv DEF Push
<1>4. CASE Pop \/ \E n \in 0..(Size - 1) : PopN(n) \/ TopN(n)
  BY <1>4, PopKeepsIInv
<1>5. CASE CreateFails \/ PushFails \/ Clear \/ Read \/ Underflow \/ StackDone \/ Stopped
  BY <1>5, RestKeepsIInv
<1>. QED
  BY <1>1, <1>2, <1>3, <1>4, <1>5 DEF StackNext

(***************************************************************************)
(* The invariant is inductive: an enlarged block has room for what was in  *)
(* the old one, and the assertions on its way hold.                        *)
(***************************************************************************)
THEOREM StackInvariance == StackSpec => []StackInv
<1>1. StackInit => StackInv
  BY InitStackInv
<1>2. StackInv /\ [StackNext]_stackVars => StackInv'
  BY StepKeepsStackInv
<1>. QED
  BY <1>1, <1>2, PTL DEF StackSpec

(***************************************************************************)
(* TypeOK holds in every reachable state: the pointers are into the block  *)
(* the stack has now, and no block is beyond its limit.                    *)
(***************************************************************************)
THEOREM StackTypeCorrect == StackSpec => []StackTypeOK
<1>1. StackInv => StackTypeOK
  BY DEF StackInv
<1>. QED
  BY <1>1, StackInvariance, PTL
-----------------------------------------------------------------------------
(***************************************************************************)
(* The refinement.  Items is what Lifo sees of the block.                  *)
(***************************************************************************)
Items == IF stack_pc = "none" \/ stack_pc = "freed" THEN << >> ELSE Contents

\* z is the first n elements of s, and then those of w.
IsGlued(z, s, n, w) == z = SubSeq(s, 1, n) \o w

LEMMA Glued ==
  ASSUME NEW V, NEW s \in Seq(V), NEW z \in Seq(V), NEW w \in Seq(V),
         NEW n \in 0..Len(s), Len(z) = n + Len(w),
         \A j \in 1..n : z[j] = s[j],
         \A j \in 1..Len(w) : z[n + j] = w[j]
  PROVE  IsGlued(z, s, n, w)
<1> DEFINE h == SubSeq(s, 1, n)
<1>0. Len(s) \in Nat /\ Len(z) \in Nat /\ Len(w) \in Nat /\ n \in Nat
  BY LenProperties
<1>1. h \in Seq(V) /\ Len(h) = n /\ \A j \in 1..n : h[j] = s[j]
  <2>1. \A i \in 1..n : s[i] \in V
    BY ElementOfSeq
  <2>2. /\ SubSeq(s, 1, n) \in Seq(V)
        /\ Len(SubSeq(s, 1, n)) = IF 1 <= n THEN n - 1 + 1 ELSE 0
        /\ \A i \in 1..(n - 1 + 1) : SubSeq(s, 1, n)[i] = s[1 + i - 1]
    BY <2>1, SubSeqProperties
  <2>. QED
    BY <2>2, <1>0
<1> HIDE DEF h
<1>2. /\ h \o w \in Seq(V) /\ Len(h \o w) = n + Len(w)
      /\ \A i \in 1..(n + Len(w)) : (h \o w)[i] = IF i <= n THEN h[i] ELSE w[i - n]
  <2>1. /\ h \o w \in Seq(V) /\ Len(h \o w) = Len(h) + Len(w)
        /\ \A i \in 1..(Len(h) + Len(w)) : (h \o w)[i] =
             IF i <= Len(h) THEN h[i] ELSE w[i - Len(h)]
    BY <1>1, ConcatProperties
  <2>. QED
    BY <2>1, <1>1
<1>3. ASSUME NEW i \in 1..Len(z) PROVE z[i] = (h \o w)[i]
  <2>1. CASE i <= n
    <3>1. i \in 1..n /\ i \in 1..(n + Len(w))
      BY <2>1, <1>0
    <3>. QED
      BY <3>1, <2>1, <1>1, <1>2
  <2>2. CASE i > n
    <3>1. i - n \in 1..Len(w) /\ n + (i - n) = i /\ i \in 1..(n + Len(w)) /\ ~(i <= n)
      BY <2>2, <1>0
    <3>2. z[i] = w[i - n]
      BY <3>1
    <3>. QED
      BY <3>1, <3>2, <1>2
  <2>3. i <= n \/ i > n
    BY <1>0
  <2>. QED
    BY <2>1, <2>2, <2>3, Zenon
<1>4. z = h \o w
  <2>1. Len(z) = Len(h \o w)
    BY <1>2
  <2>. QED
    BY <2>1, <1>2, <1>3, SeqEqual
<1>. QED
  BY <1>4 DEF h, IsGlued

\* What is known of a stack that is ready: it is a sequence of as many cells.
IsSeq == /\ Items = Contents /\ Contents \in Seq(Cell)
         /\ Size \in Nat /\ Len(Contents) = Size
         /\ \A j \in 1..Size : Contents[j] = cells[j - 1] /\ j - 1 \in DOMAIN cells

LEMMA ContentsIsSeq == StackInv /\ stack_pc = "ready" => IsSeq
<1> SUFFICES ASSUME StackInv, stack_pc = "ready" PROVE IsSeq
  OBVIOUS
<1>1. Size \in Nat /\ Size <= end - beg /\ beg = at /\ beg \in Nat /\ end \in Nat
  BY DEF StackInv, StackTypeOK, Size
<1>2. \A j \in 1..Size : j - 1 \in 0..(end - beg - 1) /\ beg + (j - 1) - at = j - 1
  BY <1>1
<1>3. \A j \in 1..Size : Contents[j] = cells[j - 1] /\ cells[j - 1] \in Cell
  BY <1>2 DEF Contents, StackInv, StackTypeOK, Cell
<1>4. Contents \in [1..Size -> Cell] /\ DOMAIN Contents = 1..Size
  BY <1>3 DEF Contents
<1>5. Contents \in Seq(Cell)
  BY <1>1, <1>4, SeqDef
<1>6. Len(Contents) = Size
  BY <1>1, <1>4, <1>5
<1>. QED
  BY <1>1, <1>2, <1>3, <1>5, <1>6 DEF Items, StackInv, StackTypeOK, IsSeq

LEMMA ContentsIsSeqNext == StackInv' /\ stack_pc' = "ready" => IsSeq'
<1>1. (StackInv /\ stack_pc = "ready" => IsSeq)'
  BY ContentsIsSeq, PTL
<1>. QED
  BY <1>1

\* What a step must do to be one of Lifo's Change.
LEMMA ChangeOf ==
  ASSUME StackInv, StackInv', stack_pc = "ready", stack_pc' = "ready",
         NEW w \in Seq(Cell), NEW n \in 0..Size, Size' = Size - n + Len(w),
         \A j \in 0..(Size - n - 1) : cells'[j] = cells[j],
         \A j \in 1..Len(w) : cells'[Size - n + j - 1] = w[j],
         NEW r, ret' = r
  PROVE  L!Change(n, w, r)
<1>1. /\ Items = Contents /\ Contents \in Seq(Cell)
      /\ Size \in Nat /\ Len(Contents) = Size
      /\ \A j \in 1..Size : Contents[j] = cells[j - 1]
  BY ContentsIsSeq DEF IsSeq
<1>2. /\ Items' = Contents' /\ Contents' \in Seq(Cell)
      /\ Size' \in Nat /\ Len(Contents') = Size'
      /\ \A j \in 1..Size' : Contents'[j] = cells'[j - 1]
  BY ContentsIsSeqNext DEF IsSeq, Cell
<1>3. Contents' = SubSeq(Contents, 1, Size - n) \o w
  <2> DEFINE old == Contents
             new == Contents'
             kept == Size - n
  <2>0. Len(w) \in Nat /\ kept \in Nat
    BY <1>1, LenProperties
  <2>1. kept \in 0..Len(old) /\ Len(new) = kept + Len(w)
    BY <1>1, <1>2, <2>0
  <2>2. ASSUME NEW j \in 1..kept PROVE new[j] = old[j]
    <3>1. j \in 1..Size /\ j \in 1..Size' /\ j - 1 \in 0..(kept - 1)
      BY <1>1, <1>2, <2>0
    <3>2. cells'[j - 1] = cells[j - 1]
      BY <3>1
    <3>. QED
      BY <3>1, <3>2, <1>1, <1>2
  <2>3. ASSUME NEW j \in 1..Len(w) PROVE new[kept + j] = w[j]
    <3>1. kept + j \in 1..Size' /\ (kept + j) - 1 = Size - n + j - 1
      BY <1>1, <1>2, <2>0
    <3>. QED
      BY <3>1, <1>2
  <2>4. old \in Seq(Cell) /\ new \in Seq(Cell)
    BY <1>1, <1>2
  <2> HIDE DEF old, new, kept
  <2>5. IsGlued(new, old, kept, w)
    BY <2>1, <2>2, <2>3, <2>4, Glued, Zenon
  <2>. QED
    BY <2>5 DEF old, new, kept, IsGlued
<1>4. Items' = SubSeq(Items, 1, Len(Items) - n) \o w /\ n <= Len(Items)
  BY <1>1, <1>2, <1>3
<1>. QED
  BY <1>4 DEF L!Change, Items

\* A cell as a sequence of one.
LEMMA OneCell ==
  ASSUME NEW v \in Cell
  PROVE  <<v>> \in Seq(Cell) /\ Len(<<v>>) = 1 /\ <<v>>[1] = v
OBVIOUS

LEMMA PushRefines ==
  ASSUME StackInv, StackInv', NEW v \in Elems, Push(v)
  PROVE  L!Push(v)
<1>1. v \in Cell
  BY DEF Cell
<1>2. /\ stack_pc = "ready" /\ stack_pc' = "ready" /\ ret' = <<"push", v>> /\ Size' = Size + 1
      /\ \A j \in 0..(Size - 1) : cells'[j] = cells[j]
      /\ cells'[Size] = v
  <2>1. beg \in Nat /\ end \in Nat /\ top \in Nat /\ Size \in Nat
    BY DEF StackInv, StackTypeOK, Size, Push, PushRoom, PushEnlarge
  <2>2. CASE PushRoom(v)
    <3>1. top - at = Size /\ Size \in DOMAIN cells
      BY <2>1, <2>2 DEF StackInv, StackTypeOK, PushRoom, Size
    <3>2. cells' = [cells EXCEPT ![Size] = v] /\ top' = top + 1
      BY <2>2, <3>1 DEF PushRoom
    <3>3. \A j \in 0..(Size - 1) : j # Size
      BY <2>1
    <3>4. \A j \in 0..(Size - 1) : cells'[j] = cells[j]
      BY <3>2, <3>3
    <3>5. Size' = Size + 1
      BY <2>1, <2>2, <3>2 DEF PushRoom, Return, Size
    <3>. QED
      BY <2>2, <3>1, <3>2, <3>4, <3>5 DEF PushRoom, Return
  <2>3. CASE PushEnlarge(v)
    <3> DEFINE n == Doubled(end - beg)
    <3>1. stack_pc = "ready" /\ stack_pc' = "ready" /\ top = end /\ ret' = <<"push", v>>
          /\ n \in Nat /\ n > end - beg
      BY <2>3, Enlarged DEF PushEnlarge
    <3>2. PICK a \in Addresses :
            /\ beg' = a /\ top' = Rebased(a) + 1
            /\ cells' = [i \in 0..(n - 1) |-> IF i = Rebased(a) - a THEN v
                                              ELSE IF i \in DOMAIN cells THEN cells[i]
                                              ELSE Junk]
      BY <2>3 DEF PushEnlarge
    <3> HIDE DEF n
    <3>3. a \in Nat /\ Rebased(a) = a + Size /\ Rebased(a) - a = Size /\ Size = end - beg
      BY <2>1, <3>1, SizesAssumption DEF Rebased, Size
    <3>4. Size' = Size + 1
      BY <2>1, <3>2, <3>3 DEF Size
    <3>5. Size \in 0..(n - 1) /\ \A j \in 0..(Size - 1) : j \in 0..(n - 1) /\ j # Size
      BY <2>1, <3>1, <3>3
    <3>6. DOMAIN cells = 0..(Size - 1)
      BY <3>1, <3>3 DEF StackInv, StackTypeOK
    <3>7. cells' = [i \in 0..(n - 1) |-> IF i = Size THEN v
                                         ELSE IF i \in DOMAIN cells THEN cells[i]
                                         ELSE Junk]
      BY <3>2, <3>3
    <3>8. cells'[Size] = v /\ \A j \in 0..(Size - 1) : cells'[j] = cells[j]
      BY <3>5, <3>6, <3>7
    <3>. QED
      BY <3>1, <3>4, <3>8
  <2>. QED
    BY <2>2, <2>3 DEF Push
<1>3. Size \in Nat /\ Len(<<v>>) = 1 /\ <<v>> \in Seq(Cell) /\ <<v>>[1] = v
  BY <1>1, <1>2, OneCell, ContentsIsSeq DEF IsSeq
<1>4. L!Change(0, <<v>>, <<"push", v>>)
  <2>1. /\ 0 \in 0..Size /\ Size' = Size - 0 + Len(<<v>>)
        /\ \A j \in 0..(Size - 0 - 1) : cells'[j] = cells[j]
        /\ \A j \in 1..Len(<<v>>) : cells'[Size - 0 + j - 1] = <<v>>[j]
    BY <1>2, <1>3
  <2>. QED
    BY <1>2, <1>3, <2>1, ChangeOf
<1>. QED
  BY <1>4 DEF L!Push

\* Steps that drop n elements, and push none.
LEMMA DropRefines ==
  ASSUME StackInv, StackInv', stack_pc = "ready", stack_pc' = "ready", cells' = cells,
         NEW n \in 0..Size, Size' = Size - n, NEW r, ret' = r
  PROVE  L!Change(n, << >>, r)
<1>1. Size \in Nat /\ << >> \in Seq(Cell) /\ Len(<< >>) = 0
  BY ContentsIsSeq DEF IsSeq
<1>2. /\ Size' = Size - n + Len(<< >>)
      /\ \A j \in 0..(Size - n - 1) : cells'[j] = cells[j]
      /\ \A j \in 1..Len(<< >>) : cells'[Size - n + j - 1] = << >>[j]
  BY <1>1
<1>. QED
  BY <1>1, <1>2, ChangeOf

LEMMA PopRefines ==
  ASSUME StackInv, StackInv', Pop
  PROVE  L!Pop
<1>1. /\ stack_pc = "ready" /\ stack_pc' = "ready" /\ cells' = cells
      /\ Size \in Nat /\ Size > 0 /\ top - at = Size /\ top - 1 - at = Size - 1
      /\ top' = top - 1 /\ Size' = Size - 1
  BY DEF StackInv, StackTypeOK, Pop, Return, Size, block
<1>2. ret' = <<"pop", cells[top' - at]>> /\ top' - at = Size - 1
  BY <1>1 DEF Pop, Return
<1>3. Items = Contents /\ Len(Contents) = Size /\ Contents[Size] = cells[Size - 1]
  BY <1>1, ContentsIsSeq DEF IsSeq
<1>4. ret' = <<"pop", Items[Len(Items)]>>
  BY <1>2, <1>3
<1>5. 1 \in 0..Size
  BY <1>1
<1>6. L!Change(1, << >>, <<"pop", Items[Len(Items)]>>)
  BY <1>1, <1>4, <1>5, DropRefines
<1>. QED
  BY <1>6 DEF L!Pop, Items

LEMMA PopNRefines ==
  ASSUME StackInv, StackInv', NEW n \in 0..(Size - 1), PopN(n)
  PROVE  L!PopN(n) /\ n \in 0..(Len(Items) - 1)
<1>1. /\ stack_pc = "ready" /\ stack_pc' = "ready" /\ cells' = cells
      /\ Size \in Nat /\ ret' = <<"pop_n", n>> /\ Size' = Size - (n + 1)
      /\ n + 1 \in 0..Size
  BY DEF StackInv, StackTypeOK, PopN, Dropped, Return, Size, block
<1>2. L!Change(n + 1, << >>, <<"pop_n", n>>)
  BY <1>1, DropRefines
<1>3. Len(Items) = Size
  BY <1>1, ContentsIsSeq DEF IsSeq
<1>. QED
  BY <1>2, <1>3 DEF L!PopN

LEMMA TopNRefines ==
  ASSUME StackInv, StackInv', NEW n \in 0..(Size - 1), TopN(n)
  PROVE  L!TopN(n) /\ n \in 0..(Len(Items) - 1)
<1>1. /\ stack_pc = "ready" /\ stack_pc' = "ready" /\ cells' = cells
      /\ Size \in Nat /\ Size' = Size - 0 /\ 0 \in 0..Size
      /\ top - Dropped(n) - at = (Size - n) - 1 /\ Size - n \in 1..Size
  BY DEF StackInv, StackTypeOK, TopN, Dropped, Return, Size, block
<1>2. ret' = <<"top_n", n, cells[(Size - n) - 1]>>
  BY <1>1 DEF TopN, Return
<1>3. Items = Contents /\ Len(Contents) = Size /\ Contents[Size - n] = cells[(Size - n) - 1]
  BY <1>1, ContentsIsSeq DEF IsSeq
<1>4. ret' = <<"top_n", n, Items[Len(Items) - n]>>
  BY <1>2, <1>3
<1>5. L!Change(0, << >>, <<"top_n", n, Items[Len(Items) - n]>>)
  BY <1>1, <1>4, DropRefines
<1>. QED
  BY <1>3, <1>5 DEF L!TopN, Items

LEMMA ClearRefines ==
  ASSUME StackInv, StackInv', Clear
  PROVE  L!Clear
<1>1. /\ stack_pc = "ready" /\ stack_pc' = "ready" /\ cells' = cells
      /\ Size \in Nat /\ ret' = <<"clear">> /\ Size' = Size - Size
  BY DEF StackInv, StackTypeOK, Clear, Return, Size, block
<1>2. L!Change(Size, << >>, <<"clear">>)
  BY <1>1, DropRefines
<1>3. Len(Items) = Size
  BY <1>1, ContentsIsSeq DEF IsSeq
<1>. QED
  BY <1>2, <1>3 DEF L!Clear, Items

LEMMA ReadRefines ==
  ASSUME StackInv, StackInv', Read
  PROVE  L!Read
<1>1. /\ stack_pc = "ready" /\ stack_pc' = "ready" /\ cells' = cells
      /\ Size \in Nat /\ Size > 0 /\ Size' = Size - 0 /\ 0 \in 0..Size
      /\ ret' = <<"read", Contents>>
  BY DEF StackInv, StackTypeOK, Read, Return, Size, block
<1>2. Items = Contents /\ Len(Contents) = Size /\ Contents # << >>
  BY <1>1, ContentsIsSeq DEF IsSeq
<1>3. L!Change(0, << >>, <<"read", Items>>)
  BY <1>1, <1>2, DropRefines
<1>. QED
  BY <1>2, <1>3 DEF L!Read, Items

LEMMA ShiftTopRefines ==
  ASSUME StackInv, StackInv', NEW v \in Elems, ShiftTop(v)
  PROVE  L!ShiftTop(v)
<1>1. /\ stack_pc = "ready" /\ stack_pc' = "ready" /\ ret' = <<"shift_top", v>>
      /\ Size \in Nat /\ Size > 0 /\ Size' = Size
      /\ top - 1 - at = Size - 1 /\ Size - 1 \in DOMAIN cells
  BY DEF StackInv, StackTypeOK, ShiftTop, Return, Size, block
<1>2. cells' = [cells EXCEPT ![Size - 1] = v]
  BY <1>1 DEF ShiftTop
<1>3. <<v>> \in Seq(Cell) /\ Len(<<v>>) = 1 /\ <<v>>[1] = v
  BY OneCell DEF Cell
<1>4. /\ 1 \in 0..Size /\ Size' = Size - 1 + Len(<<v>>)
      /\ \A j \in 0..(Size - 1 - 1) : cells'[j] = cells[j]
      /\ \A j \in 1..Len(<<v>>) : cells'[Size - 1 + j - 1] = <<v>>[j]
  BY <1>1, <1>2, <1>3
<1>5. L!Change(1, <<v>>, <<"shift_top", v>>)
  BY <1>1, <1>3, <1>4, ChangeOf
<1>. QED
  BY <1>5 DEF L!ShiftTop

\* A stack that is made is empty.
LEMMA CreateRefines ==
  ASSUME StackInv, StackInv', NEW m \in Nat, NEW n \in Nat, Create(m, n)
  PROVE  L!Make
<1>1. stack_pc = "none" /\ stack_pc' = "ready" /\ ret' = ret
  BY DEF Create
<1>2. PICK a \in Addresses : beg' = a /\ top' = a
  BY DEF Create
<1>3. Items' = Contents' /\ Contents' \in Seq(Cell) /\ Size' \in Nat /\ Len(Contents') = Size'
  BY <1>1, ContentsIsSeqNext DEF IsSeq, Cell
<1>4. Size' = 0
  <2>1. a \in Nat
    BY SizesAssumption
  <2>. QED
    BY <1>2, <2>1 DEF Size
<1>5. Items' = << >> /\ Items = << >>
  BY <1>1, <1>3, <1>4, EmptySeq DEF Items
<1>. QED
  BY <1>1, <1>5 DEF L!Make, Items

\* The program ends, and what the stack holds stays.
LEMMA ExitRefines ==
  ASSUME StackInv, StackInv', stack_pc \in {"none", "ready"}, stack_pc' = "exit",
         UNCHANGED <<build, stack_max_size, pointers, block, ret>>
  PROVE  L!Fail
<1>1. Contents' = Contents
  BY DEF Contents, Size, pointers, block
<1>2. CASE stack_pc = "ready"
  BY <1>1, <1>2 DEF L!Fail
<1>3. CASE stack_pc = "none"
  <2>1. Size = 0
    BY <1>3 DEF StackInv, Size
  <2>2. Contents = << >>
    <3>1. Contents \in [1..0 -> Cell]
      BY <2>1 DEF Contents
    <3>. QED
      BY <3>1
  <2>. QED
    BY <1>1, <1>3, <2>2 DEF L!Fail
<1>. QED
  BY <1>2, <1>3

LEMMA StepRefines ==
  ASSUME StackInv, StackInv', [StackNext]_stackVars
  PROVE  [L!Next]_(L!vars)
<1>1. CASE UNCHANGED stackVars \/ Stopped
  <2>1. UNCHANGED <<beg, end, top, at, cells, ret, stack_pc>>
    BY <1>1 DEF Stopped, stackVars, pointers, block
  <2>. QED
    BY <2>1 DEF L!vars, Contents, Size
<1>2. CASE \E l \in StackLimits : Create(l[1], l[2])
  BY <1>2, CreateRefines, SizesAssumption DEF L!Next
<1>3. CASE CreateFails \/ Underflow \/ PushFails
  <2>1. stack_pc \in {"none", "ready"} /\ stack_pc' = "exit"
    BY <1>3, EnlargeAlwaysHolds DEF CreateFails, Underflow, PushFails, Exit
  <2>2. UNCHANGED <<build, stack_max_size, pointers, block, ret>>
    BY <1>3 DEF CreateFails, Underflow, PushFails, Exit
  <2>. QED
    BY <2>1, <2>2, ExitRefines DEF L!Next
<1>4. CASE Pop
  BY <1>4, PopRefines DEF L!Next
<1>5. CASE Clear
  BY <1>5, ClearRefines DEF L!Next
<1>6. CASE Read
  BY <1>6, ReadRefines DEF L!Next
<1>7. CASE StackDone
  BY <1>7 DEF L!Next, L!Free, StackDone
<1>8. ASSUME NEW v \in Elems, Push(v) \/ ShiftTop(v)
      PROVE  L!Next
  BY <1>8, PushRefines, ShiftTopRefines DEF L!Next
<1>9. ASSUME NEW n \in 0..(Size - 1), PopN(n) \/ TopN(n)
      PROVE  L!Next
  <2>1. n \in 0..(Len(Items) - 1) /\ (L!PopN(n) \/ L!TopN(n))
    BY <1>9, PopNRefines, TopNRefines
  <2>. QED
    BY <2>1 DEF L!Next, Items
<1>. QED
  BY <1>1, <1>2, <1>3, <1>4, <1>5, <1>6, <1>7, <1>8, <1>9 DEF StackNext

(***************************************************************************)
(* Whatever block is enlarged, moved or left as it is, the stack of the    *)
(* code is the sequence that Lifo describes, in all three builds; and it   *)
(* never stops where Lifo does not: no assertion of STACK_ENLARGE fails.   *)
(***************************************************************************)
THEOREM StackIsSequence == StackSpec => ImplementsLifo
<1>1. StackInit => L!Init
  BY DEF StackInit, L!Init
<1>2. StackInv /\ StackInv' /\ [StackNext]_stackVars => [L!Next]_(L!vars)
  BY StepRefines
<1>. QED
  BY <1>1, <1>2, StackInvariance, PTL DEF StackSpec, ImplementsLifo, L!LifoSpec
=============================================================================
