------------------------------- MODULE Stack --------------------------------
(***************************************************************************)
(* The stack of src/lib/json-type/stack-impl.h, which the printers of the  *)
(* tries keep a line, or its elements, in.  It is three pointers into a    *)
(* block of memory that moves when it is enlarged, and it is compiled in   *)
(* three ways: growing without a limit (so the printers have it), growing  *)
(* up to a limit, and of fixed size.                                       *)
(***************************************************************************)
EXTENDS Integers, Sequences

CONSTANTS
  Elems,
  ZeroElem,  \* an element of all zero bytes
  Junk,      \* what is in memory that realloc adds
  Builds,    \* some of "plain", "max" and "fixed"
  StackLimits,  \* arguments of STACK_INIT: max_size and init_size
  Default,   \* 1024
  ElemSize,  \* sizeof(STACK_ELEM_TYPE)
  Memory,    \* the bytes that malloc can give
  SIZE_MAX,
  Addresses  \* where it may give them, counted in elements

\* malloc gives no block of more than PTRDIFF_MAX bytes, and nobody asks for a
\* stack whose bytes are more than SIZE_MAX.
ASSUME SizesAssumption ==
  /\ StackLimits \subseteq Nat \X Nat
  /\ \A l \in StackLimits, j \in {1, 2} : l[j] * ElemSize <= SIZE_MAX
  /\ Default * ElemSize <= SIZE_MAX
  /\ Addresses \subseteq Nat
  /\ Default \in Nat \ {0} /\ ElemSize \in Nat \ {0}
  /\ Memory \in Nat /\ SIZE_MAX \in Nat /\ 2 * Memory <= SIZE_MAX
  /\ Builds \subseteq {"plain", "max", "fixed"}

VARIABLES
  build,
  stack_max_size, beg, end, top,
  at, cells,  \* the block: its address and what is in it
  ret,        \* the last call, with its argument and the elements it returned
  stack_pc    \* "none", "ready" or "freed"; "exit", where an ENSURE fails, or
              \* "abort", where an assertion does

pointers == <<beg, end, top>>
block == <<at, cells>>
stackVars == <<build, stack_max_size, pointers, block, ret, stack_pc>>
-----------------------------------------------------------------------------
StackInit == /\ build \in Builds
             /\ stack_max_size = 0 /\ beg = 0 /\ end = 0 /\ top = 0
             /\ at = 0 /\ cells = << >>
             /\ ret = <<"none">> /\ stack_pc = "none"

Fits(n) == n * ElemSize <= Memory

\* max_size and the number of elements STACK_INIT makes of its arguments.
MaxSize(m) == IF build # "max" THEN 0 ELSE IF m = 0 THEN Default ELSE m

InitSize(m, n) == IF build = "max"
                  THEN IF n = 0 \/ n > MaxSize(m) THEN MaxSize(m) ELSE n
                  ELSE IF n = 0 THEN Default ELSE n

Create(m, n) ==
  /\ stack_pc = "none" /\ Fits(InitSize(m, n))
  /\ \E a \in Addresses :
       /\ at' = a
       /\ cells' = [i \in 0..(InitSize(m, n) - 1) |-> ZeroElem]
       /\ beg' = a /\ end' = a + InitSize(m, n) /\ top' = a
  /\ stack_max_size' = MaxSize(m)
  /\ stack_pc' = "ready"
  /\ UNCHANGED <<build, ret>>

\* An ENSURE that fails: malloc, realloc, the limit, or an empty stack.
Exit == stack_pc' = "exit" /\ UNCHANGED <<build, stack_max_size, pointers, block, ret>>

CreateFails == stack_pc = "none" /\ Exit

Return(r) == ret' = r /\ UNCHANGED <<build, stack_max_size, beg, stack_pc>>
-----------------------------------------------------------------------------
(***************************************************************************)
(* STACK_PUSH                                                              *)
(***************************************************************************)
PushRoom(v) == /\ stack_pc = "ready" /\ top < end
               /\ cells' = [cells EXCEPT ![top - at] = v]
               /\ top' = top + 1
               /\ Return(<<"push", v>>)
               /\ UNCHANGED <<end, at>>

\* Mutant of Doubled: not cut to the maximum.
DoubledUncut(n) == 2 * n

Doubled(n) == IF build = "max" /\ 2 * n > stack_max_size THEN stack_max_size ELSE 2 * n

MayEnlarge == build # "fixed" /\ (build = "max" => end - beg < stack_max_size)

\* The assertions of STACK_ENLARGE on the way to its realloc; the limit is ensured
\* before the size is doubled.
EnlargeHolds ==
  LET n == end - beg
  IN /\ n > 0 /\ top - beg <= n
     /\ build = "max" => stack_max_size > 0 /\ n <= stack_max_size
     /\ MayEnlarge => 2 * n <= SIZE_MAX /\ Doubled(n) * ElemSize <= SIZE_MAX

\* Mutant of Rebased: the pointer into the old block.
RebasedNot(a) == top

\* top, in the block that is at a now.
Rebased(a) == a + (top - beg)

PushEnlarge(v) ==
  LET n == Doubled(end - beg)
  IN /\ stack_pc = "ready" /\ top = end /\ MayEnlarge /\ EnlargeHolds
     /\ Fits(n)
     /\ \E a \in Addresses :
          /\ at' = a
          /\ cells' = [i \in 0..(n - 1) |-> IF i = Rebased(a) - a THEN v
                                            ELSE IF i \in DOMAIN cells THEN cells[i]
                                            ELSE Junk]
          /\ beg' = a /\ end' = a + n /\ top' = Rebased(a) + 1
     /\ ret' = <<"push", v>>
     /\ UNCHANGED <<build, stack_max_size, stack_pc>>

\* At the limit, or without memory; or where an assertion fails.
PushFails ==
  /\ stack_pc = "ready" /\ top = end
  /\ stack_pc' = IF build # "fixed" /\ ~EnlargeHolds THEN "abort" ELSE "exit"
  /\ UNCHANGED <<build, stack_max_size, pointers, block, ret>>
-----------------------------------------------------------------------------
(***************************************************************************)
(* The rest of the interface                                               *)
(***************************************************************************)
Size == top - beg

\* Mutant of Dropped: POP_N(n) taken to drop n elements.
DroppedLess(n) == n

\* POP_N(n) drops n + 1 elements, and TOP_N(n) is the one below n others; to
\* have fewer is an underflow.
Dropped(n) == n + 1

Pop == /\ stack_pc = "ready" /\ Size > 0
       /\ top' = top - 1
       /\ Return(<<"pop", cells[top' - at]>>)
       /\ UNCHANGED <<end, block>>

PopN(n) == /\ stack_pc = "ready"
           /\ top' = top - Dropped(n)
           /\ Return(<<"pop_n", n>>)
           /\ UNCHANGED <<end, block>>

TopN(n) == /\ stack_pc = "ready"
           /\ Return(<<"top_n", n, cells[top - Dropped(n) - at]>>)
           /\ UNCHANGED <<end, top, block>>

\* What the caller says is there already, is: the assertion is not modelled.
ShiftTop(v) == /\ stack_pc = "ready" /\ Size > 0
               /\ cells' = [cells EXCEPT ![top - 1 - at] = v]
               /\ Return(<<"shift_top", v>>)
               /\ UNCHANGED <<end, top, at>>

Clear == /\ stack_pc = "ready"
         /\ top' = beg
         /\ Return(<<"clear">>)
         /\ UNCHANGED <<end, block>>

\* STACK_BEG_REF and STACK_SIZE, as the printers use them together.
Contents == [j \in 1..Size |-> cells[beg + (j - 1) - at]]

Read == /\ stack_pc = "ready" /\ Size > 0
        /\ Return(<<"read", Contents>>)
        /\ UNCHANGED <<end, top, block>>

Underflow == stack_pc = "ready" /\ Exit

StackDone == /\ stack_pc = "ready"
             /\ stack_pc' = "freed" /\ cells' = << >> /\ ret' = <<"done">>
             /\ UNCHANGED <<build, stack_max_size, pointers, at>>

Stopped == stack_pc \in {"exit", "abort", "freed"} /\ UNCHANGED stackVars

Push(v) == PushRoom(v) \/ PushEnlarge(v)

StackNext == \/ \E l \in StackLimits : Create(l[1], l[2])
             \/ CreateFails \/ PushFails
             \/ Pop \/ Clear \/ Read \/ Underflow \/ StackDone \/ Stopped
             \/ \E v \in Elems : Push(v) \/ ShiftTop(v)
             \/ \E n \in 0..(Size - 1) : PopN(n) \/ TopN(n)

StackSpec == StackInit /\ [][StackNext]_stackVars
-----------------------------------------------------------------------------
(***************************************************************************)
(* The type invariant, with STACK_ASSERT_INVARIANTS: the pointers are into *)
(* the block that the stack has now, which is never beyond max_size.       *)
(***************************************************************************)
StackTypeOK ==
  /\ build \in Builds /\ stack_max_size \in Nat
  /\ stack_pc \in {"none", "ready", "freed", "exit", "abort"}
  /\ stack_pc = "ready" =>
       /\ beg = at /\ at \in Addresses
       /\ cells \in [0..(end - beg - 1) -> Elems \cup {ZeroElem, Junk}]
       /\ beg < end /\ top \in beg..end
       /\ Fits(end - beg)
       /\ build = "max" => end - beg <= stack_max_size

(***************************************************************************)
(* Whatever moves underneath, the stack is a sequence: what is popped and  *)
(* printed is what was pushed, never what memory held before.  Lifo aborts *)
(* nowhere: the assertions of STACK_ENLARGE hold, no size wraps around and *)
(* a limit is never passed.                                                *)
(***************************************************************************)
L == INSTANCE Lifo WITH pc <- stack_pc,
                        items <- IF stack_pc = "none" \/ stack_pc = "freed" THEN << >>
                                 ELSE Contents

ImplementsLifo == L!LifoSpec
=============================================================================
