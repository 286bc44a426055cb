-------------------------------- MODULE Lifo --------------------------------
(***************************************************************************)
(* What the printers of the tries rely on: a sequence that changes at its  *)
(* end alone, and is read as a whole or at its end.  A push may find no    *)
(* memory; to take what is not there ends the program.                     *)
(***************************************************************************)
EXTENDS Integers, Sequences

CONSTANT Elems

VARIABLES
  items,
  ret,   \* the last call, with its argument and the elements it returned
  pc     \* "none", "ready", "exit" or "freed"

vars == <<items, ret, pc>>

Init == items = << >> /\ ret = <<"none">> /\ pc = "none"

Make == pc = "none" /\ pc' = "ready" /\ UNCHANGED <<items, ret>>

\* How many elements are dropped, and what is put in their place.
Change(n, s, r) == /\ pc = "ready" /\ n <= Len(items)
                   /\ items' = SubSeq(items, 1, Len(items) - n) \o s
                   /\ ret' = r /\ UNCHANGED pc

Push(v) == Change(0, <<v>>, <<"push", v>>)
Pop == Change(1, << >>, <<"pop", items[Len(items)]>>)
PopN(n) == Change(n + 1, << >>, <<"pop_n", n>>)
ShiftTop(v) == Change(1, <<v>>, <<"shift_top", v>>)
Clear == Change(Len(items), << >>, <<"clear">>)
TopN(n) == Change(0, << >>, <<"top_n", n, items[Len(items) - n]>>)
Read == items # << >> /\ Change(0, << >>, <<"read", items>>)

Fail == pc \in {"none", "ready"} /\ pc' = "exit" /\ UNCHANGED <<items, ret>>

Free == /\ pc = "ready" /\ pc' = "freed"
        /\ items' = << >> /\ ret' = <<"done">>

Next == \/ Make \/ Pop \/ Clear \/ Read \/ Fail \/ Free
        \/ \E v \in Elems : Push(v) \/ ShiftTop(v)
        \/ \E n \in 0..(Len(items) - 1) : PopN(n) \/ TopN(n)

LifoSpec == Init /\ [][Next]_vars
=============================================================================
