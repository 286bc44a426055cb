----------------------------- MODULE MCObjAlloc -----------------------------
(***************************************************************************)
(* Instances of ObjAlloc for TLC: objects of one size and of several, and  *)
(* limits that are no multiple of the initial size.                        *)
(***************************************************************************)
EXTENDS ObjAlloc

MCLimits == {<<1, 0>>, <<2, 6>>, <<3, 5>>, <<0, 0>>}
MCRequests == {[size |-> 1, align |-> 0]} \cup
              [size : {1, 3}, align : {1, 2, 4}]
=============================================================================
