----------------------------- MODULE MCPoolAlloc -----------------------------
(***************************************************************************)
(* An instance of PoolAlloc for TLC: pools of a few bytes, a limit that no *)
(* doubling meets, a header that is no multiple of the largest alignment,  *)
(* objects up to the largest pool and two past it.                         *)
(***************************************************************************)
EXTENDS PoolAlloc

MCLimits == {<<0, 0>>, <<3, 0>>, <<4, 21>>, <<60, 50>>}
MCRequests == [size : {1, 5, 12}, align : {1, 4, 8}] \cup
              [size : {17, 20, 63}, align : {1}]
=============================================================================
