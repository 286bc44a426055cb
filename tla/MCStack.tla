------------------------------ MODULE MCStack -------------------------------
(***************************************************************************)
(* An instance of Stack for TLC: elements of two bytes, memory for five of *)
(* them, in blocks at two places or at the same again.                     *)
(***************************************************************************)
EXTENDS Stack

MCLimits == {<<0, 0>>, <<0, 1>>, <<3, 1>>, <<5, 2>>, <<1, 4>>}
=============================================================================
