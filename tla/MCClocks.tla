------------------------------ MODULE MCClocks ------------------------------
(***************************************************************************)
(* An instance of Clocks for TLC: seconds of three microseconds, one clock *)
(* of the three (none looks at another), which may be set back.            *)
(***************************************************************************)
EXTENDS Clocks

MCKinds == {"real"}
=============================================================================
