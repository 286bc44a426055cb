----------------------------- MODULE MCPathTrie -----------------------------
(***************************************************************************)
(* An instance of PathTrie for TLC: two separators, lines with a leading   *)
(* one, with two in a row, that are prefixes of each other, and the empty  *)
(* line; a hash that puts the null pointer between the element pointers.   *)
(***************************************************************************)
EXTENDS PathTrie

MCLines == {<<>>, <<"a">>, <<"a", "/">>, <<"a", "/", "b">>, <<"a", ":", "b">>,
            <<"/", "/", "b">>, <<"b">>}

\* A permutation of 0..7.
MCUintHash(x) == (5 * x + 3) % 8
=============================================================================
