------------------------------- MODULE MCTrie -------------------------------
(***************************************************************************)
(* An instance of Trie for TLC: strings that share prefixes, one that is a *)
(* prefix of another, the empty one, and bytes on both sides of 128.       *)
(***************************************************************************)
EXTENDS Trie

MCKeys == {<<>>, <<97>>, <<200>>, <<97, 98>>, <<97, 200>>, <<200, 97>>,
           <<98, 97, 97>>}
=============================================================================
