----------------------------- MODULE MCPathSet -----------------------------
(***************************************************************************)
(* An instance of PathSet for TLC: command lines of up to three elements,  *)
(* of every kind there is, and inputs of up to four lines.                 *)
(***************************************************************************)
EXTENDS PathSet

MCTextLen == [x \in Texts |-> CASE x = "" -> 0 [] x = "a" -> 1 [] x = "bc" -> 2]

\* The factors let in, of those told in hundredths.  Four are .11 from an end: of
\* .89 and 1.11 the floats are a little more than that, of .11 and 3.89 not.
ASSUME FactorsLetIn ==
  LET In(o) == {n \in 0..500 : Parse(o, [hundredths |-> n]).error = "none"}
  IN In("l") = 12..89 /\ In("z") = 111..388

\* SIZE_MAX of a narrower machine, so that products overflow here too.
MCSizeMax == 2 ^ 30 - 1

Short(os, text) == [long |-> FALSE, options |-> os, text |-> text]
Long(o, text) == [long |-> TRUE, options |-> <<o>>, text |-> text]
Size(n, tail) == [num |-> n, tail |-> tail]
Name(s) == [name |-> s]
Seps(s) == [bytes |-> s]

MCArgv ==
  { Short(<<"P", "S">>, NoText), Short(<<"E", "S">>, NoText),
    Short(<<"S", "L">>, NoText), Short(<<"N", "C", "I">>, NoText),
    Short(<<"v", "?">>, NoText), Short(<<"x", "S">>, NoText),
    Short(<<"V", "x">>, NoText), Short(<<"s">>, NoText),
    Short(<<"P", "p">>, Size(2, "k")), Short(<<"h">>, Size(1025, "m")),
    Short(<<"l">>, [hundredths |-> 89]), Short(<<"z">>, [hundredths |-> 111]),
    Short(<<"z">>, [hundredths |-> 389]), Short(<<"l">>, [hundredths |-> 100]),
    Short(<<"l">>, [hundredths |-> NaN]),
    Long("gnulib_hash", NoText), Long("plain_set", NoText),
    Long("dump_opts", NoText), Long("help", Other), Long("verbose", Other),
    Long("help_stats", NoText), Long("bogus", NoText),
    Long("no_verbose", Other), Long("r", Name("p")),
    Long("no_print_stats", NoText), Short(<<"n">>, Size(32, "M")),
    Short(<<"t">>, NoText), Short(<<"t">>, Seps(<<58, 47, 45, 58>>)),
    Short(<< >>, Name("linear-hash")), Short(<< >>, Seps(<<58, 47>>)) }
=============================================================================
