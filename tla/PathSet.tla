------------------------------ MODULE PathSet -------------------------------
(***************************************************************************)
(* The program: main and exec_set of src/src/main.c over the options       *)
(* (Options), the input (SetLoad) and the table of sets of set-intf.c.     *)
(*                                                                         *)
(* The output is a sequence of blocks, where a block that would print      *)
(* nothing is absent.  Of the statistics those are kept that are not read  *)
(* from a counter: the load of a hash table, which is computed, and which  *)
(* for the Gnulib tables is computed from a copy of their counters.        *)
(***************************************************************************)
EXTENDS Options, SetLoad

CONSTANTS
  Sizes,     \* the sizes a hash table may have come to
  Precision  \* 100000: the load of a table is told in fractions of it

ASSUME SizesAssumption == Sizes \subseteq Nat \ {0} /\ Precision \in Nat \ (0..4)

VARIABLES
  stage,  \* how far main is
  set,    \* the struct set_intf_t: its type, and the set of its union
  out,    \* what has been printed on stdout
  info,   \* struct Hash_stats_info of a set over a Gnulib table
  shown,  \* the statistics printed, and the table they are about
  status  \* the exit status

mainVars == <<stage, set, out, info, shown, status>>
allVars == <<vars, optionsVars, mainVars>>

NoSet == [type |-> << >>, object |-> << >>]
NoInfo == [used |-> 0, size |-> 0]   \* as memset leaves it
Nothing == [none |-> TRUE]

MainInit == /\ Init /\ OptionsInit
            /\ stage = "options" /\ set = NoSet /\ out = << >>
            /\ info = NoInfo /\ shown = Nothing /\ status = -1
-----------------------------------------------------------------------------
\* Mutant of IsEmpty: what counts is whether there are elements to print.
IsEmptyElems == DOMAIN val \subseteq {x \in Texts : TextLen[x] = 0}

\* SET_IMPL_IS_EMPTY: each of the three structures has a node for each key.
IsEmpty == DOMAIN val = {}

\* The keys that have an element: all but the empty line.
Elements == {x \in DOMAIN val : TextLen[x] > 0}

Block(name, nonempty) == out' = IF nonempty THEN Append(out, name) ELSE out

Exit(s) == stage' = "exit" /\ status' = s

ParseOptions == /\ stage = "options" /\ Scan
                /\ UNCHANGED <<vars, mainVars>>

\* error(): nothing is printed, not even what was asked for before.
OptionsFail == /\ stage = "options" /\ parsing = "error"
               /\ Exit(1)
               /\ UNCHANGED <<vars, optionsVars, set, out, info, shown>>

\* What is asked for is told in the order of the code.
Told(b) == IF b \in bits THEN <<b>> ELSE << >>

\* The end of options(), and main's choice.
OptionsDone ==
  /\ stage = "options" /\ EndOfOptions
  /\ IF bits # {}
     THEN /\ out' = Told("version") \o Told("dump") \o Told("usage_stats")
                      \o Told("usage")
          /\ Exit(0)
     ELSE /\ stage' = "main" /\ UNCHANGED <<out, status>>
  /\ UNCHANGED <<vars, set, info, shown>>

\* print_config, print_sizes, print_names: no set is made.
PrintOnly ==
  /\ stage = "main"
  /\ opts.action \in {"print_config", "print_sizes", "print_names"}
  /\ Block(opts.action, TRUE)
  /\ Exit(0)
  /\ UNCHANGED <<vars, optionsVars, set, info, shown>>
-----------------------------------------------------------------------------
(***************************************************************************)
(* exec_set                                                                *)
(***************************************************************************)
TypeOf(o) == <<o.struct_type, o.set_type>>
IsHash(type) == type[2] \in {"lhash", "ghash"}

\* set_intf_create, SET_CREATE and SET_IMPL_INIT, or no memory for them.
CreateSet ==
  /\ stage = "main" /\ opts.action \in {"load_only", "print_set", "print_elems"}
  /\ \/ /\ set' = [type |-> TypeOf(opts), object |-> TypeOf(opts)]
        /\ info' = NoInfo
        /\ stage' = "load" /\ UNCHANGED status
     \/ Exit(127) /\ UNCHANGED <<set, info>>
  /\ seen' = << >> /\ parsing' = "done"
  /\ UNCHANGED <<vars, opts, bits, cur, rest, prev, said, nargs, out, shown>>

\* The assertion of SET_INTF_OBJ, before each call through the table.
Dispatch == set.type = set.object

LoadLine(l) == /\ stage = "load" /\ Dispatch
               /\ ReadLine(l)
               /\ UNCHANGED <<optionsVars, mainVars>>

\* The pool or a table has no memory for a line: the program exits.
LoadFails == /\ stage = "load" /\ Dispatch
             /\ Exit(127)
             /\ UNCHANGED <<vars, optionsVars, set, out, info, shown>>

LoadEnd == /\ stage = "load" /\ Dispatch
           /\ EndOfInput
           /\ stage' = "act"
           /\ UNCHANGED <<optionsVars, set, out, info, shown, status>>

AfterAct == stage' = "acted" /\ UNCHANGED status

Nop == /\ stage = "act" /\ opts.action = "load_only"
       /\ AfterAct
       /\ UNCHANGED <<vars, optionsVars, set, out, info, shown>>

\* SET_PRINT_SET, which is SET_PRINT_ELEMS too for a plain set.
PrintsLines == /\ stage = "act" /\ Dispatch
               /\ \/ opts.action = "print_set"
                  \/ opts.action = "print_elems" /\ set.type[1] = "plain"

PrintLines == /\ PrintsLines
              /\ set.type[1] = "path" => DOMAIN val = Elements
              /\ Block("lines", DOMAIN val # {})
              /\ AfterAct
              /\ UNCHANGED <<vars, optionsVars, set, info, shown>>

\* A path trie stops at the empty line (see PathTrie), and the program with it.
PrintStops == /\ PrintsLines
              /\ set.type[1] = "path" /\ DOMAIN val # Elements
              /\ \E some \in BOOLEAN : Block("lines", some /\ Elements # {})
              /\ Exit(127)
              /\ UNCHANGED <<vars, optionsVars, set, info, shown>>

\* A build without CONFIG_TRIE_PATH_SET_PRINT_SET prints a warning instead.
PrintWarns == /\ PrintsLines
              /\ set.type = <<"path", "trie">>
              /\ AfterAct
              /\ UNCHANGED <<vars, optionsVars, set, out, info, shown>>

PrintElems == /\ stage = "act" /\ Dispatch
              /\ opts.action = "print_elems" /\ set.type[1] = "path"
              /\ Block("elems", Elements # {})
              /\ AfterAct
              /\ UNCHANGED <<vars, optionsVars, set, info, shown>>

\* The blank line before the statistics.
Separate == /\ stage = "acted" /\ Dispatch
            /\ IF opts.print_stats
               THEN /\ Block("blank", opts.action # "load_only" /\ ~IsEmpty)
                    /\ stage' = "stats"
               ELSE stage' = "end" /\ UNCHANGED out
            /\ UNCHANGED <<vars, optionsVars, set, info, shown, status>>
-----------------------------------------------------------------------------
(***************************************************************************)
(* The statistics                                                          *)
(***************************************************************************)
\* lround: to the nearest, a half upwards.
Rounded(n, m) == (2 * n * Precision + m) \div (2 * m)

\* compute_size_frac returns false for a table without buckets.
NoFrac == [num |-> 0, denom |-> -1]

compute_size_frac(n, m) ==
  IF m = 0 THEN NoFrac
  ELSE [num |-> n \div m, denom |-> Rounded(n, m) - (n \div m) * Precision]

\* Nothing stops the program: the assertion, nor the VERIFY of the callers.
FracHolds(n, m) == m # 0 /\ compute_size_frac(n, m).denom < Precision

\* What the hash table of a set may have come to: a node or a bucket is used
\* for each string at most, in a linear table exactly, if it is a plain one,
\* where the strings are the keys.
Strings(type) == IF type[1] = "plain" THEN DOMAIN val ELSE Elements

TablesOf(type) ==
  {t \in UNION {[used : 0..n, size : {n}] : n \in Sizes} :
     /\ t.used = 0 <=> Strings(type) = {}
     /\ type[2] = "lhash" => 100 * t.used < 89 * t.size
     /\ type[1] = "plain" =>
          /\ t.used <= Cardinality(DOMAIN val)
          /\ type[2] = "lhash" => t.used = Cardinality(DOMAIN val)}

\* Mutant of Refreshed: the copy is what it was.
RefreshedNot(t) == info

\* hash_get_stats_info
Refreshed(t) == t

\* The lines of the block are printed as they are computed.  Where the load does
\* not fit its digits, the program ends at the assertion if it is built with
\* DEBUG, and goes on if it is not; without buckets it always ends.
PrintStats ==
  /\ stage = "stats" /\ Dispatch
  /\ \E t \in IF IsHash(set.type) THEN TablesOf(set.type) ELSE {NoInfo} :
       /\ info' = IF set.type[2] = "ghash" THEN Refreshed(t) ELSE info
       /\ LET h == IF set.type[2] = "ghash" THEN info' ELSE t
              load == IF IsHash(set.type) THEN compute_size_frac(h.used, h.size)
                                          ELSE Nothing
          IN /\ shown' = [type |-> set.type, table |-> t, load |-> load,
                          uniq_line |-> uniq_line, dups_line |-> dups_line,
                          line_mem |-> line_mem]
             /\ \/ (IsHash(set.type) => h.size # 0) /\ stage' = "end" /\ UNCHANGED status
                \/ IsHash(set.type) /\ ~FracHolds(h.used, h.size) /\ Exit(127)
  /\ Block("stats", TRUE)
  /\ UNCHANGED <<vars, optionsVars, set>>

\* set_intf_destroy, and the return from main.
Destroy == /\ stage = "end" /\ Dispatch
           /\ set' = NoSet
           /\ Exit(0)
           /\ UNCHANGED <<vars, optionsVars, out, info, shown>>

Exited == stage = "exit" /\ UNCHANGED allVars

Load == (\E l \in Line : LoadLine(l)) \/ LoadEnd \/ LoadFails

Act == Nop \/ PrintLines \/ PrintStops \/ PrintWarns \/ PrintElems

MainNext == \/ ParseOptions \/ OptionsFail \/ OptionsDone \/ PrintOnly
            \/ CreateSet \/ Load \/ Act \/ Separate \/ PrintStats
            \/ Destroy \/ Exited

MainSpec == MainInit /\ [][MainNext]_allVars
-----------------------------------------------------------------------------
\* The type invariant, with the assertion that each function of the table meets
\* the set it was made for.
MainTypeOK ==
  /\ TypeOK
  /\ opts.action \in {f[3] : f \in {f \in Flags : f[2] = "action"}}
  /\ opts.struct_type \in {"plain", "path"}
  /\ opts.set_type \in {"trie", "lhash", "ghash"}
  /\ bits \subseteq {b[2] : b \in Bits}
  /\ nargs \in 0..MaxArgs
  /\ parsing \in {"scan", "error", "told", "set", "done"}
  /\ set = NoSet \/ (set.type = TypeOf(opts) /\ Dispatch)
  /\ stage \in {"load", "act", "acted", "stats", "end"} => set # NoSet
  /\ info.used <= info.size
  /\ status \in {-1, 0, 1, 127}
  /\ (status = -1) = (stage # "exit")

(***************************************************************************)
(* Whatever set and tables it is about, the block of statistics is right:  *)
(* the lines and bytes are those of the input (--help-stats), and the load *)
(* is the nearest fraction of so many digits to used / size of the table   *)
(* as it is at the time, never computed from a copy that was not made.     *)
(*                                                                         *)
(* But for one case: of a Gnulib table as good as full, with two buckets at*)
(* least for each such fraction, the digits are one too many.  Only there  *)
(* does the program stop at the assertion that they are not.               *)
(***************************************************************************)
LoadRight(f, t) ==
  LET shownTimes == f.num * Precision + f.denom
      off == 2 * (shownTimes * t.size - t.used * Precision)
  IN f.denom \in 0..(Precision - 1) /\ off <= t.size /\ -off <= t.size

AsGoodAsFull(t) == t.used < t.size /\ 2 * Precision * (t.size - t.used) <= t.size

LinesShown == shown # Nothing =>
                /\ shown.uniq_line = Cardinality(Keys)
                /\ shown.dups_line = Len(input) - Cardinality(Keys)
                /\ shown.line_mem = SumLen

LoadShown ==
  shown # Nothing =>
    LET full == /\ shown.type[2] = "ghash" /\ AsGoodAsFull(shown.table)
                /\ shown.load = [num |-> 0, denom |-> Precision]
    IN /\ IsHash(shown.type) => full \/ LoadRight(shown.load, shown.table)
       /\ status = 127 => full

StatsRight == LinesShown /\ LoadShown

(***************************************************************************)
(* The output is well formed.  What was asked for is told once, the version*)
(* first and the usage last, in whatever order it was asked for; or a set  *)
(* is printed, or its elements, and then the statistics, with a blank line *)
(* between them; and after an error nothing.                               *)
(*                                                                         *)
(* A blank line has something above it, but in two cases: the elements are *)
(* printed of a path set that has the empty line only, and so none; or the *)
(* build cannot print the set, and says so on stderr.  And without a blank *)
(* line there is nothing above the statistics, nor was there to be.        *)
(***************************************************************************)
Asked == <<"version", "dump", "usage_stats", "usage">>

NothingAbove ==
  /\ opts.struct_type = "path" /\ Keys # {}
  /\ \/ opts.action = "print_elems" /\ \A x \in Keys : TextLen[x] = 0
     \/ opts.action = "print_set" /\ opts.set_type = "trie"

OutputShape ==
  /\ \A i \in DOMAIN out :
       /\ out[i] = "stats" =>
            /\ i = Len(out)
            /\ IF i = 1 THEN opts.action = "load_only" \/ Keys = {}
                        ELSE out[i - 1] = "blank"
       /\ out[i] = "blank" =>
            IF i = 1 THEN NothingAbove ELSE out[i - 1] \in {"lines", "elems"}
  /\ \A i, j \in DOMAIN out : out[i] = out[j] => i = j
  /\ parsing = "told" /\ stage = "exit" =>
       /\ {out[i] : i \in DOMAIN out} = bits
       /\ \A i, j \in DOMAIN out, m, n \in DOMAIN Asked :
            i < j /\ out[i] = Asked[m] /\ out[j] = Asked[n] => m < n
  /\ parsing = "error" => out = << >>
=============================================================================
