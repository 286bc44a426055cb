------------------------------ MODULE Options -------------------------------
(***************************************************************************)
(* options() of src/src/common.c: the command line is taken apart by       *)
(* getopt_long, one option at a time, and each sets a field of 'opts', for *)
(* the last time wins; an argument is parsed and checked where it is met.  *)
(*                                                                         *)
(* An element of the command line is a cluster of short options ("-SP"),   *)
(* a long one, or a text, and an option's argument is the rest of its      *)
(* element or all of the next one.  Elements that are no option nor the    *)
(* argument of one are left out, as the program ignores them.  The module  *)
(* has state and actions, which PathSet composes with the rest of main.    *)
(***************************************************************************)
EXTENDS HashSizes, SequencesExt

CONSTANTS
  Argv,    \* the elements a command line may be made of
  SizeMax, \* SIZE_MAX
  MaxArgs  \* bound: the number of elements

VARIABLES
  opts,      \* the struct options_t that is returned
  bits,      \* which of "version", "dump", "usage_stats", "usage" are asked for
  cur, rest, \* the element getopt_long is at, and the options left in it
  prev,      \* the element before it
  parsing,   \* "scan"; "error", "told" or "set" when options() has ended;
             \* "done" when what led to the options does not matter any more
  said,      \* the error message: its kind and the option it names
  seen,      \* history: the fields set so far, and what was meant by it
  nargs      \* the number of elements so far

scanning == <<cur, rest, prev, seen, nargs>>
optionsVars == <<opts, bits, scanning, parsing, said>>
-----------------------------------------------------------------------------
(***************************************************************************)
(* Arguments.  A text is what it can be read as: a number with a tail, a   *)
(* factor in hundredths, a name, or a string of bytes; or none of these.   *)
(***************************************************************************)
NoText == [none |-> TRUE]
Other == [other |-> TRUE]
Is(what, text) == what \in DOMAIN text

KB == 1024
MB == 1024 * KB
NaN == -1  \* given as "nan"; negative factors, all refused, are left out
NoSeps == << >>
Slash == 47

Text == {NoText, Other} \cup [num : Nat, tail : STRING]
          \cup [hundredths : Nat \cup {NaN}]
          \cup [name : STRING] \cup [bytes : Seq(0..255)]

Taken(v) == [error |-> "none", value |-> v]
Invalid == [error |-> "invalid"]
Illegal == [error |-> "illegal"]

Unit(tail) == CASE tail = "" -> 1 [] tail \in {"k", "K"} -> KB
                                  [] tail \in {"m", "M"} -> MB

\* Mutant of FitsUnit: the product is not checked before it is made.
FitsUnitAlways(n, u) == TRUE

FitsUnit(n, u) == n <= SizeMax \div u

\* parse_num fails with no digit, and with more than SIZE_MAX.
parse_su_size_optarg(text, max) ==
  IF \/ ~Is("num", text)
     \/ text.num > SizeMax
     \/ text.tail \notin {"", "k", "K", "m", "M"}
  THEN Invalid
  ELSE LET u == Unit(text.tail)
           v == (text.num * u) % (SizeMax + 1)
       IN IF ~FitsUnit(text.num, u) \/ v = 0 \/ v > max THEN Illegal ELSE Taken(v)

\* The float strtof makes of n hundredths, in units of 2^-27: the nearest whole
\* multiple of the distance of the floats there.  Those below 1/16 lie closer
\* than a unit, and above 4 farther apart than said, but no text that far from
\* the bounds is told apart by it.
Spacing(n) == CASE n < 13 -> 1
                [] n \in 13..24 -> 2
                [] n \in 25..49 -> 4
                [] n \in 50..99 -> 8
                [] n \in 100..199 -> 16
                [] n >= 200 -> 32

Quarter == 33554432  \* 2^25

Binary32(n) == LET u == Spacing(n)
               IN (n \div 25) * Quarter
                    + u * ((2 * (n % 25) * Quarter + 25 * u) \div (50 * u))

\* FLOAT_GS and FLOAT_LS: apart by more than FLOAT_EPSILON, .11f.  The difference
\* of two floats that close to each other is one itself.
Apart(x, y) == Binary32(y) - Binary32(x) > Binary32(11)

\* The value is named by its hundredths, which the float tells apart.
parse_float_optarg(text, lower, upper) ==
  IF ~Is("hundredths", text) THEN Invalid
  ELSE LET v == text.hundredths
       IN IF v = NaN \/ (Apart(lower, v) /\ Apart(v, upper)) THEN Taken(v) ELSE Illegal

\* A byte is moved down to its place among those before it, which are sorted.
InsertByte(t, c) ==
  LET j == CHOOSE j \in 0..Len(t) : /\ j > 0 => t[j] <= c
                                    /\ \A x \in (j + 1)..Len(t) : t[x] > c
  IN SubSeq(t, 1, j) \o <<c>> \o SubSeq(t, j + 1, Len(t))

SortBytes(s) == LET t[n \in 0..Len(s)] ==
                      IF n = 0 THEN << >> ELSE InsertByte(t[n - 1], s[n])
                IN  t[Len(s)]

parse_sep_set_optarg(text) ==
  IF ~Is("bytes", text) \/ Slash \notin ToSet(text.bytes) THEN Invalid
  ELSE LET t == SortBytes(text.bytes)
       IN IF \E p \in 2..Len(t) : t[p] = t[p - 1] THEN Illegal ELSE Taken(text.bytes)

StructNames == {<<"l", "plain">>, <<"plain-set", "plain">>,
                <<"p", "path">>, <<"path-trie", "path">>}
SetNames == {<<"g", "ghash">>, <<"gnulib-hash", "ghash">>,
             <<"l", "lhash">>, <<"linear-hash", "lhash">>,
             <<"t", "trie">>, <<"ternary-tree", "trie">>}

\* lookup_struct_type, lookup_set_type
Lookup(names, text) ==
  IF Is("name", text) /\ \E n \in names : n[1] = text.name
  THEN Taken((CHOOSE n \in names : n[1] = text.name)[2])
  ELSE Invalid
-----------------------------------------------------------------------------
(***************************************************************************)
(* Options, named as in the enum that options() declares: a letter, or a   *)
(* word for those that are only long.                                      *)
(***************************************************************************)
\* Those that set a field to a value of their own.
Flags == {<<"C", "action", "print_config">>, <<"I", "action", "print_sizes">>,
          <<"N", "action", "print_names">>, <<"L", "action", "load_only">>,
          <<"P", "action", "print_set">>, <<"E", "action", "print_elems">>,
          <<"plain_set", "struct_type", "plain">>,
          <<"path_trie", "struct_type", "path">>,
          <<"ternary_tree", "set_type", "trie">>,
          <<"linear_hash", "set_type", "lhash">>,
          <<"gnulib_hash", "set_type", "ghash">>,
          <<"S", "print_stats", TRUE>>, <<"no_print_stats", "print_stats", FALSE>>,
          <<"V", "verbose", TRUE>>, <<"no_verbose", "verbose", FALSE>>}

FlagNames == {f[1] : f \in Flags}
Flag(o) == CHOOSE f \in Flags : f[1] = o

\* Those that ask for something to be told.
Bits == {<<"v", "version">>, <<"dump_opts", "dump">>,
         <<"help_stats", "usage_stats">>, <<"help", "usage">>}
BitNames == {b[1] : b \in Bits}
Bit(o) == (CHOOSE b \in Bits : b[1] = o)[2]

\* Those that take an argument.
FieldOf == [p |-> "pool_size", h |-> "hash_size", n |-> "node_size",
            r |-> "struct_type", s |-> "set_type", z |-> "rehash_size",
            l |-> "rehash_load", t |-> "sep_set"]
ArgNames == DOMAIN FieldOf

Parse(o, text) ==
  CASE o = "p" -> parse_su_size_optarg(text, 512 * MB)
    [] o \in {"h", "n"} -> parse_su_size_optarg(text, 32 * MB)
    [] o = "z" -> parse_float_optarg(text, 100, 400)
    [] o = "l" -> parse_float_optarg(text, 0, 100)
    [] o = "t" -> parse_sep_set_optarg(text)
    [] o = "r" -> Lookup(StructNames, text)
    [] o = "s" -> Lookup(SetNames, text)

Known == FlagNames \cup BitNames \cup ArgNames

Defaults == [action |-> "load_only", struct_type |-> "path", set_type |-> "trie",
             pool_size |-> 128 * KB, hash_size |-> KB, node_size |-> KB,
             rehash_size |-> NaN, rehash_load |-> NaN, sep_set |-> NoSeps,
             print_stats |-> FALSE, verbose |-> FALSE]
-----------------------------------------------------------------------------
\* An element: its options, all but the last without argument, and the argument
\* that is part of it.  A text has no options.
ProgramName == [long |-> FALSE, options |-> << >>, text |-> NoText]
NoElement == ProgramName

ASSUME ArgvAssumption ==
  /\ \A a \in Argv : /\ a.long \in BOOLEAN /\ a.options \in Seq(STRING)
                     /\ a.text \in Text
                     /\ a.long => Len(a.options) = 1
                     /\ a.options = << >> => a.text # NoText
                     /\ \A i \in 1..(Len(a.options) - 1) : a.options[i] \notin ArgNames
  /\ SizeMax \in Nat /\ MaxArgs \in Nat

OptionsInit == /\ opts = Defaults /\ bits = {}
               /\ cur = ProgramName /\ rest = << >> /\ prev = ProgramName
               /\ parsing = "scan" /\ said = [kind |-> "none", option |-> "none"]
               /\ seen = << >> /\ nargs = 0

NextElement(a) == /\ parsing = "scan" /\ rest = << >> /\ nargs < MaxArgs
                  /\ a.options # << >>
                  /\ prev' = cur /\ cur' = a /\ rest' = a.options
                  /\ nargs' = nargs + 1
                  /\ UNCHANGED <<opts, bits, parsing, said, seen>>

\* The option getopt_long returns.
At(o) == parsing = "scan" /\ rest # << >> /\ o = Head(rest)

\* Mutant of ArgvOptind: the option before, as if optind were not moved yet.
ArgvOptindPrev == IF prev.options = << >> THEN cur ELSE prev

\* argv[optind - 1]: getopt_long moves optind on at the end of an element.
ArgvOptind == IF Len(rest) > 1 THEN prev ELSE cur

Fail(kind, o) == /\ parsing' = "error" /\ said' = [kind |-> kind, option |-> o]
                 /\ UNCHANGED <<opts, bits, cur, rest, prev, nargs>>

\* A long option that takes none has an argument.
Surplus == cur.long /\ cur.text # NoText

TakeFlag(o) == /\ At(o) /\ o \in FlagNames /\ ~Surplus
               /\ opts' = [opts EXCEPT ![Flag(o)[2]] = Flag(o)[3]]
               /\ seen' = Append(seen, [field |-> Flag(o)[2], meant |-> Flag(o)[3],
                                        range |-> "inside"])
               /\ rest' = Tail(rest)
               /\ UNCHANGED <<bits, cur, prev, parsing, said, nargs>>

TakeBit(o) == /\ At(o) /\ o \in BitNames /\ ~Surplus
              /\ bits' = bits \cup {Bit(o)}
              /\ rest' = Tail(rest)
              /\ UNCHANGED <<opts, cur, prev, parsing, said, seen, nargs>>

\* What an argument stands for and whether it may be given, by the words of
\* --help and of the checks; used to say what is right, not by the code.
Meant(o, text) ==
  CASE Is("num", text) -> text.num * Unit(text.tail)
    [] Is("hundredths", text) -> text.hundredths
    [] Is("bytes", text) -> text.bytes
    [] OTHER -> Lookup(IF o = "r" THEN StructNames ELSE SetNames, text).value

\* "strictly between 1 and 4", "strictly between 0 and 1"
Ends == [z |-> <<100, 400>>, l |-> <<0, 100>>]

Legal(o, text) ==
  CASE o \in {"p", "h", "n"} ->
         /\ Is("num", text) /\ text.tail \in {"", "k", "K", "m", "M"}
         /\ Meant(o, text) \in 1..(IF o = "p" THEN 512 * MB ELSE 32 * MB)
    [] o \in {"z", "l"} ->
         /\ Is("hundredths", text)
         /\ \/ Meant(o, text) = NaN
            \/ Ends[o][1] < Meant(o, text) /\ Meant(o, text) < Ends[o][2]
    [] o = "t" -> /\ Is("bytes", text) /\ Slash \in ToSet(text.bytes)
                  /\ \A i, j \in DOMAIN text.bytes :
                       text.bytes[i] = text.bytes[j] => i = j
    [] o \in {"r", "s"} ->
         Is("name", text) /\ \E n \in (IF o = "r" THEN StructNames ELSE SetNames) :
                               n[1] = text.name

\* A factor that --help lets in, but that is no more than .11 from an end, where
\* the code refuses some.
AtEdge(o, text) == /\ o \in {"z", "l"} /\ Meant(o, text) # NaN
                   /\ \/ Meant(o, text) - Ends[o][1] <= 11
                      \/ Ends[o][2] - Meant(o, text) <= 11

RangeOf(o, text) == IF ~Legal(o, text) THEN "outside"
                    ELSE IF AtEdge(o, text) THEN "edge" ELSE "inside"

\* The argument text of option o has been found: it is parsed.
Argument(o, text) ==
  LET v == Parse(o, text)
  IN IF v.error = "none"
     THEN /\ opts' = [opts EXCEPT ![FieldOf[o]] = v.value]
          /\ seen' = Append(seen, [field |-> FieldOf[o], meant |-> Meant(o, text),
                                   range |-> RangeOf(o, text)])
          /\ rest' = << >>
          /\ UNCHANGED <<bits, parsing, said>>
     ELSE /\ parsing' = "error" /\ said' = [kind |-> v.error, option |-> o]
          /\ seen' = Append(seen, [field |-> FieldOf[o], range |-> RangeOf(o, text)])
          /\ UNCHANGED <<opts, bits, rest>>

TakeArgHere(o) == /\ At(o) /\ o \in ArgNames /\ cur.text # NoText
                  /\ Argument(o, cur.text)
                  /\ UNCHANGED <<cur, prev, nargs>>

\* All of the next element, whatever it looks like.
TakeArgNext(o, a) ==
  /\ At(o) /\ o \in ArgNames /\ cur.text = NoText /\ nargs < MaxArgs
  /\ prev' = cur /\ cur' = a /\ nargs' = nargs + 1
  /\ Argument(o, IF a.options = << >> THEN a.text ELSE Other)

\* ':', at the end of the command line.
MissingArg(o) == /\ At(o) /\ o \in ArgNames /\ cur.text = NoText
                 /\ Fail("missing", o)
                 /\ UNCHANGED seen

\* '?', with optopt 0: a long option that is none.
UnknownLong(o) == /\ At(o) /\ cur.long /\ o \notin Known
                  /\ Fail("unknown", Head(ArgvOptind.options))
                  /\ UNCHANGED seen

\* '?', with optopt '?': the letter, or the value of --help.
AskUsage(o) == /\ At(o)
               /\ (o = "?" /\ ~cur.long) \/ (o = "help" /\ Surplus)
               /\ bits' = bits \cup {"usage"}
               /\ rest' = Tail(rest)
               /\ UNCHANGED <<opts, cur, prev, parsing, said, seen, nargs>>

\* '?' otherwise: told apart by the looks of argv[optind - 1].
Refuse(o) ==
  /\ At(o)
  /\ \/ ~cur.long /\ o \notin Known \cup {"?"}
     \/ o \in (FlagNames \cup BitNames) \ {"help"} /\ Surplus
  /\ IF ArgvOptind.long
     THEN Fail("not_allowed", Head(ArgvOptind.options))
     ELSE Fail("unknown", o)
  /\ UNCHANGED seen

\* getopt_long is at the end, and so is its state.
EndOfOptions ==
  /\ parsing = "scan" /\ rest = << >>
  /\ parsing' = IF bits = {} THEN "set" ELSE "told"
  /\ cur' = NoElement /\ prev' = NoElement /\ nargs' = 0
  /\ UNCHANGED <<opts, bits, rest, said, seen>>

Scan == \/ \E a \in Argv : NextElement(a)
        \/ \E o \in ToSet(rest) :
             \/ TakeFlag(o) \/ TakeBit(o) \/ TakeArgHere(o) \/ MissingArg(o)
             \/ UnknownLong(o) \/ AskUsage(o) \/ Refuse(o)
             \/ \E a \in Argv : TakeArgNext(o, a)
-----------------------------------------------------------------------------
\* The tuning GHASH_INIT makes of the options.
Hundredths(f, default) == IF f = NaN THEN default ELSE <<f, 100>>

GhashTuning(o) ==
  [shrink_threshold |-> <<0, 1>>, shrink_factor |-> <<1, 1>>,
   growth_threshold |-> Hundredths(o.rehash_load, <<8, 10>>),
   growth_factor |-> Hundredths(o.rehash_size, <<1414, 1000>>),
   is_n_buckets |-> FALSE]

\* The last thing said of a field, or its default.
LastMeant(f) ==
  LET is == {i \in DOMAIN seen : seen[i].field = f}
  IN IF is = {} THEN Defaults[f]
     ELSE seen[CHOOSE i \in is : \A j \in is : j <= i].meant

(***************************************************************************)
(* When options() returns, each field is what the command line last said   *)
(* of it, units, overflow and all, and nothing was let in that --help does *)
(* not; the factors are such that the hash tables accept them              *)
(* (hash_initialize fails on others, and the program with it).  What is    *)
(* refused --help does not let in either, but for factors near an end: the *)
(* code asks for a distance to it of which --help does not speak.          *)
(***************************************************************************)
Refused(i) == i = Len(seen) /\ said.kind \in {"invalid", "illegal"}

OptionsAsGiven ==
  /\ \A i \in DOMAIN seen :
       seen[i].range \in {"edge", IF Refused(i) THEN "outside" ELSE "inside"}
  /\ parsing \in {"told", "set"} =>
       /\ \A f \in DOMAIN opts : opts[f] = LastMeant(f)
       /\ check_tuning(GhashTuning(opts))

(***************************************************************************)
(* An error message names the option that is at fault and says what the    *)
(* fault is.  In one case it does not: an unknown letter that has others   *)
(* behind it in its cluster, when a long option comes before.  getopt_long *)
(* is still in the cluster, argv[optind - 1] is the long option, and that  *)
(* is said to allow no argument.                                           *)
(***************************************************************************)
FaultAt(o) == IF o \notin Known THEN "unknown"
              ELSE IF o \in ArgNames THEN "argument" ELSE "not_allowed"

ErrorNamesOption ==
  parsing = "error" =>
    LET o == Head(rest)
    IN \/ /\ said.option = o
          /\ \/ said.kind = FaultAt(o)
             \/ FaultAt(o) = "argument" /\ said.kind \in {"missing", "invalid", "illegal"}
       \/ /\ ~cur.long /\ Len(rest) > 1 /\ o \notin Known
          /\ prev.long /\ said = [kind |-> "not_allowed", option |-> Head(prev.options)]
=============================================================================
