------------------------------ MODULE SetLoad -------------------------------
(***************************************************************************)
(* SET_LOAD and SET_PUT of src/src/set-impl.h: the program reads the input *)
(* line by line, inserts each line in its set, and numbers it.  A line that*)
(* is new gets its number as the value of its node; the value returned for *)
(* a line that is not is the number of the one it duplicates.              *)
(*                                                                         *)
(* The set is represented by what KeySet promises of SET_IMPL_INSERT: one  *)
(* node per key, zeroed when it is created.  The domain of 'val' are the   *)
(* keys that have a node.                                                  *)
(***************************************************************************)
EXTENDS Integers, Sequences, FiniteSets

CONSTANTS
  Texts,      \* the keys: what a line holds before its newline or NUL char
  TextLen,    \* TextLen[x]: the length of the text x
  Tails,      \* what may follow a NUL char in its line: a set of lengths
  ValueLimit, \* 2^CONFIG_VALUE_TYPE_SIZE
  MaxLines    \* bound: the number of lines of the input

ASSUME TextsAssumption == /\ TextLen \in [Texts -> Nat]
                          /\ Tails \subseteq Nat
                          /\ ValueLimit \in Nat \ {0}
                          /\ MaxLines \in Nat

\* A line of the input.  A file may end without a newline, but then the last
\* line is not empty.
Line == {l \in [text : Texts, nul : BOOLEAN, tail : Tails, eol : BOOLEAN] :
           /\ ~l.nul => l.tail = 0
           /\ l.eol \/ l.nul \/ TextLen[l.text] > 0}

VARIABLES
  input,              \* the lines read so far
  k,                  \* the number of the next one
  val,                \* the value of the node of each key that has one
  uniq_line, dups_line, line_mem, \* the counters of struct SET_TYPE
  warned,             \* the lines the last warning named as duplicates
  pc                  \* "load", or "loaded" once getline has failed

vars == <<input, k, val, uniq_line, dups_line, line_mem, warned, pc>>

\* Mutant of FirstNumber: the lines are numbered from 0.
FirstNumberZero == 0

FirstNumber == 1

NoWarning == <<0, 0>>

Init == /\ input = <<>>
        /\ k = FirstNumber
        /\ val = [x \in {} |-> 0]
        /\ uniq_line = 0 /\ dups_line = 0 /\ line_mem = 0
        /\ warned = NoWarning
        /\ pc = "load"
-----------------------------------------------------------------------------
\* What getline returns: the length of the line with its newline.
RawLen(l) == TextLen[l.text] + (IF l.nul THEN 1 + l.tail ELSE 0)
                             + (IF l.eol THEN 1 ELSE 0)

\* Mutant of KeyLen: a newline is taken off a truncated line too.
KeyLenChopped(l) == (IF l.nul THEN TextLen[l.text] ELSE RawLen(l))
                      - (IF l.eol THEN 1 ELSE 0)

\* The length passed to SET_PUT: up to the NUL char, without the newline,
\* which is there to be taken off only when nothing was truncated.
KeyLen(l) == LET n == IF l.nul THEN TextLen[l.text] ELSE RawLen(l)
             IN  IF ~l.nul /\ l.eol THEN n - 1 ELSE n

\* Mutant of PutValue: the value is set on every insert.
PutValueAlways(x, n) ==
  [y \in DOMAIN val \cup {x} |-> IF y = x THEN n % ValueLimit ELSE val[y]]

\* SET_PUT: a node gets the line number when it is created, cut to the width
\* of its value.
PutValue(x, n) ==
  [y \in DOMAIN val \cup {x} |-> IF y \in DOMAIN val THEN val[y]
                                                     ELSE n % ValueLimit]

\* What SET_PUT returns: 0 for a new key.
PutResult(x) == IF x \in DOMAIN val THEN val[x] ELSE 0

\* Mutant of Counted: a duplicate is told by its number being that of an
\* earlier line.
CountedByOrder(r) == r < k - 1

\* Whether SET_LOAD counts the line as unique.
Counted(r) == r = 0

MoreInput == input # <<>> => input[Len(input)].eol

\* One round of the loop of SET_LOAD.
ReadLine(l) ==
  LET r == PutResult(l.text) IN
  /\ pc = "load" /\ Len(input) < MaxLines /\ MoreInput
  /\ input' = Append(input, l)
  /\ val' = PutValue(l.text, k)
  /\ IF Counted(r)
       THEN uniq_line' = uniq_line + 1 /\ UNCHANGED <<dups_line, warned>>
       ELSE /\ dups_line' = dups_line + 1
            /\ warned' = <<r, k>>
            /\ UNCHANGED uniq_line
  /\ line_mem' = line_mem + KeyLen(l)
  /\ k' = k + 1
  /\ UNCHANGED pc

\* getline fails at the end of the input.
EndOfInput == /\ pc = "load"
              /\ pc' = "loaded"
              /\ UNCHANGED <<input, k, val, uniq_line, dups_line, line_mem, warned>>

Loaded == pc = "loaded" /\ UNCHANGED vars

Next == (\E l \in Line : ReadLine(l)) \/ EndOfInput \/ Loaded

Spec == Init /\ [][Next]_vars
-----------------------------------------------------------------------------
Keys == {input[i].text : i \in DOMAIN input}

\* Line i is the first of the lines in that holds the key x.
IsFirst(in, x, i) == /\ i \in DOMAIN in
                     /\ in[i].text = x
                     /\ \A j \in 1..(i - 1) : in[j].text # x

FirstLine(x) == CHOOSE i \in DOMAIN input : IsFirst(input, x, i)

\* The type invariant, and that the program and the file agree on the line.
TypeOK == /\ input \in Seq(Line)
          /\ k = Len(input) + 1
          /\ DOMAIN val \subseteq Texts
          /\ \A x \in DOMAIN val : val[x] \in 0..(ValueLimit - 1)
          /\ uniq_line \in Nat /\ dups_line \in Nat /\ line_mem \in Nat
          /\ warned \in (0..ValueLimit) \X Nat
          /\ pc \in {"load", "loaded"}

(***************************************************************************)
(* "the number of unique input lines", "the number of duplicate input      *)
(* lines" (--help-stats): the program counts the different lines of the    *)
(* input, although it never looks at the answer of the insert but only at  *)
(* the number returned, where 0 stands for none.                           *)
(***************************************************************************)
CountsRight == /\ uniq_line = Cardinality(Keys)
               /\ uniq_line + dups_line = Len(input)

\* Each key has the number of the line that first held it, whatever came after.
FirstLineKept == /\ DOMAIN val = Keys
                 /\ \A x \in Keys : val[x] = FirstLine(x)

\* A warning names two lines with the same text, the first of them the first
\* in the input.
WarningRight ==
  warned # NoWarning =>
    /\ warned[2] \in DOMAIN input
    /\ warned[1] = FirstLine(input[warned[2]].text)
    /\ warned[1] < warned[2]

\* The number of bytes of the texts that were inserted.
SumLen == LET f[i \in 0..Len(input)] ==
                IF i = 0 THEN 0 ELSE f[i - 1] + TextLen[input[i].text]
          IN  f[Len(input)]
=============================================================================
