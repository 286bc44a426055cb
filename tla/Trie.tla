-------------------------------- MODULE Trie --------------------------------
(***************************************************************************)
(* The ternary search trie of src/src/trie-impl.h.  It is compiled twice:  *)
(* in the plain set it holds the lines, and a line's last node the line's  *)
(* number; in the trie path set it holds path elements, and each node knows*)
(* the one above it, so that the path trie can print an element of which it*)
(* has only the last node (TRIE_NEED_PRINT_ONE).                           *)
(*                                                                         *)
(* Nodes come from a pool and never move: a pointer is the number of its   *)
(* node, in the order of allocation.                                       *)
(***************************************************************************)
EXTENDS Integers, Sequences, FiniteSets

CONSTANTS
  Keys,      \* the strings: sequences of characters, which are numbers
  NoKey,     \* no string
  MaxInserts \* bound: the number of insert calls

ASSUME KeysAssumption == /\ Keys \subseteq Seq(1..255)
                         /\ NoKey \notin Keys
                         /\ MaxInserts \in Nat

VARIABLES
  build,   \* "plain" or "elems": never changes
  mem,     \* mem[n]: node n
  root,    \* trie->root_node
  pc,      \* where the call in progress stands
  key,     \* its argument
  rest,    \* what is left of it: 'key' and 'len'
  ptr,     \* the link followed next
  up, base,\* locals of TRIE_INSERT in the build "elems"
  inserts, \* the number of insert calls: the caller's line number
  ret,     \* what the last call returned
  frames,  \* TRIE_PRINTER_PRINT: its calls in progress
  str,     \* the printer's stack
  q,       \* TRIE_PRINTER_PRINT_ONE: where its walk is
  out      \* the lines printed

locals == <<key, rest, ptr, up, base>>
printer == <<frames, str, q, out>>
vars == <<build, mem, root, pc, locals, inserts, ret, printer>>

Null == 0

Elems == build = "elems"

\* The strings a build inserts: a line may be empty, an element is not.
Insertable == IF Elems THEN Keys \ {<<>>} ELSE Keys

Node == [ch : 0..255, up : Nat, lo : Nat, hi : Nat, eq : Nat]

\* Mutants of NewNode: the pool does not clear its memory; 'up' is moved on
\* before the node is made.
NewNodeDirty(c) == [ch |-> c, up |-> up, lo |-> Len(mem) + 2, hi |-> Null, eq |-> Null]
NewNodeSelf(c) == [ch |-> c, up |-> IF Elems THEN Len(mem) + 1 ELSE Null,
                   lo |-> Null, hi |-> Null, eq |-> Null]

\* 'eq' stands for the union: the link, or 'val' of a node without a character.
NewNode(c) == [ch |-> c, up |-> up, lo |-> Null, hi |-> Null, eq |-> Null]

NoResult == [found |-> FALSE, node |-> NoKey]

RootLink == [node |-> Null, link |-> "root"]

LinkOf(n, l) == [node |-> n, link |-> l]

\* The node the link leads to.
Here == IF ptr.link = "root" THEN root ELSE mem[ptr.node][ptr.link]

\* The character compared: 0 at the end of the string.
Char == IF rest = <<>> THEN 0 ELSE Head(rest)

After == IF rest = <<>> THEN <<>> ELSE Tail(rest)

\* Mutant of Side: characters are compared as signed bytes.
SideSigned(c, n) ==
  LET sign(x) == IF x > 127 THEN x - 256 ELSE x
  IN  IF c = mem[n].ch THEN "eq"
      ELSE IF sign(c) < sign(mem[n].ch) THEN "lo" ELSE "hi"

Side(c, n) == IF c = mem[n].ch THEN "eq"
              ELSE IF c < mem[n].ch THEN "lo" ELSE "hi"

Init == /\ build \in {"plain", "elems"}
        /\ mem = <<>> /\ root = Null
        /\ pc = "idle" /\ key = NoKey /\ rest = <<>>
        /\ ptr = RootLink /\ up = Null /\ base = Null
        /\ inserts = 0 /\ ret = NoResult
        /\ frames = <<>> /\ str = <<>> /\ q = Null /\ out = <<>>

Call(f, k) == /\ pc = "idle"
              /\ pc' = f
              /\ key' = k /\ rest' = k
              /\ ptr' = RootLink /\ up' = Null /\ base' = Null
              /\ ret' = NoResult
              /\ UNCHANGED <<build, mem, root, printer>>

\* The locals of the C functions are gone when they return.
Leave == /\ pc' = "idle"
         /\ key' = NoKey /\ rest' = <<>>
         /\ ptr' = RootLink /\ up' = Null /\ base' = Null

Return(found, k) == ret' = [found |-> found, node |-> k] /\ Leave
-----------------------------------------------------------------------------
(***************************************************************************)
(* TRIE_INSERT                                                             *)
(***************************************************************************)
CallInsert(k) == /\ inserts < MaxInserts
                 /\ inserts' = inserts + 1
                 /\ Call("walk", k)

WalkFound == /\ pc = "walk" /\ Here # Null
             /\ Char = 0 /\ mem[Here].ch = 0
             /\ Return(TRUE, key)
             /\ UNCHANGED <<build, mem, root, inserts, printer>>

\* Mutants of WalkNext: the string is moved on in each branch; 'up' follows
\* equal characters only.
WalkNextLost ==
  /\ pc = "walk" /\ Here # Null
  /\ Char # 0 \/ mem[Here].ch # 0
  /\ ptr' = LinkOf(Here, Side(Char, Here))
  /\ rest' = After
  /\ base' = IF Elems /\ base = Null THEN Here ELSE base
  /\ up' = IF Elems THEN Here ELSE up
  /\ UNCHANGED <<build, mem, root, pc, key, inserts, ret, printer>>
WalkNextUp ==
  /\ pc = "walk" /\ Here # Null
  /\ Char # 0 \/ mem[Here].ch # 0
  /\ ptr' = LinkOf(Here, Side(Char, Here))
  /\ IF Side(Char, Here) = "eq"
       THEN /\ rest' = After
            /\ base' = IF Elems /\ base = Null THEN Here ELSE base
            /\ up' = IF Elems THEN Here ELSE up
       ELSE UNCHANGED <<rest, base, up>>
  /\ UNCHANGED <<build, mem, root, pc, key, inserts, ret, printer>>

\* 'base' is the first node with a character of the string.
WalkNext ==
  /\ pc = "walk" /\ Here # Null
  /\ Char # 0 \/ mem[Here].ch # 0
  /\ ptr' = LinkOf(Here, Side(Char, Here))
  /\ IF Side(Char, Here) = "eq"
       THEN /\ rest' = After
            /\ base' = IF Elems /\ base = Null THEN Here ELSE base
       ELSE UNCHANGED <<rest, base>>
  /\ up' = IF Elems THEN Here ELSE up
  /\ UNCHANGED <<build, mem, root, pc, key, inserts, ret, printer>>

WalkEnd == /\ pc = "walk" /\ Here = Null
           /\ pc' = "grow"
           /\ UNCHANGED <<build, mem, root, locals, inserts, ret, printer>>

\* One round of the second loop: a new node, linked at once.  The last one is
\* the string's: its value is the base, or is set by the caller.
Grow == LET n == Len(mem) + 1
            b == IF Elems /\ base = Null THEN n ELSE base
            new == IF Char = 0 /\ Elems THEN [NewNode(Char) EXCEPT !.eq = b]
                                        ELSE NewNode(Char)
        IN /\ pc = "grow"
           /\ root' = IF ptr.link = "root" THEN n ELSE root
           /\ mem' = Append(IF ptr.link = "root" THEN mem
                            ELSE [mem EXCEPT ![ptr.node][ptr.link] = n], new)
           /\ IF Char # 0
                THEN /\ ptr' = LinkOf(n, "eq")
                     /\ up' = IF Elems THEN n ELSE up
                     /\ base' = b
                     /\ rest' = After
                     /\ UNCHANGED <<pc, key, ret>>
                ELSE IF Elems
                THEN Return(FALSE, key)
                ELSE /\ pc' = "put"
                     /\ ret' = [found |-> FALSE, node |-> key]
                     /\ UNCHANGED locals
           /\ UNCHANGED <<build, inserts, printer>>

\* SET_PUT sets the value of a new line.
SetValue == /\ pc = "put"
            /\ mem' = [mem EXCEPT ![Here].eq = inserts]
            /\ Leave
            /\ UNCHANGED <<build, root, inserts, ret, printer>>

\* The pool has no memory for a node: ENSURE ends the program.
NoMemory == /\ pc = "grow"
            /\ pc' = "nomem"
            /\ UNCHANGED <<build, mem, root, locals, inserts, ret, printer>>
-----------------------------------------------------------------------------
(***************************************************************************)
(* TRIE_LOOKUP                                                             *)
(***************************************************************************)
CallLookup(k) == Call("lookup", k) /\ UNCHANGED inserts

LookupNext ==
  /\ pc = "lookup" /\ Here # Null
  /\ Char # 0 \/ mem[Here].ch # 0
  /\ ptr' = LinkOf(Here, Side(Char, Here))
  /\ IF Side(Char, Here) = "eq" THEN rest' = After ELSE UNCHANGED rest
  /\ UNCHANGED <<build, mem, root, pc, key, up, base, inserts, ret, printer>>

LookupEnd ==
  /\ pc = "lookup"
  /\ \/ Here # Null /\ Char = 0 /\ mem[Here].ch = 0 /\ Return(TRUE, key)
     \/ Here = Null /\ Return(FALSE, NoKey)
  /\ UNCHANGED <<build, mem, root, inserts, printer>>
-----------------------------------------------------------------------------
(***************************************************************************)
(* TRIE_PRINT: a recursive function, its stack of calls 'frames'.          *)
(***************************************************************************)
kept == <<build, mem, root, locals, inserts, ret>>

Top == frames[Len(frames)]
Pop(s) == SubSeq(s, 1, Len(s) - 1)
GoOn(at) == [frames EXCEPT ![Len(frames)].at = at]
Enter(fs, n) == IF n = Null THEN fs ELSE Append(fs, [node |-> n, at |-> "lo"])

CallPrint == /\ pc = "idle"
             /\ pc' = "print"
             /\ frames' = Enter(<<>>, root)
             /\ UNCHANGED <<kept, str, q, out>>

PrintLo == /\ pc = "print" /\ frames # <<>> /\ Top.at = "lo"
           /\ frames' = Enter(GoOn("self"), mem[Top.node].lo)
           /\ UNCHANGED <<kept, pc, str, q, out>>

\* A string ends here, or goes on below.
PrintSelf == /\ pc = "print" /\ frames # <<>> /\ Top.at = "self"
             /\ IF mem[Top.node].ch = 0
                  THEN /\ out' = Append(out, str)
                       /\ frames' = GoOn("hi")
                       /\ UNCHANGED str
                  ELSE /\ str' = Append(str, mem[Top.node].ch)
                       /\ frames' = Enter(GoOn("pop"), mem[Top.node].eq)
                       /\ UNCHANGED out
             /\ UNCHANGED <<kept, pc, q>>

PrintPop == /\ pc = "print" /\ frames # <<>> /\ Top.at = "pop"
            /\ str' = Pop(str)
            /\ frames' = GoOn("hi")
            /\ UNCHANGED <<kept, pc, q, out>>

PrintHi == /\ pc = "print" /\ frames # <<>> /\ Top.at = "hi"
           /\ frames' = Enter(Pop(frames), mem[Top.node].hi)
           /\ UNCHANGED <<kept, pc, str, q, out>>

PrintDone == /\ pc = "print" /\ frames = <<>>
             /\ pc' = "printed"
             /\ UNCHANGED <<kept, printer>>
-----------------------------------------------------------------------------
(***************************************************************************)
(* TRIE_PRINTER_PRINT_ONE(n): the string of which n is the last node, by a *)
(* walk up to its base.                                                    *)
(***************************************************************************)
CallPrintOne(n) == /\ pc = "idle" /\ Elems
                   /\ mem[n].ch = 0
                   /\ pc' = "climb"
                   /\ frames' = <<n>>  \* the argument
                   /\ q' = n
                   /\ str' = <<>>
                   /\ UNCHANGED <<kept, out>>

\* One round of the loop; ASSERT(q != NULL).
Climb == LET u == mem[q].up IN
         /\ pc = "climb"
         /\ q' = u
         /\ IF u = Null
              THEN pc' = "assert" /\ UNCHANGED str
              ELSE /\ str' = IF mem[u].ch # 0 /\ mem[u].eq = q
                               THEN Append(str, mem[u].ch) ELSE str
                   /\ pc' = IF u = mem[frames[1]].eq THEN "spell" ELSE "climb"
         /\ UNCHANGED <<kept, frames, out>>

\* The stack is printed from its top down; STACK_BEG_REF needs it nonempty.
SpellOne == /\ pc = "spell"
            /\ IF str = <<>>
                 THEN pc' = "assert" /\ UNCHANGED out
                 ELSE /\ out' = <<[i \in 1..Len(str) |-> str[Len(str) + 1 - i]]>>
                      /\ pc' = "spelled"
            /\ UNCHANGED <<kept, frames, str, q>>

\* The caller goes on.
Spelled == /\ pc = "spelled"
           /\ pc' = "idle"
           /\ frames' = <<>> /\ str' = <<>> /\ q' = Null /\ out' = <<>>
           /\ UNCHANGED kept
-----------------------------------------------------------------------------
\* The set was printed, or the program has exited.
Stopped == pc \in {"printed", "nomem", "assert"} /\ UNCHANGED vars

Insert == WalkFound \/ WalkNext \/ WalkEnd \/ Grow \/ SetValue

Lookup == LookupNext \/ LookupEnd

PrintAll == PrintLo \/ PrintSelf \/ PrintPop \/ PrintHi \/ PrintDone

PrintOne == Climb \/ SpellOne \/ Spelled

\* The steps the program takes on its own once a function was called.
Step == Insert \/ Lookup \/ PrintAll \/ PrintOne

Next == \/ \E k \in Insertable : CallInsert(k)
        \/ \E k \in Keys : CallLookup(k)
        \/ CallPrint
        \/ \E n \in DOMAIN mem : CallPrintOne(n)
        \/ Step
        \/ NoMemory
        \/ Stopped

Spec == Init /\ [][Next]_vars

FairSpec == Spec /\ WF_vars(Step)
-----------------------------------------------------------------------------
Pointers == 0..Len(mem)

(***************************************************************************)
(* The type invariant: pointers lead to nodes, and the union of a node with*)
(* a character is one.                                                     *)
(***************************************************************************)
TypeOK ==
  /\ build \in {"plain", "elems"}
  /\ mem \in Seq(Node)
  /\ \A n \in DOMAIN mem :
       /\ mem[n].up \in Pointers /\ mem[n].lo \in Pointers /\ mem[n].hi \in Pointers
       /\ mem[n].eq \in IF mem[n].ch = 0 /\ ~Elems THEN 0..inserts ELSE Pointers
  /\ root \in Pointers
  /\ pc \in {"idle", "walk", "grow", "put", "lookup", "print", "printed",
             "climb", "spell", "spelled", "assert", "nomem"}
  /\ key \in Keys \cup {NoKey}
  /\ rest \in Seq(1..255)
  /\ ptr = RootLink \/ (ptr.node \in DOMAIN mem /\ ptr.link \in {"lo", "hi", "eq"})
  /\ up \in Pointers /\ base \in Pointers /\ q \in Pointers
  /\ inserts \in 0..MaxInserts
  /\ ret \in [found : BOOLEAN, node : Keys \cup {NoKey}]
  /\ str \in Seq(1..255)

\* The strings below n with their last nodes, read off the links and not by a
\* search.
Strings(n) ==
  LET f[i \in Pointers] ==
        IF i = Null THEN {}
        ELSE f[mem[i].lo] \cup f[mem[i].hi] \cup
             (IF mem[i].ch = 0 THEN {<<<<>>, i>>}
              ELSE {<<<<mem[i].ch>> \o t[1], t[2]>> : t \in f[mem[i].eq]})
  IN  f[n]

Stored == {t[1] : t \in Strings(root)}

\* a comes before b in the order of their bytes, a prefix before what it begins.
Before(a, b) ==
  \E i \in 0..Len(a) : /\ i < Len(b)
                       /\ \A j \in 1..i : a[j] = b[j]
                       /\ i = Len(a) \/ a[i + 1] < b[i + 1]

(***************************************************************************)
(* TRIE_PRINT prints each string once, in the order of their bytes, however*)
(* they were inserted: the walk in order of a tree of trees whose levels   *)
(* are all search trees, with the end of a string as the smallest symbol.  *)
(***************************************************************************)
PrintsSorted == pc = "printed" =>
  /\ {out[i] : i \in DOMAIN out} = Stored
  /\ \A i, j \in DOMAIN out : i < j => Before(out[i], out[j])

(***************************************************************************)
(* An element is printed as it was inserted: the walk up from its last node*)
(* passes nodes of other strings, tells them by the link it came by, and   *)
(* ends where the insert of that string began to match, at its base.  The  *)
(* assertions on the way hold.                                             *)
(***************************************************************************)
PrintsElement ==
  /\ pc # "assert"
  /\ pc = "spelled" => <<out[1], frames[1]>> \in Strings(root)

\* Every call returns, unless the program exits.
CallsReturn == pc # "idle" ~> pc \in {"idle", "printed", "nomem"}

(***************************************************************************)
(* The trie implements KeySet: a string gets its node with its first insert*)
(* and is never lost, a lookup finds it and no other, although the nodes of*)
(* half an insert are already in the tree.                                 *)
(***************************************************************************)
Op == IF pc = "lookup" THEN "lookup"
      ELSE IF pc \in {"walk", "grow", "nomem"} THEN "insert" ELSE "none"

Abstract == INSTANCE KeySet
              WITH stored <- Stored, op <- Op,
                   arg <- IF Op = "none" THEN NoKey ELSE key

ImplementsKeySet == Abstract!Spec
=============================================================================
