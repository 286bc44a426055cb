------------------------------ MODULE PathTrie ------------------------------
(***************************************************************************)
(* The path trie of src/src/path-trie-impl.h: a ternary search tree whose  *)
(* symbols are path elements.  A line is cut into elements one by one, each*)
(* is interned in the element set, and the pointers (or offsets) the set   *)
(* returns are the symbols, ordered by a mix function of their values.     *)
(*                                                                         *)
(* This is the build with 32-bit node offsets: the nodes are in one table, *)
(* which the object allocator may move when it grows.  In the other build  *)
(* nodes never move, one of the behaviours below.  The element set is      *)
(* represented by what KeySet promises of it: one pointer per string.      *)
(***************************************************************************)
EXTENDS Integers, Sequences, FiniteSets

CONSTANTS
  Chars, Lines, \* the lines the program may read: sequences of characters
  NoLine,       \* no line
  Seps,         \* trie->sep_set: the separators
  UintHash(_),  \* PATH_TRIE_UINT_HASH, on element pointers
  MaxElems,     \* the largest element pointer
  MaxInserts    \* bound: the number of insert calls

ASSUME LinesAssumption == /\ \A l \in Lines : l \in Seq(Chars)
                          /\ NoLine \notin Lines
                          /\ Seps \subseteq Chars
                          /\ MaxElems \in Nat /\ MaxInserts \in Nat

\* Element pointers, PATH_TRIE_ELEM_NULL among them, hash to different numbers.
ASSUME HashAssumption ==
  \A a, b \in 0..MaxElems : /\ UintHash(a) \in Nat
                            /\ UintHash(a) = UintHash(b) => a = b

VARIABLES
  elems,   \* the element set: the strings interned, in the order of their
           \* pointers, which are the numbers 1, 2, ...
  mem,     \* the node table: node n is the record at offset n
  addr,    \* where the table is: realloc moves it from one place to the other
  root,    \* trie->root_node
  pc,      \* where the call in progress stands
  line,    \* the argument of the call
  rest,    \* what is left of it: *key and *len
  elem, next, ptr, \* locals of PATH_TRIE_INSERT ...
  cur,             \* ... and of PATH_TRIE_LOOKUP, whose 'ptr' is an offset
  inserts, \* the number of insert calls: the caller's line number
  ret,     \* what the last insert returned
  frames,  \* PATH_TRIE_PRINTER_PRINT: its calls in progress
  path,    \* the printer's stack of element pointers
  out      \* the lines printed

locals == <<line, rest, elem, next, ptr, cur>>
printer == <<frames, path, out>>
vars == <<elems, mem, addr, root, pc, locals, inserts, ret, printer>>

Null == 0  \* PATH_TRIE_PTR_NULL, PATH_TRIE_ELEM_NULL
-----------------------------------------------------------------------------
(***************************************************************************)
(* Elements                                                                *)
(***************************************************************************)
\* PATH_TRIE_SPLIT: the first element ends with the first separator.
SplitLen(s) ==
  LET cuts == {i \in DOMAIN s : s[i] \in Seps}
  IN  IF cuts = {} THEN Len(s) ELSE CHOOSE i \in cuts : \A j \in cuts : i <= j

First(s) == SubSeq(s, 1, SplitLen(s))

AfterFirst(s) == SubSeq(s, SplitLen(s) + 1, Len(s))

\* The pointer of an interned string, Null when the string has none.
Interned(s) == IF \E i \in DOMAIN elems : elems[i] = s
                 THEN CHOOSE i \in DOMAIN elems : elems[i] = s
                 ELSE Null

\* PATH_TRIE_PUT_ELEM: the next element of the line, interned; Null at its end.
PutElem ==
  IF rest = <<>>
    THEN elem' = Null /\ UNCHANGED <<elems, rest>>
    ELSE /\ rest' = AfterFirst(rest)
         /\ IF Interned(First(rest)) # Null
              THEN elem' = Interned(First(rest)) /\ UNCHANGED elems
              ELSE /\ Len(elems) < MaxElems
                   /\ elem' = Len(elems) + 1
                   /\ elems' = Append(elems, First(rest))

\* Mutant of GetElem: the key is not moved past the element.
GetElemStuck ==
  /\ elem' = IF rest = <<>> THEN Null ELSE Interned(First(rest))
  /\ UNCHANGED rest

\* PATH_TRIE_GET_ELEM: the same, but nothing is interned.
GetElem ==
  /\ elem' = IF rest = <<>> THEN Null ELSE Interned(First(rest))
  /\ rest' = IF rest = <<>> THEN rest ELSE AfterFirst(rest)

PtrLt(a, b) == UintHash(a) < UintHash(b)
-----------------------------------------------------------------------------
(***************************************************************************)
(* Nodes, and struct ptr2_t: a link of the node at offset 'base', or the   *)
(* root pointer, with the address it had when it was last dereferenced.    *)
(***************************************************************************)
\* Mutant of NewNode: the allocator does not clear its memory.
NewNodeDirty(e) == [elem |-> e, lo |-> 1, hi |-> Null, eq |-> Null]

\* 'eq' stands for the union: the node below, or the value of a line's node.
NewNode(e) == [elem |-> e, lo |-> Null, hi |-> Null, eq |-> Null]

RootPtr2 == [link |-> "self", base |-> Null, self |-> Null]

\* Mutant of Deref: an address once computed is not computed again.
DerefOnce(p) == IF p.link = "self" \/ p.self # Null
                  THEN p ELSE [p EXCEPT !.self = addr]

\* PATH_TRIE_PTR2_DEREF
Deref(p) == IF p.link = "self" THEN p ELSE [p EXCEPT !.self = addr]

\* A link is read and written where the table is now.
Valid(p) == p.link = "self" \/ p.self = addr

Load(p) == IF p.link = "self" THEN root
           ELSE IF Valid(p) THEN mem[p.base][p.link] ELSE Null

\* Mutant of LinkOf: the node the link is in is taken for the one it leads to.
LinkOfBase(p, n, l) == [link |-> l, base |-> p.base, self |-> Null]

\* PATH_TRIE_LINK_TO_PTR2(l), where *p.self is n
LinkOf(p, n, l) == [link |-> l, base |-> n, self |-> Null]

\* Where an element different from that of node n, or equal to it, goes on.
Side(e, n) == IF e = mem[n].elem THEN "eq"
              ELSE IF PtrLt(e, mem[n].elem) THEN "lo" ELSE "hi"

\* Both are at the end of a line.
AtEnd(e, n) == e = Null /\ mem[n].elem = Null
-----------------------------------------------------------------------------
NoResult == [found |-> FALSE, node |-> NoLine]

Init == /\ elems = <<>> /\ mem = <<>> /\ addr = 1 /\ root = Null
        /\ pc = "idle" /\ line = NoLine /\ rest = <<>>
        /\ elem = Null /\ next = TRUE /\ ptr = RootPtr2 /\ cur = Null
        /\ inserts = 0 /\ ret = NoResult
        /\ frames = <<>> /\ path = <<>> /\ out = <<>>

Call(f, l) == /\ pc = "idle"
              /\ pc' = f
              /\ line' = l /\ rest' = l
              /\ elem' = Null /\ next' = TRUE /\ ptr' = RootPtr2 /\ cur' = root
              /\ UNCHANGED <<elems, mem, addr, root, printer>>

\* The locals of the C functions are gone when they return.
Return == /\ pc' = "idle"
          /\ line' = NoLine /\ rest' = <<>>
          /\ elem' = Null /\ next' = TRUE /\ ptr' = RootPtr2 /\ cur' = Null

(***************************************************************************)
(* PATH_TRIE_INSERT: the line is followed into the tree ...                *)
(***************************************************************************)
CallInsert(l) == /\ inserts < MaxInserts
                 /\ inserts' = inserts + 1
                 /\ ret' = NoResult
                 /\ Call("walk", l)

Here == Load(Deref(ptr))  \* PATH_TRIE_PTR2_DEREF_NODE()

WalkFetch == /\ pc = "walk" /\ Here # Null /\ next
             /\ PutElem
             /\ next' = FALSE
             /\ ptr' = Deref(ptr)
             /\ UNCHANGED <<mem, addr, root, pc, line, cur, inserts, ret, printer>>

\* Mutant of WalkFound: the caller sets the value of a line it had already.
WalkFoundPut == /\ pc = "walk" /\ Here # Null /\ ~next
                /\ AtEnd(elem, Here)
                /\ ret' = [found |-> TRUE, node |-> line]
                /\ pc' = "put"
                /\ ptr' = Deref(ptr)
                /\ UNCHANGED <<elems, mem, addr, root, line, rest, elem, next,
                               cur, inserts, printer>>

WalkFound == /\ pc = "walk" /\ Here # Null /\ ~next
             /\ AtEnd(elem, Here)
             /\ ret' = [found |-> TRUE, node |-> line]
             /\ Return
             /\ UNCHANGED <<elems, mem, addr, root, inserts, printer>>

WalkNext == /\ pc = "walk" /\ Here # Null /\ ~next
            /\ ~AtEnd(elem, Here)
            /\ ptr' = LinkOf(Deref(ptr), Here, Side(elem, Here))
            /\ next' = (Side(elem, Here) = "eq")
            /\ UNCHANGED <<elems, mem, addr, root, pc, line, rest, elem, cur,
                           inserts, ret, printer>>

WalkEnd == /\ pc = "walk" /\ Here = Null
           /\ pc' = "grow"
           /\ ptr' = Deref(ptr)
           /\ UNCHANGED <<elems, mem, addr, root, line, rest, elem, next, cur,
                          inserts, ret, printer>>

(***************************************************************************)
(* ... and the rest of it hung below the link the walk ended at, a node for*)
(* each element and a last one with no element.                            *)
(***************************************************************************)
GrowFetch == /\ pc = "grow" /\ next
             /\ PutElem
             /\ next' = FALSE
             /\ UNCHANGED <<mem, addr, root, pc, line, ptr, cur, inserts, ret, printer>>

\* PATH_TRIE_NODE_ALLOC_ALLOCATE: the table may grow and move to the address a.
Allocate(a) == /\ pc = "grow" /\ ~next
               /\ mem' = Append(mem, NewNode(elem))
               /\ addr' = a
               /\ pc' = "store"
               /\ UNCHANGED <<elems, root, locals, inserts, ret, printer>>

\* *PATH_TRIE_PTR2_DEREF(p) = __b, and the end of the loop or its next round.
Store == LET p == Deref(ptr)
             b == Len(mem)
         IN /\ pc = "store"
            /\ root' = IF p.link = "self" THEN b ELSE root
            /\ mem' = IF p.link # "self" /\ Valid(p)
                        THEN [mem EXCEPT ![p.base][p.link] = b] ELSE mem
            /\ IF elem = Null
                 THEN /\ pc' = "put"
                      /\ ret' = [found |-> FALSE, node |-> line]
                      /\ ptr' = p
                      /\ UNCHANGED next
                 ELSE /\ pc' = "grow"
                      /\ ptr' = LinkOf(p, b, "eq")
                      /\ next' = TRUE
                      /\ UNCHANGED ret
            /\ UNCHANGED <<elems, addr, line, rest, elem, cur, inserts, printer>>

\* SET_PUT sets the value of a new line: its number.
SetValue == /\ pc = "put"
            /\ mem' = [mem EXCEPT ![Load(ptr)].eq = inserts]
            /\ Return
            /\ UNCHANGED <<elems, addr, root, inserts, ret, printer>>

\* An allocation of an element or of a node fails: ENSURE ends the program.
NoMemory == /\ \/ pc = "walk" /\ Here # Null /\ next
               \/ pc = "grow"
            /\ pc' = "nomem"
            /\ UNCHANGED <<elems, mem, addr, root, locals, inserts, ret, printer>>
-----------------------------------------------------------------------------
(***************************************************************************)
(* PATH_TRIE_LOOKUP                                                        *)
(***************************************************************************)
CallLookup(l) == Call("lookup", l) /\ UNCHANGED <<inserts, ret>>

LookupFetch == /\ pc = "lookup" /\ cur # Null /\ next
               /\ GetElem
               /\ next' = FALSE
               /\ UNCHANGED <<elems, mem, addr, root, pc, line, ptr, cur,
                              inserts, ret, printer>>

LookupNext == /\ pc = "lookup" /\ cur # Null /\ ~next
              /\ ~AtEnd(elem, cur)
              /\ cur' = mem[cur][Side(elem, cur)]
              /\ next' = (Side(elem, cur) = "eq")
              /\ UNCHANGED <<elems, mem, addr, root, pc, line, rest, elem, ptr,
                             inserts, ret, printer>>

\* TRUE is returned, with the node.
LookupFound == /\ pc = "lookup" /\ cur # Null /\ ~next
               /\ AtEnd(elem, cur)
               /\ Return
               /\ UNCHANGED <<elems, mem, addr, root, inserts, ret, printer>>

LookupNotFound == /\ pc = "lookup" /\ cur = Null
                  /\ Return
                  /\ UNCHANGED <<elems, mem, addr, root, inserts, ret, printer>>
-----------------------------------------------------------------------------
(***************************************************************************)
(* PATH_TRIE_PRINT: a recursive function, its stack of calls 'frames'.     *)
(***************************************************************************)
kept == <<elems, mem, addr, root, locals, inserts, ret>>

Top == frames[Len(frames)]
Cut(s) == SubSeq(s, 1, Len(s) - 1)
GoOn(at) == [frames EXCEPT ![Len(frames)].at = at]
Enter(fs, n) == IF n = Null THEN fs ELSE Append(fs, [node |-> n, at |-> "lo"])

\* The characters of a sequence of elements.
Spell(es) == LET f[i \in 0..Len(es)] ==
                   IF i = 0 THEN <<>> ELSE f[i - 1] \o elems[es[i]]
             IN  f[Len(es)]

CallPrint == /\ pc = "idle"
             /\ pc' = "print"
             /\ frames' = Enter(<<>>, root)
             /\ UNCHANGED <<kept, path, out>>

PrintLo == /\ pc = "print" /\ frames # <<>> /\ Top.at = "lo"
           /\ frames' = Enter(GoOn("self"), mem[Top.node].lo)
           /\ UNCHANGED <<kept, pc, path, out>>

\* STACK_BEG_REF ends the program when the stack is empty.
PrintLine == /\ pc = "print" /\ frames # <<>> /\ Top.at = "self"
             /\ mem[Top.node].elem = Null
             /\ IF path = <<>>
                  THEN pc' = "stack_empty" /\ UNCHANGED <<frames, out>>
                  ELSE /\ out' = Append(out, Spell(path))
                       /\ frames' = GoOn("hi")
                       /\ UNCHANGED pc
             /\ UNCHANGED <<kept, path>>

PrintEq == /\ pc = "print" /\ frames # <<>> /\ Top.at = "self"
           /\ mem[Top.node].elem # Null
           /\ IF mem[Top.node].eq = Null
                THEN frames' = GoOn("hi") /\ UNCHANGED path
                ELSE /\ path' = Append(path, mem[Top.node].elem)
                     /\ frames' = Enter(GoOn("pop"), mem[Top.node].eq)
           /\ UNCHANGED <<kept, pc, out>>

\* Mutant of PrintPop: the element stays on the stack.
PrintNoPop == /\ pc = "print" /\ frames # <<>> /\ Top.at = "pop"
              /\ frames' = GoOn("hi")
              /\ UNCHANGED <<kept, pc, path, out>>

PrintPop == /\ pc = "print" /\ frames # <<>> /\ Top.at = "pop"
            /\ path' = Cut(path)
            /\ frames' = GoOn("hi")
            /\ UNCHANGED <<kept, pc, out>>

\* The last call of the function: nothing is left to do in its caller.
PrintHi == /\ pc = "print" /\ frames # <<>> /\ Top.at = "hi"
           /\ frames' = Enter(Cut(frames), mem[Top.node].hi)
           /\ UNCHANGED <<kept, pc, path, out>>

PrintDone == /\ pc = "print" /\ frames = <<>>
             /\ pc' = "printed"
             /\ UNCHANGED <<kept, printer>>

\* The set was printed, or the program has exited.
Stopped == pc \in {"printed", "stack_empty", "nomem"} /\ UNCHANGED vars
-----------------------------------------------------------------------------
Insert == \/ WalkFetch \/ WalkFound \/ WalkNext \/ WalkEnd
          \/ GrowFetch \/ (\E a \in {1, 2} : Allocate(a)) \/ Store \/ SetValue

Lookup == LookupFetch \/ LookupNext \/ LookupFound \/ LookupNotFound

PrintStep == PrintLo \/ PrintLine \/ PrintEq \/ PrintPop \/ PrintHi \/ PrintDone

\* The steps the program takes on its own once a function was called.
Step == Insert \/ Lookup \/ PrintStep

Next == \/ \E l \in Lines : CallInsert(l) \/ CallLookup(l)
        \/ CallPrint
        \/ Step
        \/ NoMemory
        \/ Stopped

Spec == Init /\ [][Next]_vars

FairSpec == Spec /\ WF_vars(Step)
-----------------------------------------------------------------------------
Offsets == 0..Len(mem)

(***************************************************************************)
(* The type invariant: offsets lie in the node table, except in the nodes  *)
(* without an element, whose 'eq' is a line number.                        *)
(***************************************************************************)
TypeOK ==
  /\ elems \in Seq(Seq(Chars)) /\ Len(elems) <= MaxElems
  /\ \A n \in DOMAIN mem :
       /\ mem[n].elem \in 0..Len(elems)
       /\ mem[n].lo \in Offsets /\ mem[n].hi \in Offsets
       /\ mem[n].eq \in IF mem[n].elem = Null THEN 0..inserts ELSE Offsets
  /\ addr \in {1, 2}
  /\ root \in Offsets
  /\ pc \in {"idle", "walk", "grow", "store", "put", "lookup", "print",
             "printed", "stack_empty", "nomem"}
  /\ line \in Lines \cup {NoLine}
  /\ rest \in Seq(Chars)
  /\ elem \in 0..Len(elems) /\ next \in BOOLEAN /\ cur \in Offsets
  /\ ptr.link = "self" \/ (ptr.link \in {"lo", "hi", "eq"} /\ ptr.base \in DOMAIN mem)
  /\ inserts \in 0..MaxInserts
  /\ ret \in [found : BOOLEAN, node : Lines \cup {NoLine}]
  /\ \A i \in DOMAIN frames : /\ frames[i].node \in DOMAIN mem
                              /\ frames[i].at \in {"lo", "self", "pop", "hi"}
  /\ path \in Seq(1..Len(elems))
  /\ out \in Seq(Seq(Chars))

\* The texts of the lines below n, read off the links and not by a search.
Texts(n) ==
  LET f[i \in Offsets] ==
        IF i = Null THEN {}
        ELSE f[mem[i].lo] \cup f[mem[i].hi] \cup
             (IF mem[i].elem = Null THEN {<<>>}
              ELSE {elems[mem[i].elem] \o t : t \in f[mem[i].eq]})
  IN  f[n]

Stored == Texts(root)

(***************************************************************************)
(* What is stored stays and is found.  A node is never changed once it is  *)
(* linked: its element stays, a link is set once, and the number of a line,*)
(* which shares its memory with the link 'eq', is that of the line's first *)
(* insert for ever.  The walk of a lookup, which interns nothing, takes    *)
(* the same turns as the insert's did.                                     *)
(***************************************************************************)
OnlyGrows == [][/\ \A n \in DOMAIN mem :
                     /\ mem'[n].elem = mem[n].elem
                     /\ \A l \in {"lo", "hi", "eq"} :
                          mem[n][l] # Null => mem'[n][l] = mem[n][l]
                /\ LookupNotFound => line \notin Stored]_vars

\* A print that ends has printed each line that was inserted, once.
PrintsAll == pc = "printed" =>
  /\ {out[i] : i \in DOMAIN out} = Stored
  /\ \A i, j \in DOMAIN out : out[i] = out[j] => i = j

\* "print out the path set" (--help): the program prints the set it holds, it
\* does not stop in the middle of it.
PrintSucceeds == pc # "stack_empty"

\* Every call returns, unless the program exits.
CallsReturn == pc # "idle" ~> pc \in {"idle", "printed", "stack_empty", "nomem"}

(***************************************************************************)
(* The inserts implement KeySet: a line gets one node, at its first insert,*)
(* and is never lost, although the node table may move between the end of  *)
(* the walk and the store of each link.                                    *)
(***************************************************************************)
Inserting == pc \in {"walk", "grow", "store", "nomem"}

Abstract == INSTANCE KeySet
              WITH Keys <- Lines, NoKey <- NoLine, stored <- Stored,
                   op <- IF Inserting THEN "insert" ELSE "none",
                   arg <- IF Inserting THEN line ELSE NoLine

ImplementsKeySet == Abstract!Spec
=============================================================================
