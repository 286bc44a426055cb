------------------------------- MODULE LHash --------------------------------
(***************************************************************************)
(* The linear hash table of src/src/lhash-impl.h: open addressing by       *)
(* linear probing (Knuth's Algorithm L), with a table that is rebuilt      *)
(* larger when it reaches its load limit.                                  *)
(*                                                                         *)
(* Every iteration of every loop is a step of its own, so the invariants   *)
(* are required of each intermediate table, and the loops must be shown to *)
(* end.  A slot holds a pointer to a node: no node ever moves, so the      *)
(* pointer is modelled by the node's contents.                             *)
(***************************************************************************)
EXTENDS Primes, FiniteSets

CONSTANTS
  Keys,             \* the distinct strings that may be inserted
  NoKey,            \* no string
  Null,             \* LHASH_PTR_NULL, an empty slot
  StrLen,           \* StrLen[k]: the length of the string k
  HashOf(_, _),     \* LHASH_HASH(s, l)
  NullTermKey,      \* LHASH_NEED_NULL_TERM_KEY: the node has no 'len' field
  Uint8Max,         \* UINT8_MAX, the largest value of 'len'
  HashSize,         \* opt->hash_size, 0 when the option was not given
  LoadNum, LoadDen, \* rehash.load as a fraction
  GrowNum, GrowDen, \* rehash.size as a fraction
  MaxInserts        \* bound: the number of insert calls

ASSUME KeysAssumption ==
  /\ NoKey \notin Keys
  /\ StrLen \in [Keys -> Nat]
  /\ \A k \in Keys : HashOf(k, StrLen[k]) \in Nat
  /\ NullTermKey \in BOOLEAN
  /\ Uint8Max \in Nat

Node == [str : Keys, len : 0..Uint8Max]

ASSUME NullAssumption == Null \notin Node

\* The options parser admits 0.11 < load < 0.89 and 1.11 < size < 3.89
\* (parse_float_optarg with FLOAT_EPSILON .11f): .89f, the largest load it lets
\* in, is a little less than .89, and 1.11f a little more than 1.11.
ASSUME FactorsAssumption ==
  /\ LoadNum \in Nat /\ LoadDen \in Nat \ {0}
  /\ GrowNum \in Nat /\ GrowDen \in Nat \ {0}
  /\ 100 * LoadNum > 11 * LoadDen /\ 100 * LoadNum < 89 * LoadDen
  /\ 100 * GrowNum > 111 * GrowDen /\ 100 * GrowNum < 389 * GrowDen

ASSUME SizeAssumption == HashSize \in Nat /\ MaxInserts \in Nat

VARIABLES
  table, size, used, \* the fields of struct LHASH_TYPE
  stats,             \* its counters
  pc,                \* where the call in progress stands
  key,               \* the argument of the call
  p,                 \* the slot probed by LHASH_INSERT and LHASH_LOOKUP
  t, s, e, q,        \* LHASH_REHASH: the new table, its size, the old slot to
                     \* copy next, the slot of the new table probed for it
  ret                \* what the last call returned: the node, and whether
                     \* the key had it before the call

rehashVars == <<t, s, e, q>>
vars == <<table, size, used, stats, pc, key, p, t, s, e, q, ret>>
-----------------------------------------------------------------------------
\* Mutant of NewNode: the length is cut to the byte it is stored in.
NewNodeCut(k) == [str |-> k, len |-> IF NullTermKey THEN 0
                                     ELSE StrLen[k] % (Uint8Max + 1)]

\* The node of a key: a length that does not fit the byte 'len' is stored as 0.
NewNode(k) == [str |-> k,
               len |-> IF NullTermKey \/ StrLen[k] > Uint8Max THEN 0
                                                              ELSE StrLen[k]]

KeyLength(n) == IF n.len = 0 THEN StrLen[n.str] ELSE n.len

Equal(n, k) == KeyLength(n) = StrLen[k] /\ n.str = k

KeyHome(k, n) == HashOf(k, StrLen[k]) % n

NodeHome(d, n) == HashOf(d.str, KeyLength(d)) % n

\* Mutants of Prev: no wrap around the start of the table.
PrevNoWrap(i, n) == i - 1
PrevStuck(i, n) == IF i = 0 THEN 0 ELSE i - 1

\* The slot probed after i in a table of n slots: one down, from the first
\* slot on to the last.
Prev(i, n) == IF i = 0 THEN n - 1 ELSE i - 1

\* SIZE_MUL_FLOAT(hash->size, hash->rehash.load)
LoadLimit(n) == (n * LoadNum) \div LoadDen

\* The size LHASH_REHASH allocates for a table of n slots.
GrownSize(n) == NextPrime((n * GrowNum) \div GrowDen)

InitSize == NextPrime(IF HashSize = 0 THEN 1024
                      ELSE IF HashSize < 32 THEN 32 ELSE HashSize)

NoTable == [i \in 0..(0 - 1) |-> Null]

Counters == {"uniq_node", "dups_node", "insert_eq", "insert_ne",
             "insert_hit", "rehash_hit", "rehash_op"}

NoResult == [found |-> FALSE, node |-> NoKey]

Init == /\ size = InitSize
        /\ table = [i \in 0..(InitSize - 1) |-> Null]
        /\ used = 0
        /\ stats = [c \in Counters |-> 0]
        /\ pc = "idle"
        /\ key = NoKey
        /\ p = 0
        /\ t = NoTable /\ s = 0 /\ e = 0 /\ q = 0
        /\ ret = NoResult
-----------------------------------------------------------------------------
(***************************************************************************)
(* LHASH_INSERT                                                            *)
(***************************************************************************)
Count(c) == stats' = [stats EXCEPT ![c] = @ + 1]

\* The return of a call; the locals of the C function are gone with it.
Return(found, node) == /\ ret' = [found |-> found, node |-> node]
                       /\ pc' = "idle"
                       /\ key' = NoKey
                       /\ p' = 0

Call(f, k) == /\ pc = "idle"
              /\ pc' = f
              /\ key' = k
              /\ p' = KeyHome(k, size)
              /\ ret' = NoResult
              /\ UNCHANGED <<table, size, used, stats, rehashVars>>

CallInsert(k) == /\ stats["uniq_node"] + stats["dups_node"] < MaxInserts
                 /\ Call("probe", k)

ProbeEqual == /\ pc = "probe"
              /\ table[p] # Null /\ Equal(table[p], key)
              /\ stats' = [stats EXCEPT !["dups_node"] = @ + 1,
                                        !["insert_eq"] = @ + 1]
              /\ Return(TRUE, table[p].str)
              /\ UNCHANGED <<table, size, used, rehashVars>>

ProbeNext == /\ pc = "probe"
             /\ table[p] # Null /\ ~Equal(table[p], key)
             /\ Count("insert_ne")
             /\ p' = Prev(p, size)
             /\ UNCHANGED <<table, size, used, pc, key, rehashVars, ret>>

\* The key is new: VERIFY(s > 0 && s < hash->size), then either there is
\* room below the load limit or the table is rebuilt.
ProbeEmpty ==
  /\ pc = "probe"
  /\ table[p] = Null
  /\ pc' = IF ~(LoadLimit(size) > 0 /\ LoadLimit(size) < size) THEN "verify"
           ELSE IF used < LoadLimit(size) THEN "place" ELSE "grow"
  /\ UNCHANGED <<table, size, used, stats, key, p, rehashVars, ret>>

\* After the rehash only an empty slot is looked for: the key is known to be
\* absent.
Reprobe == /\ pc = "reprobe"
           /\ IF table[p] # Null
                THEN /\ Count("insert_hit")
                     /\ p' = Prev(p, size)
                     /\ UNCHANGED pc
                ELSE /\ pc' = "place"
                     /\ UNCHANGED <<stats, p>>
           /\ UNCHANGED <<table, size, used, key, rehashVars, ret>>

Place == /\ pc = "place"
         /\ table' = [table EXCEPT ![p] = NewNode(key)]
         /\ Count("uniq_node")
         /\ used' = used + 1
         /\ Return(FALSE, key)
         /\ UNCHANGED <<size, rehashVars>>

\* No memory for the node: ENSURE ends the program.
PlaceFails == /\ pc = "place"
              /\ pc' = "nomem"
              /\ UNCHANGED <<table, size, used, stats, key, p, rehashVars, ret>>
-----------------------------------------------------------------------------
(***************************************************************************)
(* LHASH_REHASH                                                            *)
(***************************************************************************)
\* VERIFY(s > hash->size), then an empty table of the new size.
Grow == LET n == GrownSize(size) IN
        /\ pc = "grow"
        /\ IF n > size
             THEN /\ pc' = "copy"
                  /\ s' = n
                  /\ t' = [i \in 0..(n - 1) |-> Null]
                  /\ e' = 0
             ELSE /\ pc' = "verify"
                  /\ UNCHANGED <<t, s, e>>
        /\ UNCHANGED <<table, size, used, stats, key, p, q, ret>>

\* calloc returns NULL: ENSURE ends the program.
GrowFails == /\ pc = "grow"
             /\ pc' = "nomem"
             /\ UNCHANGED <<table, size, used, stats, key, p, rehashVars, ret>>

CopySkip == /\ pc = "copy" /\ e < size
            /\ table[e] = Null
            /\ e' = e + 1
            /\ UNCHANGED <<table, size, used, stats, pc, key, p, t, s, q, ret>>

\* Mutant of CopyStart: the home is taken in a table of the old size.
CopyStartOldSize == /\ pc = "copy" /\ e < size
                    /\ table[e] # Null
                    /\ pc' = "copy_probe"
                    /\ q' = NodeHome(table[e], size)
                    /\ UNCHANGED <<table, size, used, stats, key, p, t, s, e, ret>>

CopyStart == /\ pc = "copy" /\ e < size
             /\ table[e] # Null
             /\ pc' = "copy_probe"
             /\ q' = NodeHome(table[e], s)
             /\ UNCHANGED <<table, size, used, stats, key, p, t, s, e, ret>>

CopyNext == /\ pc = "copy_probe"
            /\ t[q] # Null
            /\ Count("rehash_hit")
            /\ q' = Prev(q, s)
            /\ UNCHANGED <<table, size, used, pc, key, p, t, s, e, ret>>

\* Mutant of CopyPlace: the slot is not tested before it is written.
CopyPlaceBlind == /\ pc = "copy_probe"
                  /\ t' = [t EXCEPT ![q] = table[e]]
                  /\ e' = e + 1
                  /\ q' = 0
                  /\ pc' = "copy"
                  /\ UNCHANGED <<table, size, used, stats, key, p, s, ret>>

CopyPlace == /\ pc = "copy_probe"
             /\ t[q] = Null
             /\ t' = [t EXCEPT ![q] = table[e]]
             /\ e' = e + 1
             /\ q' = 0
             /\ pc' = "copy"
             /\ UNCHANGED <<table, size, used, stats, key, p, s, ret>>

\* Mutant of CopyDone: the key is stored in its home slot without a new probe.
CopyDoneNoReprobe == /\ pc = "copy" /\ e = size
                     /\ table' = t
                     /\ size' = s
                     /\ Count("rehash_op")
                     /\ t' = NoTable /\ s' = 0 /\ e' = 0
                     /\ pc' = "place"
                     /\ p' = KeyHome(key, s)
                     /\ UNCHANGED <<used, key, q, ret>>

\* The old table is freed and replaced, and LHASH_INSERT goes on in the new
\* one from the key's home slot there.
CopyDone == /\ pc = "copy" /\ e = size
            /\ table' = t
            /\ size' = s
            /\ Count("rehash_op")
            /\ t' = NoTable /\ s' = 0 /\ e' = 0
            /\ pc' = "reprobe"
            /\ p' = KeyHome(key, s)
            /\ UNCHANGED <<used, key, q, ret>>
-----------------------------------------------------------------------------
(***************************************************************************)
(* LHASH_LOOKUP                                                            *)
(***************************************************************************)
CallLookup(k) == Call("lookup", k)

LookupEqual == /\ pc = "lookup"
               /\ table[p] # Null /\ Equal(table[p], key)
               /\ Return(TRUE, table[p].str)
               /\ UNCHANGED <<table, size, used, stats, rehashVars>>

LookupNext == /\ pc = "lookup"
              /\ table[p] # Null /\ ~Equal(table[p], key)
              /\ p' = Prev(p, size)
              /\ UNCHANGED <<table, size, used, stats, pc, key, rehashVars, ret>>

LookupEmpty == /\ pc = "lookup"
               /\ table[p] = Null
               /\ Return(FALSE, NoKey)
               /\ UNCHANGED <<table, size, used, stats, rehashVars>>
-----------------------------------------------------------------------------
\* LHASH_DONE, between two calls.
Done == /\ pc = "idle"
        /\ pc' = "done"
        /\ UNCHANGED <<table, size, used, stats, key, p, rehashVars, ret>>

\* The table is gone, or the program has exited for want of memory.
Stopped == pc \in {"done", "nomem"} /\ UNCHANGED vars

Insert == ProbeEqual \/ ProbeNext \/ ProbeEmpty \/ Reprobe \/ Place

Rehash == Grow \/ CopySkip \/ CopyStart \/ CopyNext \/ CopyPlace \/ CopyDone

Lookup == LookupEqual \/ LookupNext \/ LookupEmpty

\* The steps the program takes on its own once a function was called.
Step == Insert \/ Rehash \/ Lookup

Next == \/ \E k \in Keys : CallInsert(k) \/ CallLookup(k)
        \/ Step
        \/ GrowFails \/ PlaceFails
        \/ Done
        \/ Stopped

Spec == Init /\ [][Next]_vars

FairSpec == Spec /\ WF_vars(Step)
-----------------------------------------------------------------------------
Slots(n) == 0..(n - 1)

Control == {"idle", "probe", "lookup", "grow", "copy", "copy_probe",
            "reprobe", "place", "verify", "done", "nomem"}

Occupied == {i \in Slots(size) : table[i] # Null}

InCall == pc \notin {"idle", "done"}

(***************************************************************************)
(* The type invariant: every value keeps its type, and the indices used by *)
(* a loop are slots of the table that loop reads.                          *)
(***************************************************************************)
TypeOK == /\ size \in Nat \ {0}
          /\ table \in [Slots(size) -> Node \cup {Null}]
          /\ used \in Nat
          /\ stats \in [Counters -> Nat]
          /\ pc \in Control
          /\ IF InCall THEN key \in Keys ELSE key = NoKey
          /\ p \in Slots(size)
          /\ s \in Nat
          /\ t \in [Slots(s) -> Node \cup {Null}]
          /\ e \in 0..size
          /\ q \in Nat
          /\ pc = "copy_probe" => q \in Slots(s) /\ e < size /\ table[e] # Null
          /\ ret \in [found : BOOLEAN, node : Keys \cup {NoKey}]

\* The slots of a table of n slots that a probe from h passes before slot i.
Passed(h, i, n) == IF i <= h THEN (i + 1)..h
                             ELSE (0..h) \cup ((i + 1)..(n - 1))

NoHoles(T, n) ==
  \A i \in Slots(n) : T[i] # Null =>
    \A j \in Passed(NodeHome(T[i], n), i, n) : T[j] # Null

(***************************************************************************)
(* A probe stops at the first empty slot, so a node is found again only if *)
(* no slot between its home and its own is empty.  This holds of the table *)
(* after every step of every insert, and of the new table at every moment  *)
(* of a rehash, which moves the nodes one by one in the order of the old   *)
(* slots and recomputes each home from the node's own bytes.               *)
(***************************************************************************)
Reachable == NoHoles(table, size) /\ NoHoles(t, s)

\* No string has two nodes: an insert that rebuilds the table between its
\* search and its store still stores a key that is not there.
OneNodePerKey ==
  \A i, j \in Slots(size) :
    table[i] # Null /\ table[j] # Null /\ table[i].str = table[j].str => i = j

(***************************************************************************)
(* LHASH_ASSERT_INVARIANTS, the two VERIFYs and the ASSERT in front of the *)
(* store: 'used' counts the occupied slots, one slot always stays empty    *)
(* (no probe could end without it), and the factors the options parser     *)
(* lets through always give a usable limit and a larger table.             *)
(***************************************************************************)
AssertionsHold ==
  /\ used = Cardinality(Occupied)
  /\ used < size
  /\ pc = "place" => used < size - 1
  /\ pc # "verify"

\* Every call returns, unless memory runs out: no probe of any of the four
\* loops circles a table for ever, and a rehash comes to an end.
CallsReturn == InCall ~> (~InCall \/ pc = "nomem")

(***************************************************************************)
(* The table implements KeySet: one node per key, found by whoever asks    *)
(* for the key, created by the first insert of it and never lost, although *)
(* an insert may rebuild the whole table before it stores its node.        *)
(***************************************************************************)
Stored == {table[i].str : i \in Occupied}

Op == IF ~InCall THEN "none" ELSE IF pc = "lookup" THEN "lookup" ELSE "insert"

Abstract == INSTANCE KeySet WITH stored <- Stored, op <- Op, arg <- key

ImplementsKeySet == Abstract!Spec
=============================================================================
