------------------------------ MODULE LHashInv ------------------------------
(***************************************************************************)
(* The inductive invariant of LHash: what the four loops know of the slots *)
(* they have passed, and how far a rehash has come.                        *)
(***************************************************************************)
EXTENDS LHash

\* The nodes an insert creates.
Nodes == {NewNode(k) : k \in Keys}

\* 'len' is the string's length or says that it must be measured, so a node
\* hashes as its string did when it was inserted.
WellFormed == /\ table \in [Slots(size) -> Nodes \cup {Null}]
              /\ t \in [Slots(s) -> Nodes \cup {Null}]

Absent(k) == \A i \in Slots(size) : table[i] # Null => table[i].str # k

\* The slots an insert or a lookup has passed are occupied, and by other keys
\* for as long as it compares them.
ProbeInv ==
  /\ pc \in {"probe", "lookup", "reprobe", "place"} =>
       \A j \in Passed(KeyHome(key, size), p, size) : table[j] # Null
  /\ pc \in {"probe", "lookup"} =>
       \A j \in Passed(KeyHome(key, size), p, size) : table[j].str # key
  /\ pc = "place" => table[p] = Null

\* From the moment the search of an insert fails until it stores its node, the
\* key is not in the table, and the table is below its limit when it is stored.
AbsentInv ==
  pc \in {"grow", "copy", "copy_probe", "reprobe", "place"} => Absent(key)

\* While the table is rebuilt: the new one is larger, and holds the nodes of
\* the slots below e, each once.
CopyInv ==
  /\ pc \in {"copy", "copy_probe"} =>
       /\ s > size
       /\ \A i \in 0..(e - 1) :
            table[i] # Null => \E j \in Slots(s) : t[j] = table[i]
       /\ \A j \in Slots(s) :
            t[j] # Null => \E i \in 0..(e - 1) : t[j] = table[i]
       /\ \A i, j \in Slots(s) :
            t[i] # Null /\ t[j] # Null /\ t[i].str = t[j].str => i = j
  /\ pc = "copy_probe" =>
       \A j \in Passed(NodeHome(table[e], s), q, s) : t[j] # Null

\* The table never gets smaller than the program's smallest one, and its
\* count is the number of its strings.
CountInv ==
  /\ size >= 32
  /\ used < size
  /\ pc \in {"reprobe", "place"} => used < size - 1
  /\ pc # "verify"
  /\ used = Cardinality(Stored)

IInv == /\ TypeOK
        /\ WellFormed
        /\ Reachable
        /\ OneNodePerKey
        /\ ProbeInv
        /\ AbsentInv
        /\ CopyInv
        /\ CountInv
=============================================================================
