----------------------------- MODULE Dictionary -----------------------------
(***************************************************************************)
(* What the Gnulib hash table promises: KeySet, with calls that take nodes *)
(* out again and calls that only rebuild the table.  A removed node leaves *)
(* the set during its call, not at the end of it, since the call may still *)
(* have a table to rebuild; from then on the call is "deleted".            *)
(***************************************************************************)
EXTENDS KeySet

\* A call takes nodes out: hash_delete that of its key, hash_clear any.
Drop == /\ \/ op = "delete" /\ arg \in stored /\ stored' = stored \ {arg}
              /\ op' = "deleted"
           \/ op = "clear" /\ stored' \in SUBSET stored /\ UNCHANGED op
        /\ UNCHANGED <<arg, ret>>

\* "If ENTRY is not in the table, don't modify the table and return NULL."
ReturnAbsent == /\ op = "delete" /\ arg \notin stored
                /\ ret' = NoResult
                /\ Return
                /\ UNCHANGED stored

\* "If ENTRY is already in the table, remove it and return the just-deleted data":
\* it is removed, but what is returned for it may be NULL (see DeleteOverflow).
ReturnDeleted == /\ op = "delete" /\ arg \in stored
                 /\ stored' = stored \ {arg}
                 /\ ret' \in [found : {FALSE}, node : {arg, NoKey}]
                 /\ Return

\* The same at the end of a call that has dropped its node.
ReturnDropped == /\ op = "deleted"
                 /\ ret' = [found |-> FALSE, node |-> arg]
                 /\ Return
                 /\ UNCHANGED stored

\* hash_clear returns when nothing is left.
ReturnCleared == /\ op = "clear"
                 /\ stored' = {}
                 /\ ret' = NoResult
                 /\ Return

\* hash_rehash says whether it could do it.
ReturnRehashed == /\ op = "rehash"
                  /\ ret' \in [found : BOOLEAN, node : {NoKey}]
                  /\ Return
                  /\ UNCHANGED stored

DictNext == \/ \E f \in {"insert", "lookup", "delete"}, k \in Keys : Call(f, k)
            \/ \E f \in {"clear", "rehash"} : Call(f, NoKey)
            \/ op \in {"insert", "lookup"} /\ ReturnNode
            \/ ReturnNew
            \/ ReturnNull
            \/ Drop
            \/ ReturnAbsent \/ ReturnDeleted \/ ReturnDropped \/ ReturnCleared
            \/ ReturnRehashed

DictSpec == Init /\ [][DictNext]_vars
=============================================================================
