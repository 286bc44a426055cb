------------------------------- MODULE KeySet -------------------------------
(***************************************************************************)
(* What the insert and lookup functions of the set structures promise: one *)
(* node per distinct key, whatever the order and the number of the calls,  *)
(* and an answer that says whether the key already had its node.           *)
(*                                                                         *)
(* A call is two steps, as in the code: the caller passes the key, and the *)
(* function returns.  What happens in between is not visible.              *)
(***************************************************************************)
CONSTANTS Keys,      \* the distinct strings that may be inserted
          NoKey      \* no call in progress, or no node returned

VARIABLES stored,    \* the keys that have a node
          op,        \* the call in progress: "none", "insert" or "lookup"
          arg,       \* its key
          ret        \* what the last call returned

vars == <<stored, op, arg, ret>>

Results == [found : BOOLEAN, node : Keys \cup {NoKey}]

NoResult == [found |-> FALSE, node |-> NoKey]

TypeOK == /\ stored \in SUBSET Keys
          /\ op \in {"none", "insert", "lookup"}
          /\ arg \in Keys \cup {NoKey}
          /\ ret \in Results

Init == /\ stored = {}
        /\ op = "none"
        /\ arg = NoKey
        /\ ret = NoResult

Call(f, k) == /\ op = "none"
              /\ op' = f
              /\ arg' = k
              /\ ret' = NoResult
              /\ UNCHANGED stored

Return == op' = "none" /\ arg' = NoKey

\* The key has a node: the call returns it and creates nothing.
ReturnNode == /\ op # "none"
              /\ arg \in stored
              /\ ret' = [found |-> TRUE, node |-> arg]
              /\ Return
              /\ UNCHANGED stored

\* The key is new: an insert creates its node.
ReturnNew == /\ op = "insert"
             /\ arg \notin stored
             /\ stored' = stored \cup {arg}
             /\ ret' = [found |-> FALSE, node |-> arg]
             /\ Return

\* The key is not there: a lookup returns a null pointer.
ReturnNull == /\ op = "lookup"
              /\ arg \notin stored
              /\ ret' = NoResult
              /\ Return
              /\ UNCHANGED stored

Next == \/ \E f \in {"insert", "lookup"}, k \in Keys : Call(f, k)
        \/ ReturnNode
        \/ ReturnNew
        \/ ReturnNull

Spec == Init /\ [][Next]_vars

Liveness == WF_vars(ReturnNode \/ ReturnNew \/ ReturnNull)

FairSpec == Spec /\ Liveness
=============================================================================
