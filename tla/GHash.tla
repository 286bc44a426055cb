------------------------------- MODULE GHash --------------------------------
(***************************************************************************)
(* The Gnulib hash table of src/lib/gnulib/hash.c, as this repository has  *)
(* changed it, and the insert and lookup of src/src/ghash-impl.h over it.  *)
(* A bucket is a head and a chain of overflow entries; entries no longer   *)
(* used are kept in a list and recycled.  A table that is to be resized is *)
(* transferred entry by entry to a new one, and back if memory runs out.   *)
(*                                                                         *)
(* The entries are a heap of records linked by their numbers, 0 being the  *)
(* null pointer, so that an entry in two chains, or in none, shows.  A     *)
(* search changes nothing and is one step; each entry moved is a step of   *)
(* its own.  The program calls insert, lookup, walk and free; hash_delete, *)
(* hash_clear and hash_rehash are the rest of the table's interface.       *)
(* The counters of comparisons are left out, and rounding to a float.      *)
(***************************************************************************)
EXTENDS HashSizes, Sequences, FiniteSets

CONSTANTS
  Keys,        \* the distinct user entries, up to the comparator
  NoKey,       \* NULL, as a pointer to a user entry
  Junk,        \* what the memory of a new entry happens to hold
  HashOf(_),   \* the hasher before the division by the table size
  Tunings,     \* the values of struct hash_tuning
  Candidates,  \* arguments of hash_initialize and hash_rehash
  Ops,         \* the calls the client makes
  MaxEntries,  \* bound: the overflow entries there is memory for
  SizeRange    \* SIZE_MAX + 1

ASSUME KeysAssumption == /\ IsFiniteSet(Keys) /\ NoKey \notin Keys
                         /\ Junk \notin Keys \cup {NoKey}
                         /\ \A k \in Keys : HashOf(k) \in Nat

ASSUME TuningAssumption == /\ Tunings \subseteq Tuning
                           /\ Candidates \subseteq Nat

ASSUME BoundAssumption == MaxEntries \in Nat /\ SizeRange \in Nat \ {0}

VARIABLES
  tuning,   \* table->tuning
  old, new, \* the table, and the one hash_rehash makes: n_buckets, bucket,
            \* n_buckets_used and free_entry_list
  heap,     \* the overflow entries: data and next
  live,     \* the entries malloc has given and free has not taken back
  entries,  \* n_entries
  nalloc,   \* n_alloc_entries
  pc, op, arg,
  phase,    \* hash_rehash: which of the three transfers is running
  scan,     \* transfer_entries and hash_clear: the bucket of the source,
  cur,      \* and the next entry of its overflow
  slot,     \* *result of hash_insert: where the node is to be put
  ret       \* what the last call returned

local == <<phase, scan, cur, slot>>
memory == <<heap, live, nalloc>>
vars == <<tuning, old, new, entries, memory, pc, op, arg, local, ret>>
-----------------------------------------------------------------------------
(***************************************************************************)
(* Buckets and chains                                                      *)
(***************************************************************************)
Ids == 1..MaxEntries
Dead == [data |-> NoKey, next |-> 0]
Empty == [data |-> NoKey, next |-> 0]
Table(n, free) == [n |-> n, bucket |-> [i \in 0..(n - 1) |-> Empty],
                   used |-> 0, free |-> free]
NoTable == Table(0, 0)

\* safe_hasher: the bucket of a user entry.
Home(b, k) == HashOf(k) % b.n

\* The fractions are the program's, compared without division.
OverThreshold(t, b) ==
  b.used * t.growth_threshold[2] > t.growth_threshold[1] * b.n
UnderThreshold(t, b) ==
  b.used * t.shrink_threshold[2] < t.shrink_threshold[1] * b.n

\* The entries linked from e on.
IdsFrom(e) ==
  LET from[left \in 0..MaxEntries] ==
        [x \in 0..MaxEntries |->
           IF x = 0 \/ left = 0 THEN << >>
           ELSE <<x>> \o from[left - 1][heap[x].next]]
  IN from[MaxEntries][e]

\* The data of the chain that begins with a bucket.
Chain(h) == IF h.data = NoKey THEN << >>
            ELSE LET ids == IdsFrom(h.next)
                 IN <<h.data>> \o [j \in DOMAIN ids |-> heap[ids[j]].data]

Elements(s) == {s[j] : j \in DOMAIN s}

\* Mutant of Has: the bucket's head alone is compared.
HasHead(b, k) == b.bucket[Home(b, k)].data = k

\* hash_lookup and hash_find_entry: whether the bucket of k has it.
Has(b, k) == k \in Elements(Chain(b.bucket[Home(b, k)]))

\* The first bucket from i on that is not empty; b.n when there is none.
NextUsed(b, i) ==
  LET rest == {j \in i..(b.n - 1) : b.bucket[j].data # NoKey}
  IN IF rest = {} THEN b.n ELSE CHOOSE j \in rest : \A x \in rest : j <= x

\* free_entry: entry e goes to the head of the free list of b.
Freed(b, e) == [heap EXCEPT ![e] = [data |-> NoKey, next |-> b.free]]

\* The entry malloc gives: any, so the first one not in use.
Unused == Ids \ live
FirstUnused == CHOOSE e \in Unused : \A x \in Unused : e <= x

\* allocate_entry(b): a recycled entry, or a new one; the caller sets it to rec.
\* With "own" the table is the caller's, and not the one hash_rehash makes,
\* whose counter n_alloc_entries is a local that nobody reads.
Recycle(b, rec) == /\ b.free # 0
                   /\ heap' = [heap EXCEPT ![b.free] = rec]
                   /\ UNCHANGED <<live, nalloc>>

Allocate(b, rec, own) ==
  /\ b.free = 0 /\ Unused # {}
  /\ heap' = [heap EXCEPT ![FirstUnused] = rec]
  /\ live' = live \cup {FirstUnused}
  /\ nalloc' = IF own THEN (nalloc + 1) % SizeRange ELSE nalloc

\* The entry that allocate_entry returns, and the free list it leaves.
EntryOf(b) == IF b.free # 0 THEN b.free ELSE FirstUnused
Rest(b) == IF b.free # 0 THEN heap[b.free].next ELSE 0
-----------------------------------------------------------------------------
(***************************************************************************)
(* Calls                                                                   *)
(***************************************************************************)
NoResult == [found |-> FALSE, node |-> NoKey]

Init == /\ tuning \in Tunings
        /\ old = NoTable /\ new = NoTable
        /\ heap = [e \in Ids |-> Dead] /\ live = {} /\ nalloc = 0
        /\ entries = 0
        /\ pc = "init" /\ op = "none" /\ arg = NoKey
        /\ phase = "none" /\ scan = 0 /\ cur = 0 /\ slot = 0
        /\ ret = NoResult

\* hash_initialize refuses bad factors, and fails for want of memory.
Initialize(c) ==
  /\ pc = "init"
  /\ \/ /\ check_tuning(tuning)
        /\ old' = Table(BucketSize(c, tuning), 0)
        /\ pc' = "idle"
     \/ pc' = "null" /\ UNCHANGED old
  /\ UNCHANGED <<tuning, new, entries, memory, op, arg, local, ret>>

Return(found, node) == /\ pc' = "idle" /\ op' = "none" /\ arg' = NoKey
                       /\ ret' = [found |-> found, node |-> node]

Call(f, k) == /\ pc = "idle" /\ f \in Ops
              /\ op' = f /\ arg' = k /\ ret' = NoResult
              /\ UNCHANGED <<tuning, new, entries, memory, phase, slot>>

CallFind(f, k) == /\ Call(f, k) /\ pc' = "find"
                  /\ UNCHANGED <<old, scan, cur>>

\* hash_rehash(c) on the table t, up to its transfer.
StartRehash(t, c) ==
  LET n == BucketSize(c, tuning)
  IN \/ n = t.n /\ pc' = "rehashed" /\ UNCHANGED <<new, phase, scan, cur>>
     \/ n # t.n /\ pc' = "refused" /\ UNCHANGED <<new, phase, scan, cur>>
     \/ /\ n # t.n /\ pc' = "transfer"
        /\ new' = Table(n, t.free)
        /\ phase' = "move"
        /\ scan' = NextUsed(t, 0)
        /\ cur' = IF scan' = t.n THEN 0 ELSE t.bucket[scan'].next

CallRehash(c) ==
  /\ pc = "idle" /\ "rehash" \in Ops
  /\ op' = "rehash" /\ arg' = NoKey /\ ret' = NoResult
  /\ StartRehash(old, c)
  /\ UNCHANGED <<tuning, old, entries, memory, slot>>

RehashReturn == /\ op = "rehash" /\ pc \in {"rehashed", "refused"}
                /\ Return(pc = "rehashed", NoKey)
                /\ UNCHANGED <<tuning, old, new, entries, memory, local>>

\* GHASH_LOOKUP
LookupReturn == /\ pc = "find" /\ op = "lookup"
                /\ Return(Has(old, arg), IF Has(old, arg) THEN arg ELSE NoKey)
                /\ UNCHANGED <<tuning, old, new, entries, memory, local>>
-----------------------------------------------------------------------------
(***************************************************************************)
(* transfer_entries                                                        *)
(***************************************************************************)
Src == IF phase = "move" THEN old ELSE new
Dst == IF phase = "move" THEN new ELSE old

Tables(d, s) == IF phase = "move" THEN new' = d /\ old' = s
                                  ELSE old' = d /\ new' = s

\* Mutant of Advance: the pass that leaves the heads stays at the first.
AdvanceStays(s) == /\ scan' = NextUsed(s, scan)
                   /\ cur' = IF scan' = s.n THEN 0 ELSE s.bucket[scan'].next

\* On to the next bucket in use of the source s.
Advance(s) == /\ scan' = NextUsed(s, scan + 1)
              /\ cur' = IF scan' = s.n THEN 0 ELSE s.bucket[scan'].next

Transferring == pc = "transfer" /\ scan < Src.n

\* An overflow entry becomes one of the new bucket, or its head.
MoveOverflow ==
  /\ Transferring /\ cur # 0
  /\ LET k == heap[cur].data
         i == Home(Dst, k)
         h == Dst.bucket[i]
     IN \/ /\ h.data # NoKey
           /\ heap' = [heap EXCEPT ![cur].next = h.next]
           /\ Tables([Dst EXCEPT !.bucket[i].next = cur], Src)
        \/ /\ h.data = NoKey
           /\ heap' = Freed(Dst, cur)
           /\ Tables([Dst EXCEPT !.bucket[i].data = k, !.used = @ + 1,
                                 !.free = cur], Src)
  /\ cur' = heap[cur].next
  /\ UNCHANGED <<tuning, entries, live, nalloc, pc, op, arg, phase, scan, slot,
                 ret>>

HeadsOnly == Transferring /\ cur = 0
Cut == [Src EXCEPT !.bucket[scan].next = 0]
\* Mutant of Moved: the source's counter is forgotten.
MovedUncounted == [Src EXCEPT !.bucket[scan] = Empty]
Moved == [Src EXCEPT !.bucket[scan] = Empty, !.used = @ - 1]
HeadKey == Src.bucket[scan].data

\* The first pass of the undoing leaves the heads where they are.
KeepHead == /\ HeadsOnly /\ phase = "undo_safe"
            /\ Tables(Dst, Cut)
            /\ Advance(Cut)
            /\ UNCHANGED <<tuning, entries, memory, pc, op, arg, phase, slot,
                           ret>>

MoveHead ==
  /\ HeadsOnly /\ phase # "undo_safe"
  /\ LET i == Home(Dst, HeadKey)
         h == Dst.bucket[i]
         rec == [data |-> HeadKey, next |-> h.next]
     IN \/ /\ h.data = NoKey
           /\ Tables([Dst EXCEPT !.bucket[i].data = HeadKey, !.used = @ + 1], Moved)
           /\ UNCHANGED memory
        \/ /\ h.data # NoKey
           /\ Recycle(Dst, rec) \/ Allocate(Dst, rec, phase # "move")
           /\ Tables([Dst EXCEPT !.bucket[i].next = EntryOf(Dst),
                                 !.free = Rest(Dst)], Moved)
  /\ Advance(Moved)
  /\ UNCHANGED <<tuning, entries, pc, op, arg, phase, slot, ret>>

\* Mutant of HeadFails: the free list is not handed back.
HeadFailsKeeps ==
  /\ HeadsOnly /\ phase = "move"
  /\ Dst.bucket[Home(Dst, HeadKey)].data # NoKey
  /\ Dst.free = 0
  /\ old' = Cut
  /\ phase' = "undo_safe"
  /\ scan' = NextUsed(new, 0)
  /\ cur' = IF scan' = new.n THEN 0 ELSE new.bucket[scan'].next
  /\ UNCHANGED <<tuning, new, entries, memory, pc, op, arg, slot, ret>>

\* Mutant of HeadFails: a single pass back.
HeadFailsOnePass ==
  /\ HeadsOnly
  /\ Dst.bucket[Home(Dst, HeadKey)].data # NoKey
  /\ Dst.free = 0
  /\ \/ /\ phase = "move"
        /\ old' = [Cut EXCEPT !.free = new.free]
        /\ phase' = "undo"
        /\ scan' = NextUsed(new, 0)
        /\ cur' = IF scan' = new.n THEN 0 ELSE new.bucket[scan'].next
        /\ UNCHANGED pc
     \/ /\ phase = "undo"
        /\ pc' = "broken"
        /\ UNCHANGED <<old, phase, scan, cur>>
  /\ UNCHANGED <<tuning, new, entries, memory, op, arg, slot, ret>>

\* malloc may fail: the transfer is undone, with the free list handed back.
\* While undoing, it must not come to that.
HeadFails ==
  /\ HeadsOnly /\ phase # "undo_safe"
  /\ Dst.bucket[Home(Dst, HeadKey)].data # NoKey
  /\ Dst.free = 0
  /\ \/ /\ phase = "move"
        /\ old' = [Cut EXCEPT !.free = new.free]
        /\ phase' = "undo_safe"
        /\ scan' = NextUsed(new, 0)
        /\ cur' = IF scan' = new.n THEN 0 ELSE new.bucket[scan'].next
        /\ UNCHANGED pc
     \/ /\ phase = "undo"
        /\ pc' = "broken"
        /\ UNCHANGED <<old, phase, scan, cur>>
  /\ UNCHANGED <<tuning, new, entries, memory, op, arg, slot, ret>>

TransferDone ==
  /\ pc = "transfer" /\ scan = Src.n
  /\ \/ /\ phase = "move"
        /\ old' = new /\ new' = NoTable
        /\ pc' = "rehashed" /\ phase' = "none" /\ scan' = 0 /\ cur' = 0
     \/ /\ phase = "undo_safe"
        /\ phase' = "undo"
        /\ scan' = NextUsed(new, 0)
        /\ cur' = IF scan' = new.n THEN 0 ELSE new.bucket[scan'].next
        /\ UNCHANGED <<old, new, pc>>
     \/ /\ phase = "undo"
        /\ new' = NoTable
        /\ pc' = "refused" /\ phase' = "none" /\ scan' = 0 /\ cur' = 0
        /\ UNCHANGED old
  /\ UNCHANGED <<tuning, entries, memory, op, arg, slot, ret>>

Transfer == MoveOverflow \/ KeepHead \/ MoveHead \/ HeadFails \/ TransferDone
-----------------------------------------------------------------------------
(***************************************************************************)
(* hash_insert, and GHASH_INSERT, which stores the node in *r              *)
(***************************************************************************)
InsertFound == /\ pc = "find" /\ op = "insert" /\ Has(old, arg)
               /\ Return(TRUE, arg)
               /\ UNCHANGED <<tuning, old, new, entries, memory, local>>

InsertRoom == /\ pc = "find" /\ op = "insert" /\ ~Has(old, arg)
              /\ ~OverThreshold(tuning, old)
              /\ pc' = "link"
              /\ UNCHANGED <<tuning, old, new, entries, memory, op, arg, local,
                             ret>>

\* check_tuning, called again here, finds the factors as they were.
InsertFull == /\ pc = "find" /\ op = "insert" /\ ~Has(old, arg)
              /\ OverThreshold(tuning, old)
              /\ StartRehash(old, GrownCandidate(old.n, tuning))
              /\ UNCHANGED <<tuning, old, entries, memory, op, arg, slot, ret>>

\* A failed rehash aborts the program.  After a successful one the bucket is
\* found again, and must not hold the key.
Refind == /\ op = "insert"
          /\ \/ pc = "refused" /\ pc' = "abort"
             \/ pc = "rehashed" /\ ~Has(old, arg) /\ pc' = "link"
             \/ pc = "rehashed" /\ Has(old, arg) /\ pc' = "broken"
          /\ UNCHANGED <<tuning, old, new, entries, memory, op, arg, local, ret>>

\* The place of the entry is made.  In a bucket's head, the data stays NULL; in
\* a recycled entry it is NULL, in a new one whatever the memory held.
Link ==
  /\ pc = "link"
  /\ LET i == Home(old, arg)
         h == old.bucket[i]
     IN \/ /\ h.data = NoKey
           /\ old' = [old EXCEPT !.used = @ + 1]
           /\ slot' = 0
           /\ UNCHANGED memory
        \/ /\ h.data # NoKey
           /\ \/ Recycle(old, [data |-> NoKey, next |-> h.next])
              \/ Allocate(old, [data |-> Junk, next |-> h.next], TRUE)
           /\ old' = [old EXCEPT !.bucket[i].next = EntryOf(old),
                                 !.free = Rest(old)]
           /\ slot' = EntryOf(old)
  /\ entries' = entries + 1
  /\ pc' = "store"
  /\ UNCHANGED <<tuning, new, op, arg, phase, scan, cur, ret>>

LinkFails == /\ pc = "link"
             /\ old.bucket[Home(old, arg)].data # NoKey
             /\ old.free = 0
             /\ pc' = "abort"
             /\ UNCHANGED <<tuning, old, new, entries, memory, op, arg, local,
                            ret>>

\* GHASH_NEW_NODE, and the store through the pointer hash_insert left.
Store ==
  /\ pc = "store"
  /\ \/ /\ slot = 0
        /\ old' = [old EXCEPT !.bucket[Home(old, arg)].data = arg]
        /\ UNCHANGED heap
     \/ /\ slot # 0
        /\ heap' = [heap EXCEPT ![slot].data = arg]
        /\ UNCHANGED old
  /\ slot' = 0
  /\ Return(FALSE, arg)
  /\ UNCHANGED <<tuning, new, entries, live, nalloc, phase, scan, cur>>

\* The pool has no memory for the node: the program exits.
NodeFails == /\ pc = "store"
             /\ pc' = "exit"
             /\ UNCHANGED <<tuning, old, new, entries, memory, op, arg, local,
                            ret>>

Insert == \/ InsertFound \/ InsertRoom \/ InsertFull
          \/ Refind \/ Link \/ LinkFails \/ Store \/ NodeFails
-----------------------------------------------------------------------------
(***************************************************************************)
(* hash_delete                                                             *)
(***************************************************************************)
DeleteNone == /\ pc = "find" /\ op = "delete" /\ ~Has(old, arg)
              /\ Return(FALSE, NoKey)
              /\ UNCHANGED <<tuning, old, new, entries, memory, local>>

HomeOfArg == old.bucket[Home(old, arg)]

\* The only entry of its bucket.
DeleteAlone ==
  /\ pc = "find" /\ op = "delete"
  /\ HomeOfArg.data = arg /\ HomeOfArg.next = 0
  /\ LET t == [old EXCEPT !.bucket[Home(old, arg)].data = NoKey, !.used = @ - 1]
     IN /\ old' = t
        /\ \/ /\ UnderThreshold(tuning, t)
              /\ StartRehash(t, ShrunkCandidate(t.n, tuning))
              /\ UNCHANGED <<op, arg, ret>>
           \/ /\ ~UnderThreshold(tuning, t)
              /\ Return(FALSE, arg)
              /\ UNCHANGED <<new, phase, scan, cur>>
  /\ entries' = entries - 1
  /\ UNCHANGED <<tuning, memory, slot>>

\* Mutant of DeleteHead: the bucket is counted as empty.
DeleteHeadCounts ==
  /\ pc = "find" /\ op = "delete"
  /\ HomeOfArg.data = arg /\ HomeOfArg.next # 0
  /\ LET e == HomeOfArg.next
     IN /\ old' = [old EXCEPT !.bucket[Home(old, arg)] = heap[e], !.free = e,
                              !.used = @ - 1]
        /\ heap' = Freed(old, e)
  /\ entries' = entries - 1
  /\ Return(FALSE, arg)
  /\ UNCHANGED <<tuning, new, live, nalloc, local>>

\* A bucket's head: the first overflow entry takes its place.
DeleteHead ==
  /\ pc = "find" /\ op = "delete"
  /\ HomeOfArg.data = arg /\ HomeOfArg.next # 0
  /\ LET e == HomeOfArg.next
     IN /\ old' = [old EXCEPT !.bucket[Home(old, arg)] = heap[e], !.free = e]
        /\ heap' = Freed(old, e)
  /\ entries' = entries - 1
  /\ Return(FALSE, arg)
  /\ UNCHANGED <<tuning, new, live, nalloc, local>>

\* An overflow entry.  Its data is NULL by the time hash_delete returns it.
DeleteOverflow ==
  /\ pc = "find" /\ op = "delete"
  /\ LET i == Home(old, arg)
         ids == IdsFrom(HomeOfArg.next)
     IN \E j \in DOMAIN ids :
          /\ heap[ids[j]].data = arg
          /\ \/ /\ j = 1
                /\ old' = [old EXCEPT !.bucket[i].next = heap[ids[j]].next,
                                      !.free = ids[j]]
                /\ heap' = Freed(old, ids[j])
             \/ /\ j > 1
                /\ old' = [old EXCEPT !.free = ids[j]]
                /\ heap' = [Freed(old, ids[j])
                              EXCEPT ![ids[j - 1]].next = heap[ids[j]].next]
  /\ entries' = entries - 1
  /\ Return(FALSE, NoKey)
  /\ UNCHANGED <<tuning, new, live, nalloc, local>>

\* When the table could not shrink, the free list goes back to malloc.
DeleteReturn ==
  /\ op = "delete" /\ pc \in {"rehashed", "refused"}
  /\ LET spare == Elements(IdsFrom(old.free))
     IN \/ pc = "rehashed" /\ UNCHANGED <<old, memory>>
        \/ /\ pc = "refused"
           /\ old' = [old EXCEPT !.free = 0]
           /\ live' = live \ spare
           /\ nalloc' = (nalloc - Cardinality(spare)) % SizeRange
           /\ UNCHANGED heap
  /\ Return(FALSE, arg)
  /\ UNCHANGED <<tuning, new, entries, local>>

Delete == \/ DeleteNone \/ DeleteAlone \/ DeleteHead
          \/ DeleteOverflow \/ DeleteReturn
-----------------------------------------------------------------------------
(***************************************************************************)
(* hash_clear and hash_free                                                *)
(***************************************************************************)
CallClear == /\ Call("clear", NoKey) /\ pc' = "clear"
             /\ scan' = NextUsed(old, 0)
             /\ cur' = IF scan' = old.n THEN 0 ELSE old.bucket[scan'].next
             /\ UNCHANGED old

ClearOverflow == /\ pc = "clear" /\ cur # 0
                 /\ heap' = Freed(old, cur)
                 /\ old' = [old EXCEPT !.free = cur]
                 /\ cur' = heap[cur].next
                 /\ UNCHANGED <<tuning, new, entries, live, nalloc, pc, op, arg,
                                phase, scan, slot, ret>>

ClearHead == /\ pc = "clear" /\ cur = 0 /\ scan < old.n
             /\ old' = [old EXCEPT !.bucket[scan] = Empty]
             /\ Advance(old)
             /\ UNCHANGED <<tuning, new, entries, memory, pc, op, arg, phase,
                            slot, ret>>

ClearDone == /\ pc = "clear" /\ scan = old.n
             /\ old' = [old EXCEPT !.used = 0]
             /\ entries' = 0
             /\ scan' = 0 /\ cur' = 0
             /\ Return(FALSE, NoKey)
             /\ UNCHANGED <<tuning, new, memory, phase, slot>>

Clear == ClearOverflow \/ ClearHead \/ ClearDone

\* hash_free walks the overflow of every bucket and the free list.
Reached(b) == Elements(IdsFrom(b.free))
                \cup UNION {Elements(IdsFrom(b.bucket[i].next)) :
                              i \in DOMAIN b.bucket}

Free == /\ pc = "idle"
        /\ live' = live \ Reached(old)
        /\ pc' = "freed"
        /\ UNCHANGED <<tuning, old, new, entries, heap, nalloc, op, arg, local,
                       ret>>

Stopped == /\ pc \in {"null", "abort", "exit", "freed"}
           /\ UNCHANGED vars

Step == \/ Transfer \/ Insert \/ Delete \/ Clear
        \/ LookupReturn \/ RehashReturn

Next == \/ \E c \in Candidates : Initialize(c) \/ CallRehash(c)
        \/ \E f \in {"insert", "lookup", "delete"}, k \in Keys : CallFind(f, k)
        \/ CallClear
        \/ Step
        \/ Free
        \/ Stopped

Spec == Init /\ [][Next]_vars

\* One thread runs what it has begun.
FairSpec == Spec /\ WF_vars(Step)
-----------------------------------------------------------------------------
(***************************************************************************)
(* Properties                                                              *)
(***************************************************************************)
\* The tables are well formed: sizes are those compute_bucket_size gives, the
\* arrays are as long, no more buckets are used than there are, and no counter
\* leaves its range.
TypeOK ==
  /\ \A b \in {old, new} :
       /\ b.n = 0 \/ (b.n >= 11 /\ b.n % 2 = 1 /\ is_prime(b.n))
       /\ b.bucket \in [0..(b.n - 1) ->
                         [data : Keys \cup {NoKey}, next : 0..MaxEntries]]
       /\ b.used \in 0..b.n
       /\ b.free \in 0..MaxEntries
  /\ heap \in [Ids -> [data : Keys \cup {NoKey, Junk}, next : 0..MaxEntries]]
  /\ live \subseteq Ids
  /\ entries \in 0..Cardinality(Keys)
  /\ nalloc \in 0..(SizeRange - 1)
  /\ cur \in 0..MaxEntries /\ slot \in 0..MaxEntries
  /\ ret \in [found : BOOLEAN, node : Keys \cup {NoKey}]

\* The overflow of a bucket; of one being moved or cleared, what is left of it.
Walking(b) == \/ pc = "transfer" /\ b = Src
              \/ pc = "clear" /\ b = old

Overflow(b, i) ==
  IdsFrom(IF Walking(b) /\ i = scan THEN cur ELSE b.bucket[i].next)

\* The keys in a bucket of a table, and all that are in it.
BucketKeys(b, i) ==
  LET ids == Overflow(b, i)
  IN <<b.bucket[i].data>> \o [j \in DOMAIN ids |-> heap[ids[j]].data]

UsedBuckets(b) == {i \in DOMAIN b.bucket : b.bucket[i].data # NoKey}

Held(b) == UNION {Elements(BucketKeys(b, i)) : i \in UsedBuckets(b)}

Places(b) == UNION {{i} \X DOMAIN BucketKeys(b, i) : i \in UsedBuckets(b)}

Size(b) == Cardinality(Places(b))

\* The entry whose node has not been stored yet: a bucket's head, if slot is 0.
Pending == pc \in {"store", "exit"}

Stored == (Held(old) \cup Held(new)) \cap Keys

\* Every search can rely on its bucket, also in the middle of a transfer, of its
\* undoing and of a clear: a key is where its hash says, in one place only, of
\* one table only; no chain has an empty or unset entry but the one whose node is
\* being made; and an empty bucket has no overflow.
ChainsRight ==
  /\ \A b \in {old, new}, i \in 0..((old.n + new.n) - 1) :
       i \in DOMAIN b.bucket =>
         IF b.bucket[i].data = NoKey THEN b.bucket[i].next = 0
         ELSE LET ids == Overflow(b, i)
              IN /\ Home(b, b.bucket[i].data) = i
                 /\ \A e \in Elements(ids) :
                      \/ (heap[e].data \in Keys /\ Home(b, heap[e].data) = i)
                      \/ (Pending /\ e = slot)
  /\ Size(old) + Size(new) = Cardinality(Held(old)) + Cardinality(Held(new))
  /\ Held(old) \cap Held(new) = {}

\* What hash_table_ok checks: the counters are those of a traversal, in both
\* tables and after every single move (n_entries only counts again at the end
\* of hash_clear).  The threshold that makes the table grow depends on it.
UsedRight ==
  pc \in {"clear", "freed"} \/
    LET head == IF Pending /\ slot = 0 THEN 1 ELSE 0
    IN /\ old.used = Cardinality(UsedBuckets(old)) + head
       /\ new.used = Cardinality(UsedBuckets(new))
       /\ entries = Size(old) + Size(new) + head

\* The two together: what a traversal of the tables finds, and what they count.
TablesRight == ChainsRight /\ UsedRight

\* No entry is lost, linked twice or freed twice: those malloc gave are each in
\* one place of one chain or of the free list, whichever table the two share it
\* through at the time; and hash_free gives all of them back.
FreeList == IdsFrom(IF pc = "transfer" THEN Dst.free ELSE old.free)

Chained(b) == UNION {Elements(Overflow(b, i)) : i \in UsedBuckets(b)}

EntriesAccounted ==
  IF pc = "freed" THEN live = {}
  ELSE LET linked == (Size(old) - Cardinality(UsedBuckets(old)))
                       + (Size(new) - Cardinality(UsedBuckets(new)))
                       + Len(FreeList)
       IN /\ live = Chained(old) \cup Chained(new) \cup Elements(FreeList)
          /\ linked = Cardinality(live)

\* The aborts that no want of memory explains are never reached: undoing a
\* transfer needs no new entry, and a rehash does not bring in the key.
AssertionsHold == pc # "broken"

\* hash_delete has taken its entry out once it goes on from its search.
DictOp == IF op = "delete" /\ pc # "find" THEN "deleted" ELSE op

Dict == INSTANCE Dictionary WITH stored <- Stored, op <- DictOp

\* The table is a dictionary: whatever a call rebuilds, undoes or recycles on
\* its way, it adds its own node, takes out its own, and loses no other; and
\* hash_delete answers NULL, and changes nothing, when its key is not there.
ImplementsDictionary == Dict!DictSpec

\* Every call ends, or the program does.
CallsReturn == []<>(pc \in {"init", "idle", "null", "abort", "exit", "freed"})

\* The entries counted for the total of bytes are those there are
\* (set-stats.def, total-mem).
MemRight == pc = "idle" => nalloc = Cardinality(live)
=============================================================================
