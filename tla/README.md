# Path-Set: a verification project

Path-Set is a C program that reads lines from its standard input, puts each of
them in a set, and reports what the set structure cost it: numbers of nodes,
comparisons, bytes, microseconds. Six set structures are compiled in, made of
three dictionaries (a linear hash table, a ternary search trie, the hash table
of Gnulib), each in a *plain* form that holds the lines themselves and in a
*path* form, where a path trie holds the lines and the dictionary only their
path elements.

The program is sequential: no threads, no signals, nothing written to disk. What
is hard about it is in its data structures: loops over tables that change under
them, memory that moves, nodes whose fields mean two things, rehashing in the
middle of an insert, and counters that must agree with all of that.

Paths below are relative to the directory that holds the repository in `src/`
(so `src/src/lhash-impl.h` is the file `src/lhash-impl.h` of the repository).

## Inventory

| component | state | operations | hard behaviour | correct when |
|---|---|---|---|---|
| linear hash table, `src/src/lhash-impl.h` | table of node pointers or 32-bit offsets, `size`, `used`, counters | `LHASH_INSERT`, `LHASH_LOOKUP`, `LHASH_REHASH` | the table is rebuilt between an insert's search and its store; probes wrap; calloc fails | one node per string, found by whoever asks; every probe ends; the assertions hold |
| prime sizes, same file | none | `lhash_is_prime`, `lhash_next_prime` | squares of primes are accepted; the search stops at a constant | never smaller than asked |
| ternary search trie, `src/src/trie-impl.h` | nodes `ch`, `lo`, `hi`, `eq`/`val`, `up` | insert, lookup, print one, print all | union told apart by `ch`; the walk back up | one node per string; prints what was inserted |
| path trie, `src/src/path-trie-impl.h` | nodes, root, the element set | insert, lookup, print | symbols are pointers compared by hash; the node table moves | as above, for lines cut into elements |
| Gnulib hash sets, `src/src/ghash-impl.h`, `src/lib/gnulib/hash.c` | buckets, overflow chains, a list of entries to recycle, counters | insert, lookup, delete, clear, rehash with rollback, free | a transfer that runs out of memory is undone; two tables share one free list; the entry is linked before its node exists | a dictionary, whatever is rebuilt; no entry lost or linked twice; the counters are those of a traversal |
| object allocator, `src/src/obj-alloc-impl.h` | up to 16 regions, each `base`, `size`, `used` | allocate, dereference | realloc moves a region; offsets instead of pointers; region and offset in 32 bits | offsets distinct, objects disjoint, never NULL while there is room |
| pool allocator, `src/src/pool-alloc.c` | a list of pools | allocate | padding; doubling sizes up to a limit | objects disjoint and inside their pool |
| loading, `src/src/set-impl.h` | the line number, the counters of the set | `SET_LOAD`, `SET_PUT` | NUL chars, last lines without a newline, values narrower than the line number | counters are the numbers of different and repeated lines; warnings name the right ones |
| stack, `src/lib/json-type/stack-impl.h` | a block of memory, pointers to its ends and to the top | push, pop, the top, the whole | the block moves when it is enlarged; a limit that is not a doubling; `POP_N(n)` drops n + 1 | a sequence, whatever moves; no size beyond its limit |
| clocks, `src/src/clocks-impl.h` | times in seconds and microseconds | sum, difference, print | carry, borrow, a clock set back | the sum of the intervals measured |
| sets and main, `src/src/set-intf.c`, `src/src/main.c` | table of implementations, the set | create, load, act, print statistics, destroy | an action a set does not implement; a failure at any stage | each function meets the set it was made for; the output has the parts asked for |
| options, `src/src/common.c` | the options, what is to be told, the scan of getopt_long | one per option, and each error | clusters of letters, an argument in the next element, units that overflow, the position of the scan when an error is told | the fields are what was said last; errors name the option; the tables accept the factors |
| statistics, `src/src/set-stats-impl.h`, `src/src/set-stats.def` | counters, and a copy of those of a Gnulib table | names, values, printing | a fraction split into two integers; a copy that is old | the numbers are those of the table at the time |

How they interact: `main` creates a set and calls `SET_LOAD`, which calls
`SET_PUT` for each line, which calls the insert of the main structure and gives
a new node the line number. A path trie's insert cuts the line into elements and
calls the insert of its element set for each of them; the pointer or offset that
comes back is the symbol of the trie. Nodes come from the pool of the set, or,
in the builds with 32-bit offsets, from an object allocator of the structure,
which may move them at every allocation. Calls nest; nothing is called back.

`PROJECT.json` lists the components with what is modelled of each, and under
`hazards` every place where the code can go wrong in a way a test would hardly
find, with the properties that would show it.

## Modules

| module | models |
|---|---|
| `KeySet` | what insert and lookup promise: one node per key, and an answer that says whether the key had one |
| `Primes` | `lhash_is_prime`, `lhash_next_prime`, and `is_prime` of `next-prime.bc`, as pure operators |
| `LHash` | the linear hash table; refines `KeySet` |
| `LHashInv` | the inductive invariant of `LHash` |
| `MCLHash` | an instance for TLC, and the loops of the primes line by line |
| `PathTrie`, `MCPathTrie` | the path trie; refines `KeySet` |
| `Trie`, `MCTrie` | the ternary search trie, in both its builds; refines `KeySet` |
| `ObjAlloc`, `MCObjAlloc` | the object allocator, in both its forms |
| `PoolAlloc`, `MCPoolAlloc` | the pool allocator |
| `Clocks`, `MCClocks` | differences and sums of times, as nested functions are timed, with a clock that may be set back |
| `Lifo` | what a stack promises: a sequence changed at its end |
| `Stack`, `MCStack` | the stack of the printers, in its three builds; refines `Lifo` |
| `HashSizes` | the arithmetic of `hash.c`: tuning, prime sizes, candidates |
| `Dictionary` | `KeySet` with removals and calls that only rebuild |
| `GHash`, `MCGHash` | the Gnulib table and `ghash-impl.h` over it; refines `Dictionary` |
| `SetLoad` | reading the input and counting lines |
| `Options` | `options()`: the command line |
| `PathSet`, `MCPathSet` | `main` and `exec_set`, which compose `Options`, `SetLoad` and the set table |
| `LHashProofs`, `TrieProofs`, `PathTrieProofs`, `GHashProofs`, `ObjAllocProofs`, `ServiceProofs`, `PathSetProofs` | the theorems about these modules: those about `SetLoad` and `Options` with those of the program, those about `PoolAlloc`, `Clocks` and `Stack` in `ServiceProofs` |
| `NumberLemmas` | lemmas about numbers that they share |

**KeySet.** A call is two steps, as in the code: the key is passed, the function
returns. `stored` are the keys that have a node. A concrete structure implements
it with whatever number of steps in between, which must look like stuttering.

**LHash.** `table`, `size`, `used` and `stats` are the fields of `struct
LHASH_TYPE`. The program counter `pc` says which loop of which function is
running, and `key`, `p`, `t`, `s`, `e`, `q` are the locals of `LHASH_INSERT` and
`LHASH_REHASH`. Each round of each loop is an action: `ProbeNext`, `ProbeEqual`
and `ProbeEmpty` for the search, `Grow`, `CopySkip`, `CopyStart`, `CopyNext`,
`CopyPlace` and `CopyDone` for the rehash, `Reprobe` for the search after it,
`Place` for the store. `GrowFails` is the calloc that returns NULL, and `PlaceFails`
the node for which there is no memory; both end the program. Abstracted:
the bytes of a string (its length is kept, since it decides what goes in the
one-byte field `len`), the hash function (a constant operator), and floating
point (the load and growth factors are fractions). A slot holds the contents of
its node in place of the pointer, which is the same since no node moves or
changes in the pointer build, and offsets stay valid in the other.

**PathTrie.** The build with 32-bit node offsets, the harder one: nodes are
records in the table `mem`, `addr` says where the table is, and each allocation
may move it. `ptr` is the local `struct ptr2_t`, with the address at which it
was last dereferenced; a read or write at an address where the table no longer
is reaches no node. The element set is what `KeySet` says of it: the sequence
`elems` of interned strings. Insert, lookup and print are one action per loop
round or recursive call. `PATH_TRIE_LOOKUP` is not compiled in any present
configuration (`PATH_TRIE_NEED_LOOKUP` is defined nowhere, and the `SET_GET` that
would call it is under `#if 0`); it is modelled because the comments in the
source argue for it together with the insert.

**Trie.** `trie-impl.h` is compiled twice. The constant of a behaviour `build` says
which one it is of: in `plain` the last node of a string holds the line number
that `SET_PUT` stores in it; in `elems` each node has an `up`, and the last node the
node at which its string began to match (`base`), so that `TRIE_PRINTER_PRINT_ONE`
can spell an element from its last node. `key`, `rest`, `ptr`, `up` and `base` are
the locals of `TRIE_INSERT`, each round of its two loops is an action, and the new
nodes are in the tree one by one, before the string is complete. `frames` is the
call stack of the recursive print. Nodes have numbers for addresses, in the order
the pool makes them, since nodes of a pool never move.

**ObjAlloc.** One action per outcome of `OBJ_ALLOC_ALLOCATE`: no region
(`AllocateNull`), room in the chosen one (`AllocateFits`), a region claimed or
grown (`AllocateGrow`), memory that runs out (`ReallocFails`). When a region has been
grown to its limit in vain, a build with DEBUG stops at the assertion after the realloc
("assert"), and one without gives out memory past the region, where the model ends
as well ("past"), since what follows is undefined. The two forms of the header, in objects and in
bytes, are one model: the first is the second with objects of size 1 that need no
alignment. `objs` is not in the code: it remembers what was handed out. Memory that
realloc returns is aligned for every type, so the padding depends on the offset
alone. How callers live with regions that move is in `PathTrie`.

**PoolAlloc.** The list of pools as a sequence, the newest last; one action per
outcome of `pool_alloc_allocate`. Addresses count from a pool's node, whose header
comes first (`Header`), so padding depends on the header too. `SizeMax` is a small
`SIZE_MAX`: every sum and product that the code verifies is compared with it.

**Clocks.** `Tick` lets time pass at any point, also between two readings, and
`SetBack` is somebody who sets the real time back. `PutStart`, `RehashStart`, `RehashDone`, `PutDone` are the calls of `utime_init`
and of `utime_clocks` with `clocks_add`. `begun` and `elapsed` keep the true times.
A second has `Lim` microseconds, and seconds are a `size_t` of `SizeRange` values.
`debug` is the build: with it, an assertion that fails ends the program (`Measure`
goes to "abort"), without it seconds wrap around. `PrintTotals` has the check that
`clocks_time_print` makes in every build.

**Stack, Lifo.** `beg`, `end`, `top` are the pointers, counted in elements; `at` and
`cells` are the block they should point into, which each enlargement may put at
another address with anything in the memory added (`Junk`). `build` tells the three
ways the header is compiled: without a limit (so the printers of the tries have it),
with a `max_size`, of fixed size. What an `ENSURE` stops is `Exit`; what an assertion
would is "abort". `Read` is `STACK_BEG_REF` with `STACK_SIZE`, which is how a printer
takes a line off its stack. `Lifo` has the same calls on a sequence. `stack_max_size`
is the field `max_size`; it and the program counter have longer names so that one
module can prove things about this and other ones.

**SetLoad.** One action per line read. A line is its text, whether a NUL char and
how much else follows it, and whether it ends with a newline. When a line begins
with a NUL char, the code looks at the byte before its buffer
(`src/src/set-impl.h:226`); the model takes that byte not to be a newline, which
is so with every allocator that keeps sizes or pointers there.

**HashSizes, GHash, Dictionary.** `old` is the caller's table (its array, its number
of buckets in use, its free list) and `new` the local one of `hash_rehash`; `heap`
are the overflow entries, records linked by number, and `live` those that malloc
has given and not got back. A search is one step, since it changes nothing, but
each entry that `transfer_entries`, `hash_clear` or `hash_delete` moves is a step:
`MoveOverflow`, `KeepHead`, `MoveHead`, and `HeadFails`, where malloc returns NULL.
`phase` is which of the three transfers of `hash_rehash` is running: the one to the
new table, and the two that undo it. `hash_insert` is `InsertFound`, `InsertRoom`,
`InsertFull` (which starts a rehash), `Refind` and `Link`; then `Store` or
`NodeFails` in `GHASH_INSERT`, which puts the node where `hash_insert` linked an
entry. The program never removes an element; `hash_delete`, `hash_clear` and an
explicit `hash_rehash` are the rest of the table's interface, and `Ops` says which
calls a client makes. A state `broken` stands for the aborts that want of memory does
not explain. The factors, floats in the code, are fractions, and only the cut to an
integer is kept of what floats do; `n_alloc_entries`, a `size_t`, wraps at
`SizeRange`. In `Dictionary` a deletion takes its node out at some moment of the call
(`Drop`), after which the call is "deleted"; if the key was not there, it changes nothing
and answers NULL (`ReturnAbsent`), as the comment at `src/lib/gnulib/hash.c:1178` has it.
If it was there, the answer may be the entry or NULL, which is not what that comment says
(see below).

**Options.** An element of the command line is a cluster of short options, a long
option, or a text; `cur`, `rest` and `prev` are where `getopt_long` stands: the
element, the options left in it, the element before it. `NextElement` moves on, and
each option is an action by its kind: `TakeFlag`, `TakeBit`, `TakeArgHere` and
`TakeArgNext` (an argument in the rest of the element, or the whole next one),
`MissingArg`, `UnknownLong`, `AskUsage`, `Refuse`. The texts are what the parsers
read in them: a number with a tail, a factor in hundredths, a name, or bytes. A factor
is compared as the float that `strtof` makes of it: `Binary32` is that float, in units of
2^-27, and `Apart` the comparison of `float-traits.h` with its margin of `0.11f`.
`seen` is not in the code: it is what the command line said, in the words of
`--help`, for `OptionsAsGiven` to compare.

**PathSet.** `stage` is how far `main` is. The set table is the pair `set.type`,
`set.object`: `Dispatch` is the assertion of `SET_INTF_OBJ`, made before each call.
The structures themselves are not here again: a set holds the keys of `SetLoad`,
which is what `LHash`, `PathTrie`, `Trie` and `GHash` are shown to implement, and the
hash table whose load is printed is any that such a set may have come to
(`TablesOf`). The load is told in fractions of `Precision`, 100000 in the code; where it
does not fit the digits (`FracHolds`), `PrintStats` ends the program with status 127, as
the assertion of `compute_size_frac` does in a build with DEBUG, or goes on, as in one
without. The output is a sequence of blocks.

## What is checked

| run | instance | shows |
|---|---|---|
| `lhash` | 6 strings, four of which start from slots 0 and 1 of the first table; lengths 0, 3, 7, 255, 256, 300; load 1/8, growth 9/8, table sizes 37, 41, 47; 7 inserts | every order of inserts and lookups through two rehashes: types, `Reachable`, `OneNodePerKey`, `AssertionsHold`, refinement of `KeySet`, every call returns |
| `path_trie` | 7 lines over 2 letters and 2 separators, with the empty line, a leading separator, two in a row, and prefixes of one another; 4 inserts; the table may move at each allocation | types, `OnlyGrows`, `PrintsAll`, refinement of `KeySet`, every call returns |
| `path_trie_print` | the same | a print stops at the empty line (see below) |
| `trie` | 7 strings over 3 characters, one of them above 127, with the empty one and prefixes of others; 4 inserts; both builds | types and the union of `eq` and `val`, `PrintsSorted`, `PrintsElement`, refinement of `KeySet`, every call returns |
| `ghash` | 5 keys that share buckets in one table size, in another, in both or in none; memory for 3 overflow entries; three tunings; every call of the interface | types, `TablesRight`, `EntriesAccounted`, `AssertionsHold`, refinement of `Dictionary`, every call returns |
| `ghash_mem` | the same, one tuning | the number of entries a table reports is too small (see below) |
| `obj_alloc` | 2 regions, offsets to 7, four pairs of limits, sizes 1 and 3 with alignments 1, 2, 4, and objects of one size | types and the code's invariants, `ObjectsDisjoint`, `RefsLead`, `NullMeansFull`, in builds with and without assertions |
| `pool_alloc` | `SIZE_MAX` 63, header 12, sizes 1 to 63, alignments 1, 4, 8, four pairs of limits, 4 objects | types and the code's invariants, `ObjectsDisjoint`, `AssertionsHold` |
| `clocks` | seconds of 3 microseconds, 8 microseconds, 2 inserts, the clock set back once; `SIZE_MAX` 63 seconds; builds with and without assertions | normal form, assertions that fail only where the clock was set back, `TotalsClose` |
| `clocks_exact` | the same, no clock set back | a counter is less than the time spent (see below) |
| `stack` | the three builds; five pairs of limits, 3 and 5 among them; elements of 2 bytes, memory for 5, at two addresses | types and the pointers, refinement of `Lifo`, assertions included |
| `path_set` | command lines of up to 3 elements of 30 kinds; 3 texts, one empty; NUL chars; 4 lines; loads in tenths (`Precision` 10), of hash tables of 3 and 23 buckets | types and dispatch, `CountsRight`, `FirstLineKept`, `StatsRight`, `OutputShape`, `OptionsAsGiven`, `ErrorNamesOption` |

Why the bounds suffice. In `lhash` the collisions fill a run across the start of
the table, so a probe wraps; with a limit of 4 nodes in the first table and 5 in
the second, 6 strings force two rehashes, the second of a table that is itself
the result of one, and the seventh insert repeats a string after both. In
`path_trie` four inserts build a level of the tree with three nodes, share a
prefix, split at it, and insert a line again. In `trie` the strings make a node with both neighbours, one that ends inside
another, and elements whose walk up crosses nodes of other elements at each level.
In `obj_alloc` both regions are claimed, grown, filled to the limit and refused, at
limits that are no doubling of the initial size. In `pool_alloc` four objects fill a
pool, force a second and a third, and come back to fill the first; the sizes reach
past the largest pool, so that the arguments are refused, at the limit and past
`SIZE_MAX`. In `clocks` an insert may span two ends of a second, and a rehash
either of them or none; the clock is set back before, within or after each of them,
and a total that wrapped around comes back, or does not, with the second insert. In
`stack` the limits are met at a doubling and between two, and the memory ends below a
limit, above it, and in builds that have none.

In `ghash` the tables have 11, 17, 23 or 29 buckets. Of the five keys some share a bucket
in the table of 11 and part in the larger ones, and some the other way round, so that a
transfer spreads chains, joins others, and needs more entries than it sets free;
with three entries in all it fails at its first, second or third head, and every
such failure is undone. The tunings are one like that of the program with a small
load, so that three keys make the table grow; one that shrinks too; and one that
`hash_initialize` refuses.

In `path_set` three elements let an option be given, then given again, then be at
fault, and let an argument be in its element, in the next one, or missing. The 30
kinds hold each sort of option and argument there is, at and beyond its limits; the
product that overflows does so at 2^30, `SIZE_MAX` in this instance. Four lines let a
text come twice, with another between. There are more values than lines, so that the
cut of line numbers is not met (see below). Loads are told in tenths, so that a table of 23
buckets, of which 22 are used, is one whose digits are rounded up to one too many; in the
code that takes 200000 buckets. The loads of both tables are rounded up and down, empty
and full ones among them. Three factors are .11 from an end, where the floats let in .89 and
1.11 and refuse 3.89; the assumption `FactorsLetIn` of `MCPathSet` has all those let in.

Fairness. `LHash`, `PathTrie`, `Trie` and `GHash` assume weak fairness of the steps inside a
call (`WF_vars(Step)`): the program is one thread, and what it has begun it goes on
doing. Nothing is
assumed of the caller, which need not call again, nor of memory, which may fail
at any allocation.

`AssertionsHold` collects the code's own: `LHASH_ASSERT_INVARIANTS`, the two
`VERIFY`s and the `ASSERT` before the store. They need what the options parser
guarantees of the factors (`FactorsAssumption`: load strictly between .11 and .89, growth
strictly between 1.11 and 3.89; the texts .89 and 1.11, which the options let in, are read as
floats just inside of these bounds). In this run the table is never nearly full; that one
slot stays empty at every load the options let in is a theorem (`AssertionsAlwaysHold`).

### Where the code differs from what is said of it

* **A path trie with the empty line cannot be printed** (`path_trie_print`).
  The node of the empty line is reached with an empty stack, and the printer asks
  for the address of its first element, which ends the program. `path-set -P -r p
  -s l` on the lines `a/b`, an empty one and `a/c` ends with `stack is empty`. The
  character trie guards the same expression (`src/src/trie-impl.h:418`).
* **A second that is borrowed is one microsecond short** (`clocks_exact`).
  `clocks_time_sub` borrows `CLOCKS_MAX_USECS`, which is 999999, where
  `clocks_time_add` carries 1000000. An interval from 0.999999 s to 1 s measures 0.
  `set-stats.def` calls the counters the total time in microseconds. `TotalsClose`
  says what is true: one microsecond per interval at most is lost, none is gained.
* **Entries allocated during a rehash are not counted** (`ghash_mem`).
  `allocate_entry` counts an entry in the table it is called for. In a transfer that
  is the local `storage` of `hash_rehash`, whose counter is neither set nor added to
  the caller's, so that `hash_get_struct_mem` leaves these entries out of the total
  of bytes. When they are freed by a `hash_delete` that could not shrink the table,
  the counter goes below 0; the program never calls that.

Others, met while modelling and not given a run of their own:

* A clock set back ends the program. `clocks_time_sub` asserts that a reading is in no
  earlier second than the one before it, but the real time is that of `gettimeofday`.
  When it is set back within an insert (by an administrator, or by a program that keeps
  the time), the default build, which has `DEBUG`, aborts in the middle of the load.
  Without assertions the seconds wrap around, and if the total is negative at the end,
  `clocks_time_print` stops where it would print it. Where nobody does that, nothing of
  it happens (`NothingFails`, a part of `ClocksTypeOK`), and a total that was negative in
  between is right again (`TotalsClose`, modulo the range of the seconds).
* Narrow values miscount. With `CONFIG_VALUE_TYPE_SIZE` less than the width of the line
  numbers, the value of a line first seen at a multiple of 2^size is 0, which means
  "new" to `SET_LOAD`. The 8-bit build counts 257 unique lines and 256 nodes when the
  line first seen at #256 comes again at #257. The run `path_set` has more values than
  lines; with `ValueLimit = 4` and `MaxLines = 5` in its configuration TLC finds the case.
* In the Gnulib table, the factors may be such that a table "grows" to the size it
  has (`src/lib/gnulib/hash.c:1130`, the assumption `SlowStays` of `MCGHash`): the
  candidate is cut to an integer twice. Lookups stay right and become slower. The
  comment at line 1055 says that a transfer can run out of entries only on the way
  to a table with fewer buckets; a larger one may join chains too (keys 0 and 23 on
  the way from 11 to 23 buckets). What is argued from it, that undoing the transfer
  never fails, holds nevertheless (`AssertionsHold`).
* `hash_delete` of an overflow entry (`DeleteOverflow`) returns NULL where the comment
  before it (`src/lib/gnulib/hash.c:1178`) promises the entry. So `Dictionary` promises an
  answer only for a key that is not there.
* `lhash_is_prime` accepts the squares of odd primes; `next-prime.bc`, from which its
  constants come, has the same test.
* The error message of an unknown letter that is not the last of its cluster, after a
  long option, is about the long option: `path-set --verbose -xS` says that `verbose`
  allows no argument. `ErrorNamesOption` names this case and excludes every other.
  A letter above 127 meets an assertion in a build with DEBUG.
* `--help` has the factors strictly between 1 and 4, and strictly between 0 and 1
  (`src/src/common.c:194`). The code asks for more than `0.11f` between a factor and either
  end, in floats (`src/src/common.c:754`): of the hundredths, .12 to .89 and 1.11 to 3.88
  are let in, and .01 to .11, .90 to .99, 1.01 to 1.10 and 3.89 to 3.99 refused, though
  the usage lets them in. `OptionsAsGiven` calls the factors no more than .11 from an
  end "edge" and allows either answer there; everywhere else the code must do as `--help`
  says. "nan" stands for the default. `--help=x` prints the usage.
* A blank line may stand at the top of the output, before the statistics: with `-E -S`
  and a path set that holds only the empty line, which has no element, and with `-P -S`
  in a build that cannot print a path trie. `OutputShape` names these two cases and
  allows no other.
* `compute_size_frac` asserts that five digits are enough. They are in tables of fewer
  than 200000 buckets (`LoadsAlwaysFit`) and in the linear tables at any size. In a Gnulib
  table beyond that, with all its buckets in use but one in 200000 or fewer, they are one
  too many: a build with DEBUG stops there, after the counters printed before, and one
  without prints `0.100000`. `StatsRight` names this case and allows no other.
* `OBJ_ALLOC_ALLOCATE`, counting bytes, asserts after a realloc that the object fits
  (`src/src/obj-alloc-impl.h:357`), where its callers expect NULL. A region doubled and cut
  to its limit may be too small; with the limits `LHASH_INIT` passes that takes one element
  of about 2 GB. `NullMeansFull` says that it happens in this form only, and only in a
  region at its limit.
* `PATH_TRIE_LOOKUP`, compiled in no configuration, finds `a/x` when `a/` is inserted:
  an element that is not in the element set looks like the end of the line.

## What is proved

The proofs are checked by TLAPS for every value of the constants that satisfies the
named assumptions (the `ASSUME`s of the modules; TLC evaluates them in each run), so
for any number of lines, nodes, regions, options. `NumberLemmas` has the lemmas about
numbers that several of them need.

How recursion is reasoned about. The prover's induction theorems are of no use here
(they take an operator as a parameter), but `SetInduction` and `LeastElement` of
`NumberLemmas` say the same of a set of numbers, and that is enough for recursive
*functions*: to prove that such a function exists at all, then what it is. So what
is defined by recursion in a module that is proved about (the strings of a tree, the
powers of two, sums over the input, the sorted separators) is proved about for every
input, and not on samples.

**The hash table** (`LHashProofs`). For every set of strings, every hash function,
every length and every pair of admitted factors: `TypeCorrect`,
`AlwaysReachable`, `NeverTwoNodes`, `AssertionsAlwaysHold`, and `Implementation`,
the refinement of `KeySet`. They all follow from the inductive invariant of
`LHashInv`, which says in addition to the properties:

* where a probe stands: all slots between the home of the key and the slot
  probed are occupied, and none of those already passed holds the key. Without it
  an empty slot would not prove that the key is absent, and the store would make
  a second node;
* during a rehash, the nodes of the new table are exactly the nodes of the old
  slots already visited, each once; so a full copy has as many nodes as `used`
  says, and there is always an empty slot in the new table for the next one;
* after the rehash the key is still absent, so the second search needs no
  comparison.

That a load limit is above 0 and below the size, and that the grown size is
larger, is arithmetic on the fractions together with a minimal size of 32, kept by
the invariant, and with `NextPrimeBound`: `lhash_next_prime` always returns an odd number
at least as large as its argument, and one that its test accepts, unless it is the
constant N or above: for the largest sizes it is the next odd number, prime or not.

**The ternary search trie** (`TrieProofs`), for every finite set of strings and both
builds: `TrieTypeCorrect`, `TrieIsKeySet` (the refinement of `KeySet`),
`PrintedInOrder` and `ElementsSpelled`. A string with the 0 after it is a *word*. The
invariant `TrieInv` describes the tree without recursion: there is an assignment `g`
of a *region* to each node, a prefix and two bounds for the symbol after it, which
are the words a search would come to this node for; and

* the region of a node is the part of its parent's that its link stands for, so the
  tree is one, each node reached from one link;
* the regions of links that lead nowhere have no word in common with each other nor
  with the word of a node, so a node can be added at any of them. This is what
  distinguishes a search tree, and what the two loops of `TRIE_INSERT` must keep
  although they leave the tree with half a string in it after each round;
* the word looked for is in the region of the link where the search is.

`Stored`, the recursive definition of what the tree holds, is then the set of prefixes of
its last nodes (`StoredIs`): those sets solve its equation, and, numbers of nodes
growing downwards, nothing else does. `PrintInv` adds, for the recursive print, the
calls on the stack: each is for the node its caller waits for, and what is left to
print below the calls, together with what is printed, is everything, and comes after it
in order. `ElemInv` adds, for the build with `up`, that each link up leads to the node
whose "eq" link leads here, from any depth of neighbours; the walk of `print one` then
reads the word backwards and ends at the `base` the insert remembered.

**The path trie** (`PathTrieProofs`), for every set of lines, separators and hash, with a
table that may move at each allocation: `PathTypeCorrect`, `PathOnlyGrows`,
`PathIsKeySet` (the refinement of `KeySet`) and `PathPrintsAll`, from the inductive
invariant `PathInv` (`PathInvariance`). The tree is described as that of `Trie` is, by
regions; the symbols are elements compared by hash, so a region has a prefix and a *set*
of symbols where that of `Trie` has two bounds. What is new:

* a line is not the word of its node, but is cut into it. `Cuts` says that a word of
  interned elements spells a line, separators included; a line is cut in one way
  (`CutsSame`), and a word is cut from one line (`CutsBack`), also after more elements
  are interned (`CutsGrow`). So two lines never share a node, and none has two;
* a node is allocated in one step and linked in another. In between the table has one
  node more than the tree (`Size`), and `ptr`, fetched again after the allocation,
  must still lead to the free link where the search ended;
* the lookup goes from node to node as the insert does, but has only a base to go back
  to: the node of its line, if there is one, is in the region it has come to.

The invariant of the print says of the calls in progress that what each has left to
do are disjoint parts of the tree, which with what is printed make up all of it
(`NodeParts`, `NoneOf`), and that the stack of characters is what the way to the current
node spells (`SpellsText`). `PrintsAll` speaks of prints that come to an end; the one
that stops at the empty line is a finding (above).

**The Gnulib table** (`GHashProofs`), for every finite set of keys, every hash, any number
of overflow entries that memory has room for, all sizes and factors: `GHashTypeCorrect`,
`GHashTablesRight`, `GHashEntriesAccounted`, `GHashAssertionsHold` and
`GHashImplementation`, the refinement of `Dictionary`, from the inductive invariant
`GHashInv` (`GHashInvariance`). The properties walk the chains of a table, which is
recursion over links; the invariant does not. It says that there is an assignment `o`
of a *place* to each overflow entry (a bucket of the one table or of the other, the
free list, or nowhere: not allocated) such that

* each place has one list, of its own entries and of no others (`Ranked`): an entry has
  a rank, the next one is in the same place with the rank below, and rank 1 has no
  next. So lists end, and no entry is in two of them. A step of the code is a change
  of one or two links and of the place of one entry (`MoveFirst`, `MoveAfter`,
  `TakeFirst`, `PutFirst`, ...), and the free list, which two tables share during a
  rehash, is a place like the others;
* a key is in one place only, one of those its hash says, as a head or in an entry of
  the chain, and a chain has a head (`Keyed`); only the entry `hash_insert` has just
  linked has no key before its node exists;
* what the walk of a transfer has passed is empty, or, in the first pass of an undoing,
  without a chain (`Walked`), and both tables count their heads (`Counted`).

A bucket is a place by the size of its table and its index, so nothing changes place
when the new table becomes the caller's. The invariant has one shape for each thing that
may be going on (`Nothing`, `AtRest`, `Storing`, `Carrying`, `Emptying`, `Given`), with what
is live and how many entries the caller counts.

That the undoing of a transfer never fails, which the comment in `hash_rehash` argues from
chains that a larger table is to split (see the finding above), is argued here from
`Enough`: the keys are no more than the entries that are allocated and the buckets of
the old table in which some key belongs, together. This held when the transfer
began, since each key was a head of its bucket or had an entry; it stays so
while entries are only allocated and moved. And if, in the second pass of the undoing, a
head had to become an overflow entry with the free list empty, then every allocated entry
would be in a chain of the old table, and the other heads would have all those buckets
as homes between them: one key too many (`UndoNeedsNone`).

Then `GHashEntriesAccounted` counts: the list of a place, as the traversals of the
code see it, has each of its entries once (`Enum`, `Listing`), and the keys in a table
are as many as its heads and chained entries. For the sizes, `next_prime` is the loop
of the code, which ends because there are primes beyond every number
(`PrimeBeyond`). The assumptions are `KeysAssumption` (the keys are finitely many),
`TuningAssumption` and `BoundAssumption`.

**The stack** (`ServiceProofs`), in its three builds, for every size, limit and memory:
`StackTypeCorrect` and `StackIsSequence`, the refinement of `Lifo`, with the assertions of
`STACK_ENLARGE`. The invariant adds to `TypeOK` where the pointers are before
there is a block, and that no assertion has failed. The memory must fit twice in
`SIZE_MAX` (an assumption of `Stack`): a block that exists can be doubled in a `size_t`.

**The pool allocator** (`ServiceProofs`): `PoolTypeCorrect`, `PoolObjectsDisjoint`,
`PoolAssertionsHold`. **The object allocator** (`ObjAllocProofs`), in both its forms:
`ObjAllocTypeCorrect`, `RegionObjectsDisjoint`, `RefsAlwaysLead`, `NullAlwaysMeansFull`.
The invariants say that the objects of a block lie in its used part, apart from each
other, and that the limits are such that a sum or a doubling the code verifies
cannot wrap. `RefsAlwaysLead` needs that the bits of a reference split in one way only,
which is a lemma about powers of two.

**The clocks** (`ServiceProofs`), for every length of a second, any number of inserts and
clocks set back at any moment. `TotalsAlwaysClose`: a counter plus the microseconds lost
is the time spent plus a number of whole ranges of the seconds, which is what `TotalsClose`
says modulo that range; `ClocksInv` says it with the number, since sums are easier to
follow than remainders. `ClocksTypeCorrect`: normal form, and no failed assertion where no
clock is set back. For that the invariant says that the intervals of one counter are apart, so that
their sum has room in the time that has passed. It assumes that this time, in
microseconds, is a `size_t` (600000 years, or 71 minutes where `size_t` has 32 bits): the
print of a longer total ends the program.

**Loading** (`PathSetProofs`, which has it with the program), under the assumption that there are fewer lines
than the value type has values: `CountsAlwaysRight`, `FirstLineAlwaysKept` and
`WarningsAlwaysRight`. The invariant `LoadInv` says that the value of each key is
its first line's number, which is between 1 and the current line, hence never the
0 that means "new". Without the assumption they do not hold (see above).

**The program** (`PathSetProofs`), for every set of command-line elements, any number
of them, and every input.

* `ProgramLoads`: each step of the program is a step of `SetLoad` or leaves it alone,
  so what is proved of loading holds of the program.
* `MainTypeCorrect`: `MainTypeOK`, so that no function of the set table meets the set of
  another type, with tables of any size.
* `StatsAlwaysRight`: the lines, repetitions and bytes shown are those of the input, if
  it is shorter than the value type counts. The bytes are a sum over the input,
  which the invariant compares with the counter at each line. The load is the nearest
  fraction, but for the Gnulib table as good as full (above); tables may have any size.
* `LoadsAlwaysFit`: if all tables have fewer than 200000 buckets, there is no such case:
  the load printed is the fraction of five digits nearest to used / size of the table as
  it then is, and the program does not stop at the assertion of `compute_size_frac`.
  Both rest on lemmas of arithmetic: `FracFails`, that the digits round up to one too many
  only in a table as good as full, and `FracNearest`, that where they do not, what is
  shown is off by half a digit at most.
* `OutputWellFormed`: `OutputShape`, with the order in which the code tells what was asked
  for (the version, the options, the usage of the statistics, the usage). Each block has a
  rank, and the invariant says that ranks rise along the output, which blocks each stage
  may have written, and when there was nothing to write above a blank line.
* `ErrorsNameTheOption`: `ErrorNamesOption`, from the invariant `ScanInv`. It adds that
  what is left to be scanned of a long option is that option and nothing else, without
  which nothing would tell which element `argv[optind - 1]` is when one is refused.
* `OptionsAlwaysAsGiven`: `OptionsAsGiven`, for all numbers, units and factors, if
  `SizeMax` is at least 512M. The invariant `GivenInv` compares each field with the last
  thing said of it; under it are lemmas about the product with a unit, which is refused
  just when it overflows, about the factors (`BinaryNear`: a float is within half a spacing
  of its hundredths, so that what is let in is inside the words of `--help` and what is
  refused is outside or at an edge, and that the tables accept what is let in), and about the insertion sort of the separators, whose result is the same for
  every order they are given in.

**Only model-checked**: that calls return (liveness, which is beyond the prover); the
disagreements of code and comments above, which runs show by a violation; and that the operators of `Primes` and `HashSizes` are what the loops compute
(`PrimeLoops` for 1..600, `SizesPrime` for 0..400), where a loop is compared with an
operator declared RECURSIVE, which the prover cannot use.

## Not modelled

* The text of messages and of statistics, and the counters of comparisons and of
  memory, which are sums that nothing else reads.
* Operands of the command line, and the permutation `getopt_long` makes of them: the
  program ignores operands.
* The memory a set gives back at its end. `SET_DESTROY` frees what the set holds, and
  not the structure of the set itself; the program ends right after.
* `src/lib/json-type/int-traits.h`: vendored. Its macros assert or verify that an
  operation does not overflow, and are modelled where they are used (`SubHolds`,
  `EnlargeHolds`, and so on). Of `stack-impl.h`, vendored too, the two operations that
  change nothing and are not compiled in (`STACK_FIND_FIRST`, `STACK_PRINT_DEBUG`).
* The scripts that measure and plot, and the recorded results under `src/tests`.
* The bytes of strings and the mixing of bits by the hash functions: the properties
  depend only on their being functions, and on injectivity where `HashAssumption`
  says so.
* The hooks for debugging and the walks of `hash.c` that change nothing.

## Plan

Modules were written and proved about in the order of the tables above. What is left:

1. The loops of the primes as recursive functions, as `next_prime` is one in
   `HashSizes`, so that `PrimeLoops` and `SizesPrime` can be proved and not only compared
   over samples.
2. That calls return: the ranks are there (what a probe, a walk or a transfer has still
   to visit), for a prover that has fairness.
