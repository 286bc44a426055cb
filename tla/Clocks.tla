------------------------------- MODULE Clocks -------------------------------
(***************************************************************************)
(* The measurement of times, src/src/clocks-impl.h, as SET_PUT and         *)
(* LHASH_REHASH use it: an insert is timed, and the rehash it may need is  *)
(* timed within.  The differences are added up in counters.                *)
(*                                                                         *)
(* A second has Lim microseconds: the code has 1000000, and uses no other  *)
(* fact about that number.  Seconds are of type size_t.  The real time is  *)
(* that of gettimeofday, which somebody may set back at any moment.        *)
(***************************************************************************)
EXTENDS Integers, FiniteSets

CONSTANTS
  Lim,        \* CLOCKS_LIM_USECS
  Kinds,      \* the clocks: real, user, sys
  Settable,   \* those of them that may be set back: real
  SizeRange,  \* SIZE_MAX + 1
  Horizon,    \* bound: the last microsecond of each clock
  MaxInserts, \* bound: the number of inserts
  MaxBack     \* bound: how often a clock is set back

ASSUME LimAssumption == Lim \in Nat /\ Lim >= 2

ASSUME BoundsAssumption == /\ Settable \subseteq Kinds
                           /\ SizeRange \in Nat \ {0}
                           /\ Horizon \in Nat /\ MaxInserts \in Nat
                           /\ MaxBack \in Nat
                           /\ Horizon < SizeRange * Lim  \* clocks_time_init asserts it

VARIABLES
  debug,    \* built with DEBUG, as it is by default: then ASSERT is checked
  now,      \* now[k]: what clock k shows, in microseconds
  doing,    \* "idle", "insert", "rehash"; "printed" or "abort" at the end
  t, u,     \* the utime_t of SET_PUT and of LHASH_REHASH
  stats,    \* insert_time and rehash_time
  inserts,  \* inserts begun
  begun,    \* for the properties: when the timed functions began
  elapsed,  \* for the properties: the time spent in them
  rehashes, \* for the properties: rehashes done, and whether one was in this insert
  back      \* for the properties: how often a clock was set back

env == <<debug, now, back>>
clocksVars == <<env, doing, t, u, stats, inserts, begun, elapsed, rehashes>>

MaxUsecs == Lim - 1

Time == [secs : 0..(SizeRange - 1), usecs : 0..MaxUsecs]

Micros(time) == time.secs * Lim + time.usecs

Zero == [secs |-> 0, usecs |-> 0]

\* clocks_time_init: the microseconds may have seconds in them.
TimeInit(tv) == [secs |-> tv.secs + tv.usecs \div Lim, usecs |-> tv.usecs % Lim]

Carry(a, b) == IF a.usecs + b.usecs >= Lim THEN 1 ELSE 0
Borrow(a, b) == IF a.usecs < b.usecs THEN 1 ELSE 0

\* Mutant of TimeAdd: no carry.
TimeAddNoCarry(a, b) == [secs |-> a.secs + b.secs, usecs |-> a.usecs + b.usecs]

TimeAdd(a, b) == [secs |-> (a.secs + b.secs + Carry(a, b)) % SizeRange,
                  usecs |-> a.usecs + b.usecs - Carry(a, b) * Lim]

\* Mutant of TimeSub: the borrowed second is not taken off.
TimeSubKeep(a, b) == [secs |-> (a.secs - b.secs) % SizeRange,
                      usecs |-> a.usecs + Borrow(a, b) * MaxUsecs - b.usecs]

\* A borrowed second brings CLOCKS_MAX_USECS microseconds.
TimeSub(a, b) == [secs |-> (a.secs - b.secs - Borrow(a, b)) % SizeRange,
                  usecs |-> a.usecs + Borrow(a, b) * MaxUsecs - b.usecs]

\* Mutant of SubHolds: a second is asserted to be there if it is borrowed or not.
SubHoldsBorrow(a, b) == a.secs >= b.secs + 1

\* The assertions on the way: no size_t wraps around.
SubHolds(a, b) == a.secs >= b.secs + Borrow(a, b)
AddHolds(a, b) == a.secs + b.secs + Carry(a, b) < SizeRange

\* gettimeofday and getrusage; the code allows for microseconds that fill a second.
Timevals(micros) == {tv \in [secs : 0..micros \div Lim, usecs : 0..2 * Lim - 1] :
                       Micros(tv) = micros}

Readings(k) == {TimeInit(tv) : tv \in Timevals(now[k])}

\* What utime_init can store.
Utimes == {f \in [Kinds -> UNION {Readings(k) : k \in Kinds}] :
             \A k \in Kinds : f[k] \in Readings(k)}

UtimeClocks(end, start) == [k \in Kinds |-> TimeSub(end[k], start[k])]

ClocksAdd(c, d) == [k \in Kinds |-> TimeAdd(c[k], d[k])]

NoTime == [k \in Kinds |-> Zero]

ClocksInit == /\ debug \in BOOLEAN /\ back = 0
        /\ now \in [Kinds -> 0..Horizon]
        /\ doing = "idle"
        /\ t = NoTime /\ u = NoTime
        /\ stats = [insert_time |-> NoTime, rehash_time |-> NoTime]
        /\ inserts = 0
        /\ begun = [insert_time |-> now, rehash_time |-> now]
        /\ elapsed = [f \in {"insert_time", "rehash_time"} |-> [k \in Kinds |-> 0]]
        /\ rehashes = [done |-> 0, here |-> FALSE]

\* Time passes, whatever the program does.
Tick == /\ \E k \in Kinds : /\ now[k] < Horizon
                            /\ now' = [now EXCEPT ![k] = @ + 1]
        /\ UNCHANGED <<debug, back, doing, t, u, stats, inserts, begun, elapsed,
                       rehashes>>

SetBack == /\ back < MaxBack /\ back' = back + 1
           /\ \E k \in Settable : \E earlier \in 0..(now[k] - 1) :
                now' = [now EXCEPT ![k] = earlier]
           /\ UNCHANGED <<debug, doing, t, u, stats, inserts, begun, elapsed, rehashes>>

PutStart == /\ doing = "idle" /\ inserts < MaxInserts
            /\ t' \in Utimes
            /\ doing' = "insert" /\ inserts' = inserts + 1
            /\ begun' = [begun EXCEPT !.insert_time = now]
            /\ UNCHANGED <<env, u, stats, elapsed, rehashes>>

RehashStart == /\ doing = "insert" /\ ~rehashes.here
               /\ u' \in Utimes
               /\ doing' = "rehash"
               /\ begun' = [begun EXCEPT !.rehash_time = now]
               /\ UNCHANGED <<env, t, stats, inserts, elapsed, rehashes>>

\* The clocks are read, and the difference is added to the counter f.
Measure(f, start, next) ==
  \E end \in Utimes :
    LET d == UtimeClocks(end, start)
    IN IF debug => \A k \in Kinds : /\ SubHolds(end[k], start[k])
                                    /\ AddHolds(stats[f][k], d[k])
       THEN /\ stats' = [stats EXCEPT ![f] = ClocksAdd(@, d)]
            /\ elapsed' = [elapsed EXCEPT
                             ![f] = [k \in Kinds |-> @[k] + now[k] - begun[f][k]]]
            /\ doing' = next
       ELSE doing' = "abort" /\ UNCHANGED <<stats, elapsed>>

\* utime_t's are locals: their values are gone with the functions.
RehashDone == /\ doing = "rehash"
              /\ Measure("rehash_time", u, "insert")
              /\ u' = NoTime
              /\ rehashes' = [done |-> rehashes.done + 1, here |-> TRUE]
              /\ UNCHANGED <<env, t, inserts, begun>>

PutDone == /\ doing = "insert"
           /\ Measure("insert_time", t, "idle")
           /\ t' = NoTime
           /\ rehashes' = [rehashes EXCEPT !.here = FALSE]
           /\ UNCHANGED <<env, u, inserts, begun>>

\* clocks_time_print, for each clock of each counter: the total in microseconds
\* is verified to be a size_t in every build.
Printable(time) == Micros(time) < SizeRange

PrintTotals ==
  /\ doing = "idle"
  /\ doing' = IF \A f \in DOMAIN stats, k \in Kinds : Printable(stats[f][k])
           THEN "printed" ELSE "abort"
  /\ UNCHANGED <<env, t, u, stats, inserts, begun, elapsed, rehashes>>

ClocksNext == Tick \/ SetBack \/ PutStart \/ RehashStart \/ RehashDone \/ PutDone
        \/ PrintTotals

ClocksSpec == ClocksInit /\ [][ClocksNext]_clocksVars
-----------------------------------------------------------------------------
\* How often each counter was added to.
Intervals(f) == IF f = "rehash_time" THEN rehashes.done
                ELSE IF doing \in {"idle", "printed"} THEN inserts ELSE inserts - 1

\* What clocks_time_sub asserts holds under this condition: a reading is not
\* before an earlier one while no clock is set back.
NothingFails == back = 0 => doing # "abort"

(***************************************************************************)
(* The type invariant.  Every reading, difference and sum is in normal     *)
(* form, which is what the functions assert of their arguments; and where  *)
(* the program is stopped, a clock was set back.                           *)
(***************************************************************************)
ClocksTypeOK ==
  /\ debug \in BOOLEAN
  /\ now \in [Kinds -> 0..Horizon]
  /\ doing \in {"idle", "insert", "rehash", "printed", "abort"}
  /\ t \in [Kinds -> Time] /\ u \in [Kinds -> Time]
  /\ stats \in [insert_time : [Kinds -> Time], rehash_time : [Kinds -> Time]]
  /\ inserts \in 0..MaxInserts
  /\ begun \in [DOMAIN stats -> [Kinds -> 0..Horizon]]
  /\ elapsed \in [DOMAIN stats -> [Kinds -> Int]]
  /\ rehashes \in [done : 0..MaxInserts, here : BOOLEAN]
  /\ back \in 0..MaxBack
  /\ NothingFails

(***************************************************************************)
(* What is in a counter is the time spent, by the clock that was read,     *)
(* less at most one microsecond for each interval measured.  It is so      *)
(* modulo the range of the seconds: where a clock was set back, the        *)
(* counter that wrapped around is right again when the sum is positive.    *)
(***************************************************************************)
TotalsClose ==
  doing # "abort" =>
    \A f \in DOMAIN stats, k \in Kinds :
      \E lost \in 0..Intervals(f) :
        (Micros(stats[f][k]) + lost - elapsed[f][k]) % (SizeRange * Lim) = 0

(***************************************************************************)
(* What set-stats.def says of the counters: they are the total time spent, *)
(* in microseconds.  It does not hold: a difference that borrows loses one.*)
(***************************************************************************)
TotalsExact ==
  back = 0 =>
    \A f \in DOMAIN stats, k \in Kinds : Micros(stats[f][k]) = elapsed[f][k]
=============================================================================
