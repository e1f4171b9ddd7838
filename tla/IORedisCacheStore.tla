--------------------------- MODULE IORedisCacheStore ---------------------------
(***************************************************************************)
(* The shared store of the read cache in Redis or Valkey                   *)
(* (packages/ormize-cache-ioredis/src/index.ts).  SET, GET/LOOKUP and      *)
(* INVALIDATE are Lua scripts, atomic whoever calls them; a TTL takes an   *)
(* entry without its index rows; clear() is a SCAN and a DEL per page,     *)
(* with the calls of every other process in between.                       *)
(*                                                                         *)
(* One shape over one tag: an entry key is its generation, which lookup    *)
(* reads and a slow read may have looked up long before its set.  A value  *)
(* is its size, and `made` is the number of invalidations it was written   *)
(* after.                                                                  *)
(***************************************************************************)
EXTENDS Integers, FiniteSets, Functions, FiniteSetsExt

CONSTANTS
  MaxGen,       \* bound: invalidations
  Values,       \* sizes of the values that are stored
  MaxEntries, MaxSize,  \* the limits, 0 for none
  MaxClock,     \* bound: touches
  MaxClears     \* bound: calls of clear()

VARIABLES
  entries,  \* {prefix}:e:*, a function from the keys that exist
  lru, sizes, bytes, clock, gen,  \* the index keys and the generation counter
  incs,     \* history: invalidations so far
  hit,      \* history: the entry the last lookup returned and what it missed
  scan,     \* keys a clear() in progress still has to delete
  clears    \* clear() calls so far

vars == <<entries, lru, sizes, bytes, clock, gen, incs, hit, scan, clears>>
index == <<lru, sizes, bytes, clock>>
history == <<incs, hit, scan, clears>>

None == <<>>  \* the function that a missing hash or zset is
Missed == -1

Init ==
  /\ entries = None /\ lru = None /\ sizes = None
  /\ bytes = 0 /\ clock = 0 /\ gen = 0
  /\ incs = 0 /\ hit = Missed /\ scan = {} /\ clears = 0

Drop(f, k) == Restrict(f, DOMAIN f \ {k})
With(f, k, v) == [j \in DOMAIN f \cup {k} |-> IF j = k THEN v ELSE f[j]]
SizeIn(f, k) == IF k \in DOMAIN f THEN f[k] ELSE 0
Total(f) == MapThenSumSet(LAMBDA k : f[k], DOMAIN f)
SizesOf(f, ks) == Total([k \in ks |-> SizeIn(f, k)])

-------------------------------------------------------------------------------
(* The scripts *)

Over(count, total) ==
  \/ MaxEntries > 0 /\ count > MaxEntries
  \/ MaxSize > 0 /\ total > MaxSize

(* The loop of SET takes the lowest scores until the limits are met or     *)
(* nothing is left: `gone` is what it takes.                               *)
Lowest(z, gone) == \A k \in gone, j \in DOMAIN z \ gone : z[k] < z[j]
StopsAt(z, szs, total, gone) ==
  LET left == DOMAIN z \ gone IN
  left = {} \/ ~Over(Cardinality(left), total - SizesOf(szs, gone))
Evicted(z, szs, total) ==
  CHOOSE gone \in SUBSET DOMAIN z :
    /\ Lowest(z, gone) /\ StopsAt(z, szs, total, gone)
    /\ \A less \in SUBSET gone : less # gone /\ Lowest(z, less) => ~StopsAt(z, szs, total, less)

(* Mutant: the size of the entry that is replaced stays in the total. *)
SetKeepingOldSize(k, v) ==
  /\ clock < MaxClock /\ ~(MaxSize > 0 /\ v > MaxSize)
  /\ clock' = clock + 1 /\ bytes' = bytes + v
  /\ lru' = With(lru, k, clock + 1) /\ sizes' = With(sizes, k, v)
  /\ entries' = With(entries, k, [size |-> v, made |-> incs])
  /\ UNCHANGED <<gen, history>>

Set(k, v) ==
  /\ clock < MaxClock
  /\ LET old == bytes - SizeIn(sizes, k) IN
     IF MaxSize > 0 /\ v > MaxSize
     THEN /\ entries' = Drop(entries, k) /\ bytes' = old /\ UNCHANGED clock
          /\ IF k \in DOMAIN sizes
             THEN lru' = Drop(lru, k) /\ sizes' = Drop(sizes, k)
             ELSE UNCHANGED <<lru, sizes>>
     ELSE LET z == With(lru, k, clock + 1)
              szs == With(sizes, k, v)
              gone == Evicted(z, szs, old + v)
          IN /\ clock' = clock + 1
             /\ lru' = Restrict(z, DOMAIN z \ gone)
             /\ sizes' = Restrict(szs, DOMAIN szs \ gone)
             /\ bytes' = old + v - SizesOf(szs, gone)
             /\ entries' = LET all == With(entries, k, [size |-> v, made |-> incs])
                           IN Restrict(all, DOMAIN all \ gone)
  /\ UNCHANGED <<gen, history>>

(* GET and LOOKUP: a hit takes the next score, a miss settles the rows of  *)
(* an entry its TTL took.                                                  *)
Lookup ==
  /\ IF gen \in DOMAIN entries
     THEN /\ clock < MaxClock
          /\ hit' = incs - entries[gen].made
          /\ clock' = clock + 1
          /\ lru' = IF gen \in DOMAIN lru THEN With(lru, gen, clock + 1) ELSE lru
          /\ UNCHANGED <<sizes, bytes>>
     ELSE /\ hit' = Missed
          /\ sizes' = Drop(sizes, gen) /\ lru' = Drop(lru, gen)
          /\ bytes' = bytes - SizeIn(sizes, gen)
          /\ UNCHANGED clock
  /\ UNCHANGED <<entries, gen, incs, scan, clears>>

Invalidate ==
  /\ gen < MaxGen /\ incs < MaxGen
  /\ gen' = gen + 1 /\ incs' = incs + 1
  /\ UNCHANGED <<entries, index, hit, scan, clears>>

Expire ==
  /\ \E k \in DOMAIN entries : entries' = Drop(entries, k)
  /\ UNCHANGED <<index, gen, history>>

-------------------------------------------------------------------------------
(* clear(): what exists when the scan starts is deleted page by page. *)

Existing ==
  {<<"e", k>> : k \in DOMAIN entries} \cup (IF gen # 0 THEN {<<"v">>} ELSE {})
    \cup (IF lru # None THEN {<<"lru">>} ELSE {}) \cup (IF sizes # None THEN {<<"sizes">>} ELSE {})
    \cup (IF bytes # 0 THEN {<<"bytes">>} ELSE {}) \cup (IF clock # 0 THEN {<<"clock">>} ELSE {})

StartClear ==
  /\ scan = {} /\ clears < MaxClears /\ Existing # {}
  /\ scan' = Existing /\ clears' = clears + 1
  /\ UNCHANGED <<entries, index, gen, incs, hit>>

Forgotten(page) ==
  /\ entries' = Restrict(entries, {k \in DOMAIN entries : <<"e", k>> \notin page})
  /\ gen' = IF <<"v">> \in page THEN 0 ELSE gen
  /\ lru' = IF <<"lru">> \in page THEN None ELSE lru
  /\ sizes' = IF <<"sizes">> \in page THEN None ELSE sizes
  /\ bytes' = IF <<"bytes">> \in page THEN 0 ELSE bytes
  /\ clock' = IF <<"clock">> \in page THEN 0 ELSE clock

(* A page holds what SCAN finds by then, at least one key in the model.    *)
DeletePage ==
  \E found \in scan :
    Forgotten({found}) /\ scan' = scan \ {found} /\ UNCHANGED <<incs, hit, clears>>

Next ==
  \/ \E k \in 0..gen, v \in Values : Set(k, v)
  \/ Lookup \/ Invalidate \/ Expire \/ StartClear \/ DeletePage

Spec == Init /\ [][Next]_vars

-------------------------------------------------------------------------------
(* Properties *)

(* Until somebody calls clear() the index describes the entries: a row per *)
(* entry with its size, and a total that is the sum of the rows, so that a *)
(* get or an eviction settles what a TTL left behind ("Either one settles  *)
(* the accounting").  A clear() that other calls get into may leave a      *)
(* total that is no sum of anything.                                       *)
Accounting ==
  clears = 0 =>
    /\ DOMAIN lru = DOMAIN sizes /\ DOMAIN entries \subseteq DOMAIN sizes
    /\ \A k \in DOMAIN entries : sizes[k] = entries[k].size
    /\ bytes = Total(sizes)

(* After every script the entries that exist are within both limits.       *)
WithinLimits ==
  clears = 0 =>
    ~Over(Cardinality(DOMAIN entries), Total([k \in DOMAIN entries |-> entries[k].size]))

(* "An entry written before the increment is never looked up again"        *)
(* (utilize/src/types/cache.ts), as long as nobody calls clear(): what     *)
(* lookup returns was written after the last invalidation, also when the   *)
(* set that wrote it comes long after the lookup it answers.               *)
NeverLookedUpAgain == clears = 0 => hit <= 0
===============================================================================
