---------------------------- MODULE MemoryCacheStore ----------------------------
(***************************************************************************)
(* The in-process LRU store of the read cache                              *)
(* (packages/ormize/src/read-cache/memory-store.ts).  Every method runs to *)
(* its end before another starts.  A value is abstracted to its size       *)
(* (key included); the Map is the sequence of its entries in insertion     *)
(* order, the least recently used first.  The generations are in           *)
(* ReadCache.tla.                                                          *)
(***************************************************************************)
EXTENDS Integers, Sequences, SequencesExt

CONSTANTS
  CacheKeys,
  Values,       \* sizes of the values that are stored
  MaxEntries,   \* options.maxEntries, 0 for no limit
  MaxSize,      \* options.maxSize, 0 for no limit
  TTLs,         \* lifetimes passed to set
  MaxTime,      \* bound: the clock
  Nothing       \* undefined

VARIABLES
  entries,  \* Map of key to value and expiry, in insertion order
  bytes,    \* the byte total
  now,      \* Date.now()
  reply,    \* what the last get returned
  latest,   \* history: value and expiry of the last set of each key
  used      \* history: <<j, k>> when k was used after j was last

vars == <<entries, bytes, now, reply, latest, used>>

Init ==
  /\ entries = <<>> /\ bytes = 0 /\ now = 0
  /\ reply = Nothing /\ used = {}
  /\ latest = [k \in CacheKeys |-> Nothing]

Held == {entries[i].key : i \in DOMAIN entries}
PlaceOf(k) == CHOOSE i \in DOMAIN entries : entries[i].key = k
EntryOf(k) == entries[PlaceOf(k)]
Without(k) == IF k \in Held THEN RemoveAt(entries, PlaceOf(k)) ELSE entries
Total(f) == MapThenSumSet(LAMBDA i : f[i], DOMAIN f)
BytesOf(es) == Total([i \in DOMAIN es |-> es[i].value])
Use(k) == used' = {p \in used : p[1] # k} \cup {<<j, k>> : j \in CacheKeys \ {k}}

(* As if an entry that expired were returned.                              *)
GetIgnoringExpiry(k) ==
  /\ k \in Held /\ reply' = EntryOf(k) /\ Use(k)
  /\ entries' = Append(Without(k), EntryOf(k))
  /\ UNCHANGED <<bytes, now, latest>>

(* A hit moves to the end; an expired entry is dropped. *)
Hit(k) ==
  /\ k \in Held /\ EntryOf(k).expires > now
  /\ entries' = Append(Without(k), EntryOf(k))
  /\ reply' = EntryOf(k) /\ Use(k)
  /\ UNCHANGED bytes

Miss(k) ==
  /\ k \in Held => EntryOf(k).expires <= now
  /\ entries' = Without(k)
  /\ bytes' = IF k \in Held THEN bytes - EntryOf(k).value ELSE bytes
  /\ reply' = Nothing /\ UNCHANGED used

Get(k) == (Hit(k) \/ Miss(k)) /\ UNCHANGED <<now, latest>>

Overfull(es, total) ==
  \/ MaxEntries > 0 /\ Len(es) > MaxEntries
  \/ MaxSize > 0 /\ total > MaxSize

(* How many of the least recently used entries the loop of set deletes. *)
Evictions(es) ==
  CHOOSE n \in 0..Len(es) :
    /\ n = Len(es) \/ ~Overfull(SubSeq(es, n + 1, Len(es)), BytesOf(SubSeq(es, n + 1, Len(es))))
    /\ \A m \in 0..n-1 : Overfull(SubSeq(es, m + 1, Len(es)), BytesOf(SubSeq(es, m + 1, Len(es))))

TooBig(v) == MaxSize > 0 /\ v > MaxSize

(* The old entry goes in any case; a value bigger than the whole budget is *)
(* not kept; then the least recently used are evicted.                     *)
Set(k, v, ttl) ==
  /\ latest' = [latest EXCEPT ![k] = [value |-> v, expires |-> now + ttl]]
  /\ LET freed == IF k \in Held THEN bytes - EntryOf(k).value ELSE bytes
         added == Append(Without(k), [key |-> k, value |-> v, expires |-> now + ttl])
         n == Evictions(added)
     IN IF TooBig(v)
        THEN entries' = Without(k) /\ bytes' = freed /\ UNCHANGED used
        ELSE /\ entries' = SubSeq(added, n + 1, Len(added))
             /\ bytes' = freed + v - BytesOf(SubSeq(added, 1, n))
             /\ Use(k)
  /\ UNCHANGED <<now, reply>>

Clear ==
  /\ entries' = <<>> /\ bytes' = 0
  /\ latest' = [k \in CacheKeys |-> Nothing]
  /\ UNCHANGED <<now, reply, used>>

Tick == now < MaxTime /\ now' = now + 1 /\ UNCHANGED <<entries, bytes, reply, latest, used>>

Next ==
  \/ Tick \/ Clear
  \/ \E k \in CacheKeys : Get(k) \/ \E v \in Values, ttl \in TTLs : Set(k, v, ttl)

Spec == Init /\ [][Next]_vars

-------------------------------------------------------------------------------
(* Properties *)

(* byteSize is what the held entries add up to, through every replacement, *)
(* expiry and eviction: a drift would make maxSize mean nothing.           *)
BytesAddUp == bytes = BytesOf(entries)

(* After every call the store is within both of its limits. *)
WithinLimits == ~Overfull(entries, bytes)

(* The Map's insertion order is the order of last use, so what set evicts  *)
(* is the least recently used.                                             *)
LeastRecentlyUsedFirst ==
  \A i, j \in DOMAIN entries : i < j => <<entries[i].key, entries[j].key>> \in used

(* get never returns a value older than the last one set, nor one whose    *)
(* ttl is over: a set that stores nothing still takes the old value away.  *)
HoldsTheLatest ==
  \A k \in Held : latest[k] = [value |-> EntryOf(k).value, expires |-> EntryOf(k).expires]

(* get returns no value whose ttl is over. *)
ReturnsUnexpired ==
  (\E k \in CacheKeys : Get(k)) => reply' = Nothing \/ reply'.expires > now
===============================================================================
