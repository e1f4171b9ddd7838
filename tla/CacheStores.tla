------------------------------ MODULE CacheStores ------------------------------
(***************************************************************************)
(* The two implementations of CacheStore that ship, of which a deployment  *)
(* chooses one: the in-process store (MemoryCacheStore.tla) and the shared *)
(* one (IORedisCacheStore.tla).  Both promise the same: what is held stays *)
(* within the limits and is accounted for, and nothing outdated is handed  *)
(* out.                                                                    *)
(***************************************************************************)
EXTENDS Integers, Sequences

CONSTANTS
  MaxEntries, MaxSize,                  \* of both
  CacheKeys, Values, TTLs, MaxTime, Nothing,  \* of the in-process store
  SharedValues, MaxGen, MaxClock, MaxCleared   \* of the shared one

ASSUME StoreAssumption ==
  /\ MaxEntries \in Nat /\ MaxSize \in Nat
  /\ Values \subseteq Nat /\ TTLs \subseteq Nat /\ MaxTime \in Nat
  /\ SharedValues \subseteq Nat /\ {MaxGen, MaxClock, MaxCleared} \subseteq Nat

VARIABLES
  chosen,                               \* the store in use
  held, bytes,                          \* its entries
  now, reply, latest, used,
  lru, sizes, clock, generation, incs, hit, scan, cleared

memoryOnly == <<now, reply, latest, used>>
redisOnly == <<lru, sizes, clock, generation, incs, hit, scan, cleared>>
storeVars == <<chosen, held, bytes, memoryOnly, redisOnly>>

Memory == INSTANCE MemoryCacheStore WITH entries <- held
Redis == INSTANCE IORedisCacheStore
  WITH Values <- SharedValues, MaxClears <- MaxCleared,
       entries <- held, gen <- generation, clears <- cleared

StoresInit ==
  \/ chosen = "memory" /\ Memory!Init
     /\ lru = Nothing /\ sizes = Nothing /\ clock = Nothing /\ generation = Nothing
     /\ incs = Nothing /\ hit = Nothing /\ scan = Nothing /\ cleared = Nothing
  \/ chosen = "redis" /\ Redis!Init
     /\ now = Nothing /\ reply = Nothing /\ latest = Nothing /\ used = Nothing

UseMemory == chosen = "memory" /\ Memory!Next /\ UNCHANGED <<chosen, redisOnly>>
UseRedis == chosen = "redis" /\ Redis!Next /\ UNCHANGED <<chosen, memoryOnly>>

StoresNext == UseMemory \/ UseRedis

StoresSpec == StoresInit /\ [][StoresNext]_storeVars

-------------------------------------------------------------------------------
(* Neither store ever holds more than its two limits allow: its eviction   *)
(* loop runs often enough whatever was replaced, expired or too big.  The  *)
(* byte total is what the entries add up to, through every replacement,    *)
(* expiry and eviction: a drift would make maxSize mean nothing.  And what *)
(* the in-process store evicts is the least recently used entry.           *)
Accounting ==
  IF chosen = "memory" THEN Memory!WithinLimits /\ Memory!BytesAddUp /\ Memory!LeastRecentlyUsedFirst
                      ELSE Redis!WithinLimits /\ Redis!Accounting

(* Nothing outdated is handed out: the in-process store holds no value     *)
(* that set replaced or was too big to replace, and get returns none whose *)
(* ttl is over; no lookup of the shared one returns an entry of before the *)
(* last invalidation, until clear() is called.                             *)
NothingOutdated ==
  [][IF chosen = "memory" THEN Memory!HoldsTheLatest' /\ Memory!ReturnsUnexpired
                         ELSE Redis!NeverLookedUpAgain']_storeVars
===============================================================================
