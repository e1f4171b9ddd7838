------------------------------- MODULE ReadCache -------------------------------
(***************************************************************************)
(* The read-through cache in front of an adapter's findAll and count       *)
(* (packages/ormize/src/read-cache/index.ts) with the generations of its   *)
(* CacheStore (read-cache/memory-store.ts; the same commands as Lua        *)
(* scripts in ormize-cache-ioredis/src/index.ts) and the mutations that    *)
(* invalidate it (mutationEntry of engine/mutations.ts).                   *)
(*                                                                         *)
(* Rows are abstracted to the set of writers whose effect they show: a     *)
(* result is stale when it lacks a writer, dirty when it shows one that    *)
(* has not committed.  A shape stands for everything of a read that is     *)
(* fingerprinted (model, operation, options, vary).                        *)
(* LRU eviction and TTL are the action Evict; MemoryCacheStore.tla has     *)
(* them in detail.                                                         *)
(***************************************************************************)
EXTENDS Naturals, FiniteSets

CONSTANTS
  Readers,    \* read requests
  Writers,    \* mutations
  Tags,       \* model names
  Shapes,     \* distinct cacheable reads
  TagsOf,     \* TagsOf[s]: the models the read s touches (readTags)
  Footprint,  \* Footprint[w]: the models w may have written (writeFootprint)
  Kind,       \* Kind[w]: how w is enrolled in a transaction
  Uncached,   \* shapes of models that are excluded or have opaque hooks
  Lookups,    \* finds take one step (ioredis' lookup: TRUE) or two (memory: FALSE)
  Dedupe,     \* options.dedupe
  Faults,     \* calls that may fail
  MaxClears,  \* bound: calls of clear()
  NoTx, NoRows

Kinds == {"plain", "unit", "native", "bare"}
FaultKinds == {"versions", "get", "set", "decode", "encode", "fetch", "invalidate"}

ASSUME CacheAssumption ==
  /\ TagsOf \in [Shapes -> SUBSET Tags] /\ Shapes # {}
  /\ Footprint \in [Writers -> SUBSET Tags]
  /\ Kind \in [Writers -> Kinds]
  /\ Lookups \subseteq BOOLEAN /\ Dedupe \in BOOLEAN
  /\ Faults \subseteq FaultKinds /\ MaxClears \in Nat
  /\ NoTx \notin Writers

VARIABLES
  gen,        \* generations: a counter per tag
  entries,    \* the stored entries
  clears,     \* clear() calls so far
  committed,  \* writers whose rows are visible to everybody
  wpc,        \* where a mutation stands
  seal,       \* history: the generations a writer's last bump left behind
  pc,         \* where a read stands
  req,        \* what it asked for, inside which transaction, and what it must see
  key,        \* the entry key its find built
  rows,       \* rows found, fetched or returned
  leader,     \* the read whose flight it joined
  inflight,   \* reads registered in this.inflight, each under its key
  skip,       \* skipEncode of a flight
  encoded,    \* whether the settled flight has an encoding
  oversized   \* shapes remembered as too big to store

store == <<gen, entries, clears>>
writer == <<committed, wpc, seal>>
reader == <<pc, req, key, rows, leader, inflight, skip, encoded, oversized>>
vars == <<store, writer, reader>>

Requests == [shape : Shapes, own : Writers \cup {NoTx}, since : SUBSET Writers]
Keys == [shape : Shapes, gens : [Tags -> Nat]]
Entries == [key : Keys, rows : SUBSET Writers]

(* The key of a shape under the current generations of the read's tags. *)
KeyOf(s) == [shape |-> s, gens |-> [t \in Tags |-> IF t \in TagsOf[s] THEN gen[t] ELSE 0]]

Touches(w, s) == Footprint[w] \cap TagsOf[s] # {}
Acked == {w \in Writers : wpc[w] = "acked"}

Init ==
  /\ gen = [t \in Tags |-> 0] /\ entries = {} /\ clears = 0
  /\ committed = {} /\ wpc = [w \in Writers |-> "idle"]
  /\ seal = [w \in Writers |-> [t \in Tags |-> 0]]
  /\ pc = [r \in Readers |-> "idle"]
  /\ req = [r \in Readers |-> [shape |-> CHOOSE s \in Shapes : TRUE, own |-> NoTx, since |-> {}]]
  /\ key = [r \in Readers |-> KeyOf(req[r].shape)]
  /\ rows = [r \in Readers |-> NoRows] /\ leader = [r \in Readers |-> r]
  /\ inflight = {} /\ skip = [r \in Readers |-> FALSE]
  /\ encoded = [r \in Readers |-> FALSE] /\ oversized = {}

-------------------------------------------------------------------------------
(* The store *)

Get(k) == IF \E e \in entries : e.key = k
          THEN (CHOOSE e \in entries : e.key = k).rows
          ELSE NoRows
Set(k, v) == {e \in entries : e.key # k} \cup {[key |-> k, rows |-> v]}
Bumped(ts) == [t \in Tags |-> IF t \in ts THEN gen[t] + 1 ELSE gen[t]]

(* The TTL or the LRU took an entry. *)
Evict ==
  /\ \E e \in entries : entries' = entries \ {e}
  /\ UNCHANGED <<gen, clears, writer, reader>>

Clear ==
  /\ clears < MaxClears
  /\ clears' = clears + 1 /\ entries' = {} /\ gen' = [t \in Tags |-> 0]
  /\ UNCHANGED <<writer, reader>>

-------------------------------------------------------------------------------
(* Mutations: the adapter's write, then invalidate in mutationEntry's finally. *)

Goto(w, position) == wpc' = [wpc EXCEPT ![w] = position]

(* Without a transaction a write is visible at once, and a mutation that    *)
(* throws may or may not have written.                                     *)
Write(w) ==
  /\ wpc[w] = "idle" /\ Goto(w, "written")
  /\ committed' \in IF Kind[w] = "plain" THEN {committed, committed \cup {w}} ELSE {committed}
  /\ UNCHANGED <<store, seal, reader>>

(* store.invalidate; a failure is reported and swallowed. *)
Bump(w) ==
  \/ gen' = Bumped(Footprint[w])
  \/ "invalidate" \in Faults /\ gen' = gen

FirstBump(w) ==
  /\ wpc[w] = "written"
  /\ Bump(w)
  /\ Goto(w, IF Kind[w] = "plain" THEN "acked" ELSE "open")
  /\ seal' = [seal EXCEPT ![w] = gen']
  /\ UNCHANGED <<entries, clears, committed, reader>>

(* The transaction commits.  A coordinator ("unit") and a transaction of   *)
(* the caller with an afterCommit ("native", Sequelize's) run the bump     *)
(* before they answer; one without ("bare") answers at once.               *)
Commit(w) ==
  /\ wpc[w] = "open"
  /\ committed' = committed \cup {w}
  /\ Goto(w, IF Kind[w] = "bare" THEN "acked" ELSE "committed")
  /\ UNCHANGED <<store, seal, reader>>

Rollback(w) ==
  /\ wpc[w] = "open" /\ Goto(w, "undone")
  /\ UNCHANGED <<store, committed, seal, reader>>

(* Mutant: nothing is invalidated after the commit. *)
NoSecondBump(w) ==
  /\ wpc[w] = "committed" /\ Goto(w, "acked")
  /\ UNCHANGED <<store, committed, seal, reader>>

SecondBump(w) ==
  /\ wpc[w] = "committed"
  /\ Bump(w)
  /\ Goto(w, "acked")
  /\ seal' = [seal EXCEPT ![w] = gen']
  /\ UNCHANGED <<entries, clears, committed, reader>>

-------------------------------------------------------------------------------
(* read() *)

Enter(r, position) == pc' = [pc EXCEPT ![r] = position]

(* Mutant: reads inside a transaction go through the cache. *)
BypassesExcluded(s, own) == s \in Uncached

(* shapeOf has no shape for a read inside a transaction or of an excluded model. *)
Bypasses(s, own) == own # NoTx \/ s \in Uncached

(* A read is called, from inside the transaction of `own` or outside any.  *)
(* It must see what was acknowledged before, and its transaction's writes. *)
Begin(r) ==
  /\ pc[r] = "idle"
  /\ \E s \in Shapes, own \in {w \in Writers : Kind[w] # "plain" /\ wpc[w] = "open"} \cup {NoTx} :
       /\ req' = [req EXCEPT ![r] = [shape |-> s, own |-> own,
                    since |-> (Acked \cap committed) \cup ({own} \ {NoTx})]]
       /\ Enter(r, IF Bypasses(s, own) THEN "direct" ELSE "find")
  /\ UNCHANGED <<store, writer, key, rows, leader, inflight, skip, encoded, oversized>>

(* find: one call to a store with lookup, otherwise versions and then get. *)
(* With both in Lookups every find takes either, which includes each store. *)
Lookup(r) ==
  /\ TRUE \in Lookups /\ pc[r] = "find"
  /\ key' = [key EXCEPT ![r] = KeyOf(req[r].shape)]
  /\ rows' = [rows EXCEPT ![r] = Get(KeyOf(req[r].shape))]
  /\ Enter(r, "found")
  /\ UNCHANGED <<store, writer, req, leader, inflight, skip, encoded, oversized>>

Versions(r) ==
  /\ FALSE \in Lookups /\ pc[r] = "find"
  /\ key' = [key EXCEPT ![r] = KeyOf(req[r].shape)]
  /\ Enter(r, "get")
  /\ UNCHANGED <<store, writer, req, rows, leader, inflight, skip, encoded, oversized>>

FindFails(r) ==
  /\ pc[r] = "find" /\ "versions" \in Faults
  /\ Enter(r, "direct")
  /\ UNCHANGED <<store, writer, req, key, rows, leader, inflight, skip, encoded, oversized>>

GetEntry(r) ==
  /\ pc[r] = "get"
  /\ \/ rows' = [rows EXCEPT ![r] = Get(key[r])]
     \/ "get" \in Faults /\ UNCHANGED rows
  /\ Enter(r, "found")
  /\ UNCHANGED <<store, writer, req, key, leader, inflight, skip, encoded, oversized>>

Hit(r) ==
  /\ pc[r] = "found" /\ rows[r] # NoRows
  /\ Enter(r, "done")
  /\ UNCHANGED <<store, writer, req, key, rows, leader, inflight, skip, encoded, oversized>>

(* No entry, or one that cannot be decoded. *)
Miss(r) == pc[r] = "found" /\ (rows[r] = NoRows \/ "decode" \in Faults)
Flights(k) == {r \in inflight : key[r] = k}

Joinable(r) == IF Dedupe THEN Flights(key[r]) ELSE {}

Join(r) ==
  /\ Miss(r)
  /\ \E l \in Joinable(r) : leader' = [leader EXCEPT ![r] = l]
  /\ Enter(r, "follow")
  /\ UNCHANGED <<store, writer, req, key, rows, inflight, skip, encoded, oversized>>

Lead(r) ==
  /\ Miss(r) /\ Joinable(r) = {}
  /\ inflight' = IF Dedupe THEN inflight \cup {r} ELSE inflight
  /\ skip' = [skip EXCEPT ![r] = req[r].shape \in oversized]
  /\ Enter(r, "fetch")
  /\ UNCHANGED <<store, writer, req, key, rows, leader, encoded, oversized>>

(* What the adapter's query sees when it runs. *)
Visible(r) == {w \in committed \cup ({req[r].own} \ {NoTx}) : Touches(w, req[r].shape)}

FetchReads(r) ==
  /\ pc[r] = "fetch"
  /\ rows' = [rows EXCEPT ![r] = Visible(r)]
  /\ Enter(r, "fetched")
  /\ UNCHANGED <<store, writer, req, key, leader, inflight, skip, encoded, oversized>>

Followers(r) == {f \in Readers : pc[f] = "follow" /\ leader[f] = r}

(* The flight settles.  A result known not to fit is only encoded for the  *)
(* followers it has by now.                                                *)
FetchSettles(r) ==
  /\ pc[r] = "fetched"
  /\ \E e \in IF skip[r] /\ Followers(r) = {} THEN {FALSE} ELSE {TRUE, "encode" \notin Faults} :
       encoded' = [encoded EXCEPT ![r] = e]
  /\ Enter(r, "settled")
  /\ UNCHANGED <<store, writer, req, key, rows, leader, inflight, skip, oversized>>

(* Mutant: the flight stays in the map. *)
FinishKeepingFlight(r, position) == Enter(r, position) /\ UNCHANGED inflight

(* The finally block. *)
Finish(r, position) ==
  /\ Enter(r, position)
  /\ inflight' = inflight \ Flights(key[r])

FetchRejects(r) ==
  /\ pc[r] = "fetch" /\ "fetch" \in Faults
  /\ Finish(r, "failed")
  /\ UNCHANGED <<store, writer, req, key, rows, leader, skip, encoded, oversized>>

(* The leader resumes: an encoding that fits is stored. *)
NothingToStore(r) ==
  /\ pc[r] = "settled"
  /\ \/ ~encoded[r] /\ UNCHANGED oversized
     \/ encoded[r] /\ oversized' = oversized \cup {req[r].shape}
  /\ Finish(r, "done")
  /\ UNCHANGED <<store, writer, req, key, rows, leader, skip, encoded>>

Fits(r) ==
  /\ pc[r] = "settled" /\ encoded[r]
  /\ oversized' = oversized \ {req[r].shape}
  /\ Enter(r, "store")
  /\ UNCHANGED <<store, writer, req, key, rows, leader, inflight, skip, encoded>>

StoreSets(r) ==
  /\ pc[r] = "store"
  /\ \/ entries' = Set(key[r], rows[r])
     \/ "set" \in Faults /\ UNCHANGED entries
  /\ Finish(r, "done")
  /\ UNCHANGED <<gen, clears, writer, req, key, rows, leader, skip, encoded, oversized>>

(* Mutant: a follower that only hears of success. *)
FollowerOfSuccess(r) ==
  /\ pc[r] = "follow" /\ pc[leader[r]] \in {"settled", "store", "done"}
  /\ IF encoded[leader[r]]
     THEN rows' = [rows EXCEPT ![r] = rows[leader[r]]] /\ Enter(r, "done")
     ELSE Enter(r, "direct") /\ UNCHANGED rows
  /\ UNCHANGED <<store, writer, req, key, leader, inflight, skip, encoded, oversized>>

(* A follower gets its own copy of the leader's rows, fetches when there   *)
(* is no encoding to copy, and fails when the leader's fetch failed.       *)
FollowerResumes(r) ==
  /\ pc[r] = "follow"
  /\ LET l == leader[r] IN
     \/ /\ pc[l] \in {"settled", "store", "done"} /\ encoded[l]
        /\ rows' = [rows EXCEPT ![r] = rows[l]] /\ Enter(r, "done")
     \/ /\ pc[l] \in {"settled", "store", "done"} /\ ~encoded[l]
        /\ Enter(r, "direct") /\ UNCHANGED rows
     \/ pc[l] = "failed" /\ Enter(r, "failed") /\ UNCHANGED rows
  /\ UNCHANGED <<store, writer, req, key, leader, inflight, skip, encoded, oversized>>

(* fetch() without the cache *)
DirectFetch(r) ==
  /\ pc[r] = "direct"
  /\ \/ rows' = [rows EXCEPT ![r] = Visible(r)] /\ Enter(r, "done")
     \/ "fetch" \in Faults /\ Enter(r, "failed") /\ UNCHANGED rows
  /\ UNCHANGED <<store, writer, req, key, leader, inflight, skip, encoded, oversized>>

(* rememberOversized keeps a shape for one ttl, and the latest 1000 only. *)
OversizedForgotten ==
  /\ \E s \in oversized : oversized' = oversized \ {s}
  /\ UNCHANGED <<store, writer, pc, req, key, rows, leader, inflight, skip, encoded>>

-------------------------------------------------------------------------------
WriterStep(w) == Write(w) \/ FirstBump(w) \/ Commit(w) \/ Rollback(w) \/ SecondBump(w)

Resumes(r) ==
  \/ Lookup(r) \/ Versions(r) \/ FindFails(r) \/ GetEntry(r)
  \/ Hit(r) \/ Join(r) \/ Lead(r)
  \/ FetchReads(r) \/ FetchRejects(r) \/ FetchSettles(r)
  \/ NothingToStore(r) \/ Fits(r) \/ StoreSets(r)
  \/ FollowerResumes(r) \/ DirectFetch(r)

Over ==
  /\ \A r \in Readers : pc[r] \in {"done", "failed"}
  /\ \A w \in Writers : wpc[w] \in {"acked", "undone"}
  /\ UNCHANGED vars

Next ==
  \/ Evict \/ Clear \/ OversizedForgotten \/ Over
  \/ \E w \in Writers : WriterStep(w)
  \/ \E r \in Readers : Begin(r) \/ Resumes(r)

Spec == Init /\ [][Next]_vars

(* A read that was called is resumed: the store and the adapter answer. *)
FairSpec == Spec /\ \A r \in Readers : WF_vars(Resumes(r))

-------------------------------------------------------------------------------
(* Properties *)

Flying == {"fetch", "fetched", "settled", "store"}

TypeOK ==
  /\ gen \in [Tags -> Nat] /\ entries \subseteq Entries /\ clears \in Nat
  /\ committed \subseteq Writers
  /\ wpc \in [Writers -> {"idle", "written", "open", "committed", "acked", "undone"}]
  /\ seal \in [Writers -> [Tags -> Nat]]
  /\ pc \in [Readers -> {"idle", "find", "get", "found", "follow", "direct", "done", "failed"} \cup Flying]
  /\ req \in [Readers -> Requests] /\ key \in [Readers -> Keys]
  /\ rows \in [Readers -> (SUBSET Writers) \cup {NoRows}]
  /\ leader \in [Readers -> Readers] /\ inflight \subseteq Readers
  /\ skip \in [Readers -> BOOLEAN] /\ encoded \in [Readers -> BOOLEAN]
  /\ oversized \subseteq Shapes

(* No stale read, until the first clear() (which resets the generations):  *)
(* a read called after a mutation was acknowledged returns                 *)
(* rows that show it, whatever it hits, joins or fetches, and a read inside *)
(* a transaction sees the transaction's own writes ("a write to any of     *)
(* them makes the key unreachable", read-cache/index.ts).                  *)
Fresh ==
  clears = 0 => \A r \in Readers : pc[r] = "done" =>
    {w \in req[r].since : Touches(w, req[r].shape)} \subseteq rows[r]

(* Rows that a transaction has not committed never leave it: not through   *)
(* an entry, a shared flight or the read of somebody outside.              *)
NoUncommittedRows ==
  /\ \A e \in entries : e.rows \subseteq committed
  /\ \A r \in Readers : pc[r] = "done" => rows[r] \subseteq committed \cup {req[r].own}

(* Reads of the same key at the same time make one adapter call, and a     *)
(* flight is in the map only while its read is running, so no read joins   *)
(* the rows of a read that is long over, past every TTL.                   *)
OneFlightPerKey ==
  Dedupe => \A q, r \in Readers :
    pc[q] \in Flying /\ pc[r] \in Flying /\ key[q] = key[r] => q = r
FlightsAreLive == OneFlightPerKey /\ \A r \in inflight : pc[r] \in Flying

(* Every read that is called returns or throws, followers included: again  *)
(* and again no read is under way (a reader here reads once).              *)
EveryReadSettles == []<>(\A r \in Readers : pc[r] \in {"idle", "done", "failed"})
===============================================================================
